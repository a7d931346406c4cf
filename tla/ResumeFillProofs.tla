--------------------------- MODULE ResumeFillProofs ---------------------------
(***************************************************************************)
(* Proofs about Resume: no line is missed, and each file is read on from   *)
(* where it was left off.  FillInv is inductive where CoverInv is.         *)
(***************************************************************************)
EXTENDS ResumeFill, ResumeProofs

-----------------------------------------------------------------------------
(* What rows tell, and what is counted. *)

LEMMA FillParts ==
  ASSUME FillInv
  PROVE  /\ Trusted /\ Promised /\ Apart /\ NothingSkipped(Tables) /\ NothingSkipped(WithAcc)
         /\ ReadInTurn /\ StillDue
  BY DEF FillInv

\* What comes before a line that is before a rollback's target is so as well.
LEMMA EarlierTarget ==
  ASSUME TypeOK, NEW l \in Nat, NEW m \in Nat, l <= m, BeforeTarget(m)
  PROVE  BeforeTarget(l)
<1>1. PICK t \in targets : m < t
  BY DEF BeforeTarget
<1>2. t \in Nat
  <2>1. t \in Line
    BY Constants DEF TypeOK
  <2> QED BY <2>1, Constants DEF Lines0
<1> QED BY <1>1, <1>2 DEF BeforeTarget

LEMMA CountedLines ==
  ASSUME TypeOK
  PROVE  /\ Tables \subseteq WithAcc /\ WithAcc \subseteq Line
         /\ \A l \in Line : count[l] \in Nat /\ acc[l] \in Nat
         /\ \A l \in Line : l \in Nat
         /\ \A l \in Tables : l \in Seen \/ BeforeTarget(l)
         /\ \A l \in WithAcc : l \in SeenNext \/ BeforeTarget(l)
         /\ Seen \subseteq Tables /\ SeenNext \subseteq WithAcc
<1>1. \A l \in Line : count[l] \in Nat /\ acc[l] \in Nat
  BY DEF TypeOK
<1>2. Tables \subseteq WithAcc
  BY <1>1 DEF Tables, WithAcc
<1> QED BY <1>1, <1>2, Constants DEF Tables, WithAcc, Seen, SeenNext, Lines0

\* The last line that was counted is on record, and it and the others come before the end.
LEMMA CountedSoFar ==
  ASSUME ResumeInv, CoverInv, NEW m \in WithAcc \cup {lastLog}
  PROVE  \/ BeforeTarget(m) \/ m = 0
         \/ m \in Line /\ m <= written /\ (glob = {Packed} => m <= Edge(World))
<1>1. TypeOK
  BY DEF ResumeInv
<1>2. SUFFICES ASSUME ~BeforeTarget(m), m # 0
               PROVE  m \in Line /\ m <= written /\ (glob = {Packed} => m <= Edge(World))
  OBVIOUS
<1>3. /\ World.end = written /\ (World.only <=> glob = {Packed})
  BY <1>1, ThisWorld
<1>4. Counted(World, Seen) /\ Counted(World, SeenNext)
  BY CoverParts DEF Book
<1>5. CASE m \in WithAcc
  <2>1. m \in SeenNext /\ m \in Line
    BY <1>1, <1>2, <1>5, CountedLines
  <2> QED BY <1>3, <1>4, <2>1 DEF Counted
<1>6. CASE m = lastLog
  <2>1. m \in Line
    BY <1>1, <1>2, <1>6 DEF TypeOK, Line
  <2>2. m \in Seen
    BY <1>2, <1>6, <2>1, CoverParts DEF LastSeen
  <2> QED BY <1>3, <1>4, <2>1, <2>2 DEF Counted
<1> QED BY <1>5, <1>6

\* What a row tells of more, it tells of less.
LEMMA ToldOfLess ==
  ASSUME NEW r, NEW s, NEW S, NEW T, Told(r, S), S \subseteq T, Behind(s) \subseteq Behind(r),
         s.latest = r.latest, s.path = Live => r.path = Live
  PROVE  Told(s, T)
  BY DEF Told

\* Lines behind the offset of a row that has a head.
LEMMA BehindIs ==
  ASSUME NEW r, NEW c, c.from \in Nat, HeadSize = 1, r.uhead = HeadOf(c), c \in Content, r.uoff \in Nat
  PROVE  \A l : l \in Behind(r) <=> c.size # 0 /\ l \in Line /\ c.from < l /\ l <= c.from + r.uoff
<1>1. CASE c.size = 0
  BY <1>1, HeadIs DEF Behind
<1>2. CASE c.size # 0
  <2>1. r.uhead # NoHead /\ r.uhead[1] = c.from
    BY <1>2, HeadIs
  <2> QED BY <1>2, <2>1 DEF Behind
<1> QED BY <1>1, <1>2

\* What a row becomes when it is stored.
LEMMA StoredAs ==
  ASSUME NEW r \in Row, NEW s \in OptRow
  PROVE  LET m == Merged(r, s)
         IN /\ m \in Row /\ m.path = r.path /\ m.inode = r.inode /\ m.uhead = r.uhead /\ m.uoff = r.uoff
            /\ m.usize = r.usize /\ m.csize = r.csize /\ m.completed = r.completed /\ m.skip = r.skip
            /\ m.latest = (IF r.latest # NoTs THEN r.latest ELSE s.latest)
            /\ Behind(m) = Behind(r)
            /\ Ended(r) => Ended(m)
            /\ SkipsTargets(r) => SkipsTargets(m)
<1>1. Merged(r, s) \in Row
  BY MergedIsRow
<1>2. /\ Merged(r, s).path = r.path /\ Merged(r, s).inode = r.inode /\ Merged(r, s).uhead = r.uhead
      /\ Merged(r, s).uoff = r.uoff /\ Merged(r, s).usize = r.usize /\ Merged(r, s).csize = r.csize
      /\ Merged(r, s).completed = r.completed /\ Merged(r, s).skip = r.skip
      /\ Merged(r, s).latest = Coalesce(r.latest, s.latest)
  BY DEF Merged, Row
<1> HIDE DEF Merged
<1> QED BY <1>1, <1>2 DEF Coalesce, Behind, Ended, SkipsTargets

-----------------------------------------------------------------------------
(* The web server and logrotate: nothing that was read is read again. *)

\* Rows and counts stay when files move.
LEMMA RowsStay ==
  ASSUME UNCHANGED <<dbVars, runVars, targets>>
  PROVE  /\ Tables' = Tables /\ WithAcc' = WithAcc /\ \A l : BeforeTarget(l)' = BeforeTarget(l)
         /\ Trusted => Trusted'
         /\ Promised => Promised'
         /\ Apart => Apart'
<1>1. /\ count' = count /\ parseState' = parseState /\ archive' = archive /\ lastLog' = lastLog
      /\ todo' = todo /\ active' = active /\ acc' = acc /\ pending' = pending /\ retired' = retired
      /\ targets' = targets
  BY DEF dbVars, runVars
<1>2. \A l : BeforeTarget(l)' = BeforeTarget(l)
  BY <1>1 DEF BeforeTarget
<1>3. Tables' = Tables /\ WithAcc' = WithAcc
  BY <1>1 DEF Tables, WithAcc
<1>4. /\ \A r, S : Told(r, S)' <=> Told(r, S)
      /\ \A r : SkipsTargets(r)' <=> SkipsTargets(r)
      /\ \A r : ToStore(r)' = ToStore(r)
  <2>1. Unretired' = Unretired
    BY <1>1 DEF Unretired
  <2> QED BY <1>1, <1>2, <2>1 DEF Told, SkipsTargets, ToStore
<1>5. RowsInHand' = RowsInHand
  BY <1>1 DEF RowsInHand
<1>6. Trusted => Trusted'
  BY <1>1, <1>3, <1>4 DEF Trusted
<1>7. Promised => Promised'
  BY <1>1, <1>3, <1>4, <1>5 DEF Promised
<1>8. Apart => Apart'
  BY <1>1, <1>5 DEF Apart
<1> QED BY <1>2, <1>3, <1>6, <1>7, <1>8

\* Of the files that a run has in hand none begins elsewhere, ends earlier or comes
\* after lines that have now come to light; those are not counted.
LEMMA FilesFilled ==
  ASSUME ResumeInv, FillInv, UNCHANGED <<dbVars, runVars, targets>>, due' \subseteq due,
         written <= written', written' \in Nat, file' \in [Inodes -> Content],
         \A k \in DOMAIN todo :
           LET c == file[todo[k].inode]
               d == file'[todo[k].inode]
           IN d.from = c.from /\ d.size >= c.size,
         active # NoFile =>
           LET c == file[active.inode]
               d == file'[active.inode]
           IN d.from = c.from /\ d.size >= c.size,
         OnDiskLines' \subseteq Line,
         \A l \in OnDiskLines' :
           \/ l \in OnDiskLines
           \/ /\ \A m \in WithAcc \cup {lastLog} : m < l \/ BeforeTarget(m)
              /\ \A k \in DOMAIN todo : file[todo[k].inode].from < l
              /\ active # NoFile => file[active.inode].from < l
  PROVE  FillInv'
<1>1. TypeOK /\ Idle
  BY DEF ResumeInv
<1>2. /\ lastLog' = lastLog /\ todo' = todo /\ active' = active /\ acc' = acc
  BY DEF dbVars, runVars
<1>3. /\ Tables' = Tables /\ WithAcc' = WithAcc /\ \A l : BeforeTarget(l)' = BeforeTarget(l)
      /\ Trusted' /\ Promised' /\ Apart'
  <2>1. Trusted /\ Promised /\ Apart
    BY FillParts
  <2> QED BY <2>1, RowsStay
<1>4. Tables \subseteq WithAcc /\ WithAcc \subseteq Line /\ \A l \in Line : l \in Nat
  BY <1>1, CountedLines
<1>5. /\ \A k \in DOMAIN todo : todo[k].inode \in Inodes /\ todo[k].uoff \in Nat
      /\ \A k \in DOMAIN todo : file[todo[k].inode] \in Content /\ file'[todo[k].inode] \in Content
      /\ active # NoFile => active.inode \in Inodes /\ active.at \in Nat
      /\ active # NoFile => file[active.inode] \in Content /\ file'[active.inode] \in Content
  <2>1. file \in [Inodes -> Content]
    BY <1>1 DEF TypeOK
  <2>2. \A k \in DOMAIN todo : todo[k].inode \in Inodes /\ todo[k].uoff \in Nat
    BY <1>1, HandIs, Constants DEF Row, Lines0
  <2>3. active # NoFile => active.inode \in Inodes /\ active.at \in Nat
    <3>1. active # NoFile => active \in ActiveFile
      BY <1>1, HandIs
    <3> QED BY <3>1, Constants DEF ActiveFile, Lines0
  <2> QED BY <2>1, <2>2, <2>3
<1>6. ASSUME NEW c \in Content, NEW d \in Content, d.from = c.from, d.size >= c.size, NEW off \in Nat
      PROVE  LinesOf(c, off, c.size) \subseteq LinesOf(d, off, d.size)
  BY <1>4, <1>6, ContentIs DEF LinesOf
<1>7. /\ \A k \in DOMAIN todo : RestOf(todo[k]) \subseteq RestOf(todo[k])'
      /\ RestOfActive \subseteq RestOfActive'
  <2>1. \A k \in DOMAIN todo : RestOf(todo[k]) \subseteq RestOf(todo[k])'
    <3> SUFFICES ASSUME NEW k \in DOMAIN todo PROVE RestOf(todo[k]) \subseteq RestOf(todo[k])'
      OBVIOUS
    <3> DEFINE c == file[todo[k].inode]
               d == file'[todo[k].inode]
    <3>1. c \in Content /\ d \in Content /\ d.from = c.from /\ d.size >= c.size /\ todo[k].uoff \in Nat
      BY <1>5
    <3>2. RestOf(todo[k]) = LinesOf(c, todo[k].uoff, c.size) /\ RestOf(todo[k])' = LinesOf(d, todo[k].uoff, d.size)
      BY <1>2 DEF RestOf
    <3> HIDE DEF c, d
    <3> QED BY <1>6, <3>1, <3>2
  <2>2. RestOfActive \subseteq RestOfActive'
    BY <1>2, <1>5, <1>6 DEF RestOfActive
  <2> QED BY <2>1, <2>2
<1>8. ASSUME NEW S \in SUBSET WithAcc, NothingSkipped(S), NEW m \in S \cup {lastLog}, NEW l \in OnDiskLines', l <= m
      PROVE  l \in S \/ BeforeTarget(l)
  <2>1. CASE l \in OnDiskLines
    BY <1>8, <2>1 DEF NothingSkipped
  <2>2. CASE m < l \/ BeforeTarget(m)
    <3>1. l \in Nat /\ m \in Nat
      BY <1>1, <1>4, <1>8 DEF TypeOK
    <3> QED BY <1>1, <1>8, <2>2, <3>1, EarlierTarget
  <2> QED BY <1>8, <2>1, <2>2
<1>9. NothingSkipped(Tables)' /\ NothingSkipped(WithAcc)'
  BY <1>2, <1>3, <1>4, <1>8, FillParts DEF NothingSkipped
<1>10. ReadInTurn'
  <2>1. ASSUME NEW k \in DOMAIN todo, NEW l \in OnDiskLines', l <= file[todo[k].inode].from
        PROVE  \/ l \in WithAcc \/ BeforeTarget(l) \/ l \in RestOfActive
               \/ \E j \in DOMAIN todo : j < k /\ l \in RestOf(todo[j])
    <3>1. l \in Nat /\ file[todo[k].inode].from \in Nat
      BY <1>4, <1>5, ContentIs
    <3>2. l \in OnDiskLines
      BY <2>1, <3>1
    <3> QED BY <2>1, <3>2, FillParts DEF ReadInTurn
  <2>2. ASSUME active # NoFile, NEW l \in OnDiskLines', l <= file[active.inode].from
        PROVE  l \in WithAcc \/ BeforeTarget(l)
    <3>1. l \in Nat /\ file[active.inode].from \in Nat
      BY <1>4, <1>5, <2>2, ContentIs
    <3>2. l \in OnDiskLines
      BY <2>2, <3>1
    <3> QED BY <2>2, <3>2, FillParts DEF ReadInTurn
  <2>3. \A k \in DOMAIN todo : file'[todo[k].inode].from <= written'
    <3>1. \A k \in DOMAIN todo : file[todo[k].inode].from <= written /\ file[todo[k].inode].from \in Nat
      BY <1>5, ContentIs, FillParts DEF ReadInTurn
    <3>2. written \in Nat
      BY <1>1, Constants DEF TypeOK, Lines0
    <3> QED BY <3>1, <3>2
  <2>4. active # NoFile => file'[active.inode].from <= written'
    <3>1. active # NoFile => file[active.inode].from <= written /\ file[active.inode].from \in Nat
      BY <1>5, ContentIs, FillParts DEF ReadInTurn
    <3>2. written \in Nat
      BY <1>1, Constants DEF TypeOK, Lines0
    <3> QED BY <3>1, <3>2
  <2> QED BY <1>2, <1>3, <1>7, <2>1, <2>2, <2>3, <2>4 DEF ReadInTurn
<1>11. StillDue'
  BY <1>2, <1>3, <1>7, FillParts DEF StillDue
<1> QED BY <1>3, <1>9, <1>10, <1>11 DEF FillInv

\* The lines of the files that are looked at.
LinesOn(g, d, f) == UNION {AllLines(f[d[p]]) : p \in {q \in g : d[q] # NoInode}}

LEMMA LinesOnAre ==
  ASSUME NEW g \in SUBSET Paths, NEW d \in [Paths -> Inodes \cup {NoInode}], NEW f \in [Inodes -> Content]
  PROVE  \A l : l \in LinesOn(g, d, f) <=>
                l \in Line /\ \E p \in g : d[p] # NoInode /\ f[d[p]].from < l /\ l <= f[d[p]].from + f[d[p]].size
<1>1. \A p \in g : d[p] # NoInode => f[d[p]] \in Content
  OBVIOUS
<1>2. \A l : l \in LinesOn(g, d, f) <=> \E p \in g : d[p] # NoInode /\ l \in AllLines(f[d[p]])
  BY DEF LinesOn
<1> QED BY <1>1, <1>2, LinesAre

LEMMA OnDiskAre ==
  OnDiskLines = LinesOn(glob, dir, file) /\ OnDiskLines' = LinesOn(glob', dir', file')
<1>1. OnDiskLines = LinesOn(glob, dir, file)
  BY DEF OnDiskLines, LinesOn, OnDisk, At
<1>2. OnDiskLines' = LinesOn(glob', dir', file')
  BY DEF OnDiskLines, LinesOn, OnDisk, At
<1> QED BY <1>1, <1>2

\* The files on disk, as numbers.
LEMMA DiskInOrder ==
  ASSUME ResumeInv, CoverInv, Untroubled
  PROVE  /\ glob = Paths \/ glob = {Packed}
         /\ glob \in SUBSET Paths /\ dir \in [Paths -> Inodes \cup {NoInode}] /\ file \in [Inodes -> Content]
         /\ written \in Nat
         /\ \A p \in Paths : dir[p] # NoInode =>
              /\ dir[p] \in Inodes /\ file[dir[p]] \in Content
              /\ file[dir[p]].from \in Nat /\ file[dir[p]].size \in Nat
         /\ dir[Live] # NoInode /\ file[dir[Live]].from + file[dir[Live]].size = written
         /\ dir[Rotated] # NoInode =>
              file[dir[Rotated]].size > 0 /\ file[dir[Rotated]].from + file[dir[Rotated]].size = file[dir[Live]].from
         /\ dir[Packed] # NoInode =>
              file[dir[Packed]].size > 0 /\ file[dir[Packed]].from + file[dir[Packed]].size = Edge(World)
         /\ Edge(World) = IF dir[Rotated] # NoInode THEN file[dir[Rotated]].from ELSE file[dir[Live]].from
         /\ \A p, q \in Paths : dir[p] # NoInode /\ dir[p] = dir[q] => p = q
<1> DEFINE w == World
<1>1. TypeOK /\ Tidy(w) /\ Globs \subseteq {Paths, {Packed}} /\ Disk
  BY CoverParts DEF ResumeInv, Untroubled
<1>2. /\ w \in WorldType /\ w.inode = dir /\ w.end = written
      /\ \A p \in Paths : dir[p] # NoInode => On(w, p) /\ w.at[p] = file[dir[p]] /\ dir[p] \in Inodes
      /\ \A p \in Paths : dir[p] = NoInode => ~On(w, p)
  BY <1>1, ThisWorld
<1>3. /\ glob = Paths \/ glob = {Packed}
      /\ glob \in SUBSET Paths /\ dir \in [Paths -> Inodes \cup {NoInode}] /\ file \in [Inodes -> Content]
      /\ written \in Nat
  <2>1. glob \in {Paths, {Packed}} /\ Packed \in Paths
    BY <1>1, ThreePaths DEF TypeOK
  <2>2. dir \in [Paths -> Inodes \cup {NoInode}] /\ file \in [Inodes -> Content] /\ written \in 0..MaxLines
    BY <1>1 DEF TypeOK
  <2>3. written \in Nat
    BY <2>2, Constants DEF Lines0
  <2> QED BY <2>1, <2>2, <2>3
<1>4. \A p \in Paths : dir[p] # NoInode =>
              /\ dir[p] \in Inodes /\ file[dir[p]] \in Content
              /\ file[dir[p]].from \in Nat /\ file[dir[p]].size \in Nat
  BY <1>2, <1>3, ContentIs
<1>5. \A p \in Paths : EndAt(w, p) = w.at[p].from + w.at[p].size
  BY <1>2, WorldIs
<1>6. dir[Live] # NoInode
  BY <1>1 DEF Disk
<1>7. \A p, q \in Paths : dir[p] # NoInode /\ dir[p] = dir[q] => p = q
  BY <1>1 DEF Disk
<1> HIDE DEF w
<1>8. Edge(w) = IF dir[Rotated] # NoInode THEN file[dir[Rotated]].from ELSE file[dir[Live]].from
  BY <1>2, <1>6, ThreePaths DEF Edge
<1>9. file[dir[Live]].from + file[dir[Live]].size = written
  BY <1>1, <1>2, <1>5, <1>6, ThreePaths DEF Tidy
<1>10. dir[Rotated] # NoInode =>
         file[dir[Rotated]].size > 0 /\ file[dir[Rotated]].from + file[dir[Rotated]].size = file[dir[Live]].from
  BY <1>1, <1>2, <1>5, <1>6, ThreePaths DEF Tidy
<1>11. dir[Packed] # NoInode =>
         file[dir[Packed]].size > 0 /\ file[dir[Packed]].from + file[dir[Packed]].size = Edge(w)
  BY <1>1, <1>2, <1>5, ThreePaths DEF Tidy
<1> QED BY <1>3, <1>4, <1>6, <1>7, <1>8, <1>9, <1>10, <1>11 DEF w

\* What a run has in hand, as numbers.
LEMMA HandInOrder ==
  ASSUME ResumeInv, CoverInv
  PROVE  /\ \A k \in DOMAIN todo : /\ todo[k] \in Row /\ todo[k].inode \in Inodes
                                   /\ todo[k].uoff \in Nat /\ todo[k].path \in glob
                                   /\ file[todo[k].inode] \in Content
         /\ active # NoFile => /\ active \in ActiveFile /\ active.inode \in Inodes /\ active.at \in Nat
                               /\ active.plan.path \in glob /\ file[active.inode] \in Content
<1>1. TypeOK /\ Idle /\ file \in [Inodes -> Content]
  BY DEF ResumeInv, TypeOK
<1>2. ASSUME NEW k \in DOMAIN todo
      PROVE  /\ todo[k] \in Row /\ todo[k].inode \in Inodes
             /\ todo[k].uoff \in Nat /\ todo[k].path \in glob
  <2>1. todo[k] \in Row /\ todo[k].path \in glob
    BY PlanIs
  <2> QED BY <2>1, NoteOf, RowFields, Constants DEF OptRow, Lines0, Row
<1>3. ASSUME active # NoFile
      PROVE  /\ active \in ActiveFile /\ active.inode \in Inodes /\ active.at \in Nat
             /\ active.plan.path \in glob
  <2>1. active \in ActiveFile
    BY <1>1, <1>3, HandIs
  <2>2. active.plan.path \in glob
    BY <1>3, ReadingIs DEF ReadFits
  <2> QED BY <2>1, <2>2, Constants DEF ActiveFile, Lines0
<1> QED BY <1>1, <1>2, <1>3

LEMMA WriteLineFills ==
  ASSUME ResumeInv, CoverInv, FillInv, Untroubled, WriteLine
  PROVE  FillInv'
<1> DEFINE i == dir[Live]
<1>1. /\ ResumeInv' /\ UNCHANGED <<glob, dir, dbVars, runVars, histVars>> /\ written' = written + 1
      /\ file' = [file EXCEPT ![dir[Live]].size = @ + 1, ![dir[Live]].mtime = written + 2]
  BY WriteLineKeeps DEF WriteLine
<1>2. /\ i \in Inodes /\ i # NoInode /\ file[i] \in Content /\ file[i].from \in Nat /\ file[i].size \in Nat
      /\ file[i].from + file[i].size = written /\ written \in Nat
      /\ glob \in SUBSET Paths /\ dir \in [Paths -> Inodes \cup {NoInode}] /\ file \in [Inodes -> Content]
  BY DiskInOrder, ThreePaths
<1>3. file' \in [Inodes -> Content] /\ dir' = dir /\ glob' = glob
  BY <1>1 DEF ResumeInv, TypeOK
<1>4. /\ file'[i].from = file[i].from /\ file'[i].size = file[i].size + 1
      /\ \A j \in Inodes : j # i => file'[j] = file[j]
  BY <1>1, <1>2 DEF Content
<1> HIDE DEF i
<1>5. ASSUME NEW j \in Inodes PROVE file'[j].from = file[j].from /\ file'[j].size >= file[j].size
  <2>1. file[j].size \in Nat
    BY <1>2, ContentIs
  <2> QED BY <1>2, <1>4, <2>1
<1>6. ASSUME NEW l \in OnDiskLines' PROVE l \in Line /\ (l \in OnDiskLines \/ l = written + 1)
  <2>1. l \in LinesOn(glob, dir, file')
    BY <1>3, OnDiskAre
  <2>2. PICK p \in glob : dir[p] # NoInode /\ file'[dir[p]].from < l /\ l <= file'[dir[p]].from + file'[dir[p]].size
    BY <1>2, <1>3, <2>1, LinesOnAre
  <2>3. l \in Line /\ l \in Nat
    BY <1>2, <1>3, <2>1, LinesOnAre, Constants DEF Lines0
  <2>4. dir[p] \in Inodes
    BY <1>2, <2>2
  <2>5. CASE dir[p] # i
    <3>1. l \in LinesOn(glob, dir, file)
      BY <1>2, <1>4, <2>2, <2>3, <2>4, <2>5, LinesOnAre
    <3> QED BY <2>3, <3>1, OnDiskAre
  <2>6. CASE dir[p] = i /\ l # written + 1
    <3>1. file[dir[p]].from < l /\ l <= file[dir[p]].from + file[dir[p]].size
      BY <1>2, <1>4, <2>2, <2>3, <2>6
    <3>2. l \in LinesOn(glob, dir, file)
      BY <1>2, <2>2, <2>3, <3>1, LinesOnAre
    <3> QED BY <2>3, <3>2, OnDiskAre
  <2> QED BY <2>3, <2>5, <2>6
<1>7. /\ \A m \in WithAcc \cup {lastLog} : m < written + 1 \/ BeforeTarget(m)
      /\ \A k \in DOMAIN todo : file[todo[k].inode].from < written + 1
      /\ active # NoFile => file[active.inode].from < written + 1
  <2>1. \A m \in WithAcc \cup {lastLog} : m < written + 1 \/ BeforeTarget(m)
    <3> SUFFICES ASSUME NEW m \in WithAcc \cup {lastLog}, ~BeforeTarget(m) PROVE m < written + 1
      OBVIOUS
    <3>1. m = 0 \/ (m \in Line /\ m <= written)
      BY CountedSoFar
    <3>2. m \in Nat
      BY <3>1, Constants DEF Lines0
    <3> QED BY <1>2, <3>1, <3>2
  <2>2. ASSUME NEW k \in DOMAIN todo PROVE file[todo[k].inode].from < written + 1
    <3>1. file[todo[k].inode].from \in Nat
      BY HandInOrder, ContentIs
    <3>2. file[todo[k].inode].from <= written
      BY FillParts DEF ReadInTurn
    <3> QED BY <1>2, <3>1, <3>2
  <2>3. ASSUME active # NoFile PROVE file[active.inode].from < written + 1
    <3>1. file[active.inode].from \in Nat
      BY <2>3, HandInOrder, ContentIs
    <3>2. file[active.inode].from <= written
      BY <2>3, FillParts DEF ReadInTurn
    <3> QED BY <1>2, <3>1, <3>2
  <2> QED BY <2>1, <2>2, <2>3
<1>8. /\ UNCHANGED <<dbVars, runVars, targets>> /\ due' \subseteq due /\ written <= written' /\ written' \in Nat
  BY <1>1, <1>2 DEF histVars
<1>9. /\ \A k \in DOMAIN todo : file'[todo[k].inode].from = file[todo[k].inode].from
                               /\ file'[todo[k].inode].size >= file[todo[k].inode].size
      /\ active # NoFile => file'[active.inode].from = file[active.inode].from
                            /\ file'[active.inode].size >= file[active.inode].size
  BY <1>5, HandInOrder
<1>10. \A l \in OnDiskLines' :
         \/ l \in OnDiskLines
         \/ /\ \A m \in WithAcc \cup {lastLog} : m < l \/ BeforeTarget(m)
            /\ \A k \in DOMAIN todo : file[todo[k].inode].from < l
            /\ active # NoFile => file[active.inode].from < l
  BY <1>6, <1>7
<1> QED BY <1>3, <1>6, <1>8, <1>9, <1>10, FilesFilled

\* If nothing comes to light, and files are new or as they were.
LEMMA NothingNew ==
  ASSUME ResumeInv, CoverInv, FillInv, Untroubled, ResumeInv', Disturb, due \in SUBSET Line,
         UNCHANGED <<glob, written, dbVars, runVars, targets>>,
         OnDiskLines' \subseteq OnDiskLines,
         \A k \in DOMAIN todo : file'[todo[k].inode] = file[todo[k].inode],
         active # NoFile => file'[active.inode] = file[active.inode]
  PROVE  FillInv'
<1>1. /\ file' \in [Inodes -> Content] /\ written' = written /\ written \in Nat
      /\ UNCHANGED <<dbVars, runVars, targets>>
  BY DiskInOrder DEF ResumeInv, TypeOK
<1>2. due' \subseteq due
  BY DEF Disturb
<1>3. OnDiskLines \subseteq Line
  BY DiskInOrder, LinesOnAre, OnDiskAre
<1>4. /\ \A k \in DOMAIN todo : file[todo[k].inode].size \in Nat
      /\ active # NoFile => file[active.inode].size \in Nat
  BY HandInOrder, ContentIs
<1>5. /\ \A k \in DOMAIN todo : file'[todo[k].inode].from = file[todo[k].inode].from
                               /\ file'[todo[k].inode].size >= file[todo[k].inode].size
      /\ active # NoFile => file'[active.inode].from = file[active.inode].from
                            /\ file'[active.inode].size >= file[active.inode].size
  BY <1>4
<1> QED BY <1>1, <1>2, <1>3, <1>5, FilesFilled

LEMMA RenameFills ==
  ASSUME ResumeInv, CoverInv, FillInv, Untroubled, Rename
  PROVE  FillInv'
<1>1. /\ TypeOK /\ Trouble = {} /\ ResumeInv' /\ Disturb /\ Done /\ Reading
      /\ UNCHANGED <<glob, written, dbVars, runVars, targets>>
      /\ dir[Rotated] = NoInode
  BY RenameKeeps, CoverParts DEF ResumeInv, Untroubled, Rename
<1>2. PICK i \in Inodes : /\ IsFresh(i)
                          /\ dir' = [dir EXCEPT ![Rotated] = dir[Live], ![Live] = i]
                          /\ file' = [file EXCEPT ![i] = Empty(written)]
  BY DEF Rename
<1>3. /\ glob = Paths \/ glob = {Packed}
      /\ glob \in SUBSET Paths /\ dir \in [Paths -> Inodes \cup {NoInode}] /\ file \in [Inodes -> Content]
      /\ dir' \in [Paths -> Inodes \cup {NoInode}] /\ file' \in [Inodes -> Content]
      /\ dir[Live] # NoInode /\ due \in SUBSET Line
  BY <1>1, DiskInOrder DEF ResumeInv, TypeOK
<1>4. dir'[Live] = i /\ dir'[Rotated] = dir[Live] /\ dir'[Packed] = dir[Packed]
  BY <1>2, <1>3, ThreePaths
<1>5. file'[i] = Empty(written) /\ \A j \in Inodes : j # i => file'[j] = file[j]
  BY <1>2, <1>3
<1>6. /\ \A k \in DOMAIN todo : todo[k].inode # i
      /\ active # NoFile => active.inode # i
      /\ \A p \in Paths : dir[p] # i
  BY <1>1, <1>2, FreshFile, FreshIs
<1>7. Empty(written).size = 0 /\ Empty(written).from \in Nat /\ Empty(written).from = written
  BY DiskInOrder DEF Empty
<1>8. OnDiskLines' \subseteq OnDiskLines
  <2> SUFFICES ASSUME NEW l \in LinesOn(glob, dir', file') PROVE l \in LinesOn(glob, dir, file)
    BY <1>1, OnDiskAre
  <2>1. PICK p \in glob : dir'[p] # NoInode /\ file'[dir'[p]].from < l /\ l <= file'[dir'[p]].from + file'[dir'[p]].size
    BY <1>3, LinesOnAre
  <2>2. l \in Line /\ l \in Nat
    BY <1>3, LinesOnAre, Constants DEF Lines0
  <2>3. p # Live
    BY <1>4, <1>5, <1>7, <2>1, <2>2
  <2>4. CASE p = Rotated
    <3>1. dir[Live] \in Inodes /\ Live \in glob
      BY <1>3, <2>4, ThreePaths
    <3>2. file[dir[Live]].from < l /\ l <= file[dir[Live]].from + file[dir[Live]].size
      BY <1>4, <1>5, <1>6, <2>1, <2>4, <3>1, ThreePaths
    <3> QED BY <1>3, <2>2, <3>1, <3>2, LinesOnAre
  <2>5. CASE p = Packed
    <3>1. dir[p] # NoInode /\ dir[p] \in Inodes
      BY <1>3, <1>4, <2>1, <2>5
    <3>2. file[dir[p]].from < l /\ l <= file[dir[p]].from + file[dir[p]].size
      BY <1>4, <1>5, <1>6, <2>1, <2>5, <3>1, ThreePaths
    <3> QED BY <1>3, <2>2, <2>1, <3>1, <3>2, LinesOnAre
  <2> QED BY <1>3, <2>3, <2>4, <2>5, ThreePaths
<1>9. /\ \A k \in DOMAIN todo : file'[todo[k].inode] = file[todo[k].inode]
      /\ active # NoFile => file'[active.inode] = file[active.inode]
  BY <1>5, <1>6, HandInOrder
<1> QED BY <1>1, <1>3, <1>8, <1>9, NothingNew

LEMMA CopyTruncateFills ==
  ASSUME ResumeInv, CoverInv, FillInv, Untroubled, CopyTruncate
  PROVE  FillInv'
<1> DEFINE j == dir[Live]
<1>1. /\ TypeOK /\ Trouble = {} /\ ResumeInv' /\ Disturb /\ Done /\ Reading
      /\ UNCHANGED <<glob, written, dbVars, runVars, targets>>
      /\ dir[Rotated] = NoInode /\ At(Live).size > 0
  BY CopyTruncateKeeps, CoverParts DEF ResumeInv, Untroubled, CopyTruncate
<1>2. PICK i \in Inodes : /\ IsFresh(i)
                          /\ dir' = [dir EXCEPT ![Rotated] = i]
                          /\ file' = [file EXCEPT ![i] = [At(Live) EXCEPT !.mtime = written + 1],
                                                  ![dir[Live]] = Empty(written)]
  BY DEF CopyTruncate
<1>3. /\ glob = Paths \/ glob = {Packed}
      /\ glob \in SUBSET Paths /\ dir \in [Paths -> Inodes \cup {NoInode}] /\ file \in [Inodes -> Content]
      /\ dir' \in [Paths -> Inodes \cup {NoInode}] /\ file' \in [Inodes -> Content]
      /\ due \in SUBSET Line
      /\ j \in Inodes /\ j # NoInode /\ file[j] \in Content /\ file[j] = At(Live)
      /\ file[j].from \in Nat /\ file[j].size \in Nat /\ file[j].from + file[j].size = written
      /\ \A p \in Paths : dir[p] # NoInode => (dir[p] = j => p = Live)
  BY <1>1, DiskInOrder, ThreePaths DEF ResumeInv, TypeOK, At
<1>4. dir'[Live] = j /\ dir'[Rotated] = i /\ dir'[Packed] = dir[Packed]
  BY <1>2, <1>3, ThreePaths
<1>5. /\ \A k \in DOMAIN todo : todo[k].inode # i
      /\ active # NoFile => active.inode # i
      /\ \A p \in Paths : dir[p] # i
  BY <1>1, <1>2, FreshFile, FreshIs
<1>6. Empty(written).size = 0 /\ Empty(written).from \in Nat /\ Empty(written).from = written
  BY DiskInOrder DEF Empty
<1>7. i # j
  BY <1>5, ThreePaths
<1>8. /\ file'[j] = Empty(written) /\ file'[i].from = file[j].from /\ file'[i].size = file[j].size
      /\ \A h \in Inodes : h # i /\ h # j => file'[h] = file[h]
  BY <1>2, <1>3, <1>7 DEF Content
<1> HIDE DEF j
<1>9. OnDiskLines' \subseteq OnDiskLines
  <2> SUFFICES ASSUME NEW l \in LinesOn(glob, dir', file') PROVE l \in LinesOn(glob, dir, file)
    BY <1>1, OnDiskAre
  <2>1. PICK p \in glob : dir'[p] # NoInode /\ file'[dir'[p]].from < l /\ l <= file'[dir'[p]].from + file'[dir'[p]].size
    BY <1>3, LinesOnAre
  <2>2. l \in Line /\ l \in Nat
    BY <1>3, LinesOnAre, Constants DEF Lines0
  <2>3. p # Live
    BY <1>4, <1>6, <1>8, <2>1, <2>2
  <2>4. CASE p = Rotated
    <3>1. Live \in glob
      BY <1>3, <2>4, ThreePaths
    <3>2. file[j].from < l /\ l <= file[j].from + file[j].size
      BY <1>4, <1>8, <2>1, <2>4
    <3>3. dir[Live] = j
      BY DEF j
    <3> QED BY <1>3, <2>2, <3>1, <3>2, <3>3, LinesOnAre
  <2>5. CASE p = Packed
    <3>1. dir[p] # NoInode /\ dir[p] \in Inodes /\ dir[p] # j
      BY <1>3, <1>4, <2>1, <2>5, ThreePaths
    <3>2. file[dir[p]].from < l /\ l <= file[dir[p]].from + file[dir[p]].size
      BY <1>4, <1>5, <1>8, <2>1, <2>5, <3>1, ThreePaths
    <3> QED BY <1>3, <2>2, <2>1, <3>1, <3>2, LinesOnAre
  <2> QED BY <1>3, <2>3, <2>4, <2>5, ThreePaths
<1>10. /\ \A k \in DOMAIN todo : todo[k].inode # j
       /\ active # NoFile => active.inode # j
  <2>1. file'[j].from # file[j].from
    BY <1>1, <1>3, <1>6, <1>8
  <2> QED BY <1>1, <2>1, NotSwapped
<1>11. /\ \A k \in DOMAIN todo : file'[todo[k].inode] = file[todo[k].inode]
       /\ active # NoFile => file'[active.inode] = file[active.inode]
  BY <1>5, <1>8, <1>10, HandInOrder
<1> QED BY <1>1, <1>3, <1>9, <1>11, NothingNew

\* Files that only packed ones are looked at of come to light behind everything
\* that was counted, and is planned or read.
LEMMA BehindEdge ==
  ASSUME ResumeInv, CoverInv, FillInv, Untroubled, glob = {Packed}, NEW l \in Line, l > Edge(World)
  PROVE  /\ \A m \in WithAcc \cup {lastLog} : m < l \/ BeforeTarget(m)
         /\ \A k \in DOMAIN todo : dir[Packed] = todo[k].inode /\ file[todo[k].inode].from < l
         /\ active # NoFile => file[active.inode].from < l
<1>1. TypeOK /\ l \in Nat /\ Edge(World) \in Nat /\ World \in WorldType /\ World.inode = dir
  <2>1. World \in WorldType /\ World.inode = dir
    BY ThisWorld DEF ResumeInv
  <2> QED BY <2>1, EdgeIs, Constants DEF Lines0, ResumeInv
<1>2. ASSUME NEW m \in WithAcc \cup {lastLog}, ~BeforeTarget(m) PROVE m < l
  <2>1. m = 0 \/ (m \in Line /\ m <= Edge(World))
    BY <1>2, CountedSoFar
  <2>2. 0 \in Nat /\ (m \in Line => m \in Nat) /\ l # 0
    <3>1. MaxLines \in Nat
      BY ResumeAssumption
    <3> QED BY <3>1 DEF Line
  <2>3. m \in Nat
    BY <2>1, <2>2
  <2> QED BY <1>1, <2>1, <2>2, <2>3
<1>3. ASSUME dir[Packed] # NoInode PROVE file[dir[Packed]].from < l /\ file[dir[Packed]].from \in Nat
  BY <1>1, <1>3, DiskInOrder, ThreePaths
<1>4. ASSUME NEW k \in DOMAIN todo PROVE dir[Packed] = todo[k].inode /\ file[todo[k].inode].from < l
  <2>1. PlanFits(World, todo[k], file[todo[k].inode], NextCurrent, SeenNext) /\ todo[k].path = Packed
        /\ todo[k].inode # NoInode
    BY PlanIs
  <2>2. dir[Packed] = todo[k].inode
    BY <1>1, <2>1, ThreePaths DEF PlanFits
  <2> QED BY <1>3, <2>1, <2>2
<1>5. ASSUME active # NoFile PROVE file[active.inode].from < l
  <2>1. /\ Placed(World, active.plan.path, active.inode, file[active.inode]) /\ active.plan.path = Packed
        /\ active.inode # NoInode
    BY <1>5, ReadingIs DEF ReadFits
  <2>2. file[active.inode].from \in Nat /\ file[active.inode].size \in Nat
    BY <1>5, HandInOrder, ContentIs
  <2>3. CASE dir[Packed] = active.inode
    BY <1>3, <2>1, <2>3
  <2>4. CASE EndOfAll(file[active.inode]) <= Edge(World)
    BY <1>1, <2>2, <2>4 DEF EndOfAll
  <2> QED BY <1>1, <2>1, <2>3, <2>4, ThreePaths DEF Placed
<1> QED BY <1>2, <1>4, <1>5

LEMMA PackNewFills ==
  ASSUME ResumeInv, CoverInv, FillInv, Untroubled, PackNew
  PROVE  FillInv'
<1> DEFINE j == dir[Rotated]
<1>1. /\ TypeOK /\ Trouble = {} /\ ResumeInv' /\ Disturb /\ Done /\ Reading
      /\ UNCHANGED <<glob, written, dbVars, runVars, targets>>
      /\ j # NoInode /\ (dir[Packed] = NoInode \/ glob = {Packed})
  BY PackNewKeeps, CoverParts DEF ResumeInv, Untroubled, PackNew
<1>2. PICK i \in Inodes : /\ IsFresh(i)
                          /\ dir' = [dir EXCEPT ![Rotated] = NoInode, ![Packed] = i]
                          /\ file' = [file EXCEPT ![i] = file[j]]
  BY DEF PackNew, At
<1>3. /\ glob = Paths \/ glob = {Packed}
      /\ glob \in SUBSET Paths /\ dir \in [Paths -> Inodes \cup {NoInode}] /\ file \in [Inodes -> Content]
      /\ dir' \in [Paths -> Inodes \cup {NoInode}] /\ file' \in [Inodes -> Content]
      /\ due \in SUBSET Line /\ written \in Nat
      /\ j \in Inodes /\ file[j] \in Content /\ file[j].from \in Nat /\ file[j].size \in Nat
      /\ Edge(World) = file[j].from
  BY <1>1, DiskInOrder, ThreePaths DEF ResumeInv, TypeOK
<1>4. dir'[Live] = dir[Live] /\ dir'[Rotated] = NoInode /\ dir'[Packed] = i
  BY <1>2, <1>3, ThreePaths
<1>5. /\ \A k \in DOMAIN todo : todo[k].inode # i
      /\ active # NoFile => active.inode # i
      /\ \A p \in Paths : dir[p] # i
  BY <1>1, <1>2, FreshFile, FreshIs
<1>6. file'[i] = file[j] /\ \A h \in Inodes : h # i => file'[h] = file[h]
  BY <1>2, <1>3
<1> HIDE DEF j
<1>7. /\ \A k \in DOMAIN todo : file'[todo[k].inode] = file[todo[k].inode]
      /\ active # NoFile => file'[active.inode] = file[active.inode]
  BY <1>5, <1>6, HandInOrder
<1>8. ASSUME NEW l \in OnDiskLines'
      PROVE  l \in Line /\ (l \in OnDiskLines \/ (glob = {Packed} /\ l > Edge(World)))
  <2>1. l \in LinesOn(glob, dir', file')
    BY <1>1, OnDiskAre
  <2>2. PICK p \in glob : dir'[p] # NoInode /\ file'[dir'[p]].from < l /\ l <= file'[dir'[p]].from + file'[dir'[p]].size
    BY <1>3, <2>1, LinesOnAre
  <2>3. l \in Line /\ l \in Nat
    BY <1>3, <2>1, LinesOnAre, Constants DEF Lines0
  <2>4. CASE p = Packed
    <3>1. file[j].from < l /\ l <= file[j].from + file[j].size
      BY <1>4, <1>6, <2>2, <2>4
    <3>2. CASE glob = {Packed}
      BY <1>3, <2>3, <3>1, <3>2
    <3>3. CASE glob = Paths
      <4>1. Rotated \in glob /\ dir[Rotated] = j /\ j # NoInode
        BY <1>1, <3>3, ThreePaths DEF j
      <4>2. l \in LinesOn(glob, dir, file)
        BY <1>3, <2>3, <3>1, <4>1, LinesOnAre
      <4> QED BY <2>3, <4>2, OnDiskAre
    <3> QED BY <1>3, <3>2, <3>3
  <2>5. CASE p = Live
    <3>1. dir[p] \in Inodes /\ dir[p] # NoInode /\ dir[p] # i
      BY <1>3, <1>4, <1>5, <2>2, <2>5, ThreePaths
    <3>2. file[dir[p]].from < l /\ l <= file[dir[p]].from + file[dir[p]].size
      BY <1>4, <1>6, <2>2, <2>5, <3>1
    <3>3. l \in LinesOn(glob, dir, file)
      BY <1>3, <2>2, <2>3, <3>1, <3>2, LinesOnAre
    <3> QED BY <2>3, <3>3, OnDiskAre
  <2> QED BY <1>3, <1>4, <2>2, <2>4, <2>5, ThreePaths
<1>9. \A l \in OnDiskLines' :
        \/ l \in OnDiskLines
        \/ /\ \A m \in WithAcc \cup {lastLog} : m < l \/ BeforeTarget(m)
           /\ \A k \in DOMAIN todo : file[todo[k].inode].from < l
           /\ active # NoFile => file[active.inode].from < l
  BY <1>8, BehindEdge
<1>10. due' \subseteq due /\ written <= written' /\ written' \in Nat
  BY <1>1, <1>3 DEF Disturb
<1>11. /\ \A k \in DOMAIN todo : file[todo[k].inode].size \in Nat
       /\ active # NoFile => file[active.inode].size \in Nat
  BY HandInOrder, ContentIs
<1>12. /\ \A k \in DOMAIN todo : file'[todo[k].inode].from = file[todo[k].inode].from
                               /\ file'[todo[k].inode].size >= file[todo[k].inode].size
       /\ active # NoFile => file'[active.inode].from = file[active.inode].from
                            /\ file'[active.inode].size >= file[active.inode].size
  BY <1>7, <1>11
<1>13. OnDiskLines' \subseteq Line
  BY <1>8
<1> QED BY <1>1, <1>3, <1>9, <1>10, <1>12, <1>13, FilesFilled

LEMMA PackMemberFills ==
  ASSUME ResumeInv, CoverInv, FillInv, Untroubled, PackMember
  PROVE  FillInv'
<1> DEFINE i == dir[Packed]
           j == dir[Rotated]
<1>1. /\ TypeOK /\ ResumeInv' /\ Disturb
      /\ UNCHANGED <<glob, written, dbVars, runVars, targets>>
      /\ j # NoInode /\ i # NoInode /\ glob = {Packed}
      /\ dir' = [dir EXCEPT ![Rotated] = NoInode]
      /\ file' = [file EXCEPT ![i] = [from  |-> @.from,
                                      size  |-> @.size + file[j].size,
                                      mtime |-> written + 1]]
  BY PackMemberKeeps DEF ResumeInv, PackMember, At
<1>2. /\ dir \in [Paths -> Inodes \cup {NoInode}] /\ file \in [Inodes -> Content] /\ written \in Nat
      /\ dir' \in [Paths -> Inodes \cup {NoInode}] /\ file' \in [Inodes -> Content]
      /\ j \in Inodes /\ file[j].from \in Nat /\ file[j].size \in Nat
      /\ i \in Inodes /\ file[i].from \in Nat /\ file[i].size \in Nat
      /\ Edge(World) = file[j].from /\ file[i].from + file[i].size = Edge(World)
  BY <1>1, DiskInOrder, ThreePaths DEF ResumeInv, TypeOK
<1>3. dir'[Packed] = i
  BY <1>1, <1>2, ThreePaths
<1>4. /\ file'[i].from = file[i].from /\ file'[i].size = file[i].size + file[j].size
      /\ \A h \in Inodes : h # i => file'[h] = file[h]
  BY <1>1, <1>2
<1>5. dir[Packed] = i
  OBVIOUS
<1> HIDE DEF i, j
<1>6. ASSUME NEW h \in Inodes PROVE file'[h].from = file[h].from /\ file'[h].size >= file[h].size
  <2>1. file[h].size \in Nat
    BY <1>2, ContentIs
  <2> QED BY <1>2, <1>4, <2>1
<1>7. ASSUME NEW l \in OnDiskLines' PROVE l \in Line /\ (l \in OnDiskLines \/ l > Edge(World))
  <2>1. glob \in SUBSET Paths
    BY <1>1, ThreePaths
  <2>2. l \in LinesOn(glob, dir', file')
    BY <1>1, OnDiskAre
  <2>3. l \in Line /\ l \in Nat /\ file'[i].from < l
    <3>1. l \in Line /\ \E p \in glob : dir'[p] # NoInode /\ file'[dir'[p]].from < l
      BY <1>2, <2>1, <2>2, LinesOnAre
    <3>2. PICK p \in glob : dir'[p] # NoInode /\ file'[dir'[p]].from < l
      BY <3>1
    <3>3. p = Packed
      BY <1>1
    <3> QED BY <1>3, <3>1, <3>2, <3>3, Constants DEF Lines0
  <2>4. CASE l <= Edge(World)
    <3>1. file[i].from < l /\ l <= file[i].from + file[i].size
      BY <1>2, <1>4, <2>3, <2>4
    <3>2. l \in LinesOn(glob, dir, file)
      BY <1>1, <1>2, <1>5, <2>1, <2>3, <3>1, LinesOnAre
    <3> QED BY <2>3, <3>2, OnDiskAre
  <2> QED BY <1>2, <2>3, <2>4
<1>8. \A l \in OnDiskLines' :
        \/ l \in OnDiskLines
        \/ /\ \A m \in WithAcc \cup {lastLog} : m < l \/ BeforeTarget(m)
           /\ \A k \in DOMAIN todo : file[todo[k].inode].from < l
           /\ active # NoFile => file[active.inode].from < l
  BY <1>1, <1>7, BehindEdge
<1>9. due' \subseteq due /\ written <= written' /\ written' \in Nat
  BY <1>1, <1>2 DEF Disturb
<1>10. /\ \A k \in DOMAIN todo : file'[todo[k].inode].from = file[todo[k].inode].from
                               /\ file'[todo[k].inode].size >= file[todo[k].inode].size
       /\ active # NoFile => file'[active.inode].from = file[active.inode].from
                            /\ file'[active.inode].size >= file[active.inode].size
  BY <1>6, HandInOrder
<1>11. OnDiskLines' \subseteq Line
  BY <1>7
<1> QED BY <1>1, <1>2, <1>8, <1>9, <1>10, <1>11, FilesFilled

-----------------------------------------------------------------------------
(* Reading a file. *)

LEMMA RowForSays ==
  ASSUME NEW f \in ActiveFile, NEW completed \in BOOLEAN
  PROVE  LET r == RowFor(f, completed)
         IN /\ r \in Row /\ f.plan \in Row
            /\ r.path = f.plan.path /\ r.inode = f.plan.inode /\ r.uhead = f.plan.uhead
            /\ r.csize = f.plan.csize /\ r.usize = (IF IsCompressed(r.path) THEN f.at ELSE f.plan.usize)
            /\ r.uoff = f.at /\ r.latest = f.latest /\ r.skip = NoTs /\ r.completed = completed
<1>1. RowFor(f, completed) \in Row /\ f.plan \in Row
  BY RowForIs DEF ActiveFile
<1>2. LET r == RowFor(f, completed)
      IN /\ r.path = f.plan.path /\ r.inode = f.plan.inode /\ r.uhead = f.plan.uhead
         /\ r.csize = f.plan.csize /\ r.usize = (IF IsCompressed(r.path) THEN f.at ELSE f.plan.usize)
         /\ r.uoff = f.at /\ r.latest = f.latest /\ r.skip = NoTs /\ r.completed = completed
  BY <1>1 DEF RowFor, Row
<1> QED BY <1>1, <1>2

\* A row that is stored keeps what it says and takes over a time stamp.
LEMMA ToStoreIs ==
  ASSUME TypeOK, NEW r \in Row
  PROVE  LET m == ToStore(r)
             s == TheOnly(SameFilePath(Unretired, r))
         IN /\ s \in OptRow /\ m \in Row /\ m.path = r.path /\ m.inode = r.inode /\ m.uhead = r.uhead
            /\ m.uoff = r.uoff /\ m.completed = r.completed /\ m.skip = r.skip
            /\ m.latest = (IF r.latest # NoTs THEN r.latest ELSE s.latest)
            /\ Behind(m) = Behind(r)
            /\ Ended(r) => Ended(m)
            /\ SkipsTargets(r) => SkipsTargets(m)
<1> DEFINE s == TheOnly(SameFilePath(Unretired, r))
<1>1. s \in OptRow
  <2>1. SameFilePath(Unretired, r) \subseteq Row
    BY DEF SameFilePath, Unretired, TypeOK
  <2> QED BY <2>1, TheOnlyIs DEF OptRow
<1>2. ToStore(r) = Merged(r, s)
  BY DEF ToStore
<1> HIDE DEF s
<1>3. LET m == Merged(r, s)
      IN /\ m \in Row /\ m.path = r.path /\ m.inode = r.inode /\ m.uhead = r.uhead
         /\ m.uoff = r.uoff /\ m.completed = r.completed /\ m.skip = r.skip
         /\ m.latest = (IF r.latest # NoTs THEN r.latest ELSE s.latest)
         /\ Behind(m) = Behind(r)
         /\ Ended(r) => Ended(m)
         /\ SkipsTargets(r) => SkipsTargets(m)
  BY <1>1, StoredAs
<1> QED BY <1>1, <1>2, <1>3 DEF s

\* The lines that are counted when the file has been read up to a line.
WithRead(end) == {l \in Line : count[l] + AccWith(end)[l] > 0}

\* What is read up to a line is counted, or from before the month of a rollback.
LEMMA ReadLines ==
  ASSUME ResumeInv, CoverInv, FillInv, active # NoFile, NEW end \in 0..MaxLines,
         end <= file[active.inode].size
  PROVE  LET c == file[active.inode]
         IN /\ WithRead(end) = WithAcc \cup Kept(end)
            /\ Kept(end) \in SUBSET (0..MaxLines) /\ Kept(end) \subseteq Line
            /\ \A l \in Kept(end) : c.from + active.at < l /\ l <= c.from + end
            /\ \A l \in Line : c.from + active.at < l /\ l <= c.from + end => l \in Kept(end) \/ BeforeTarget(l)
<1> DEFINE c == file[active.inode]
<1>1. TypeOK /\ active \in ActiveFile /\ active.at \in Nat /\ c \in Content
  BY HandInOrder DEF ResumeInv
<1>2. /\ active.plan.skip \in Nat /\ SkipsTargets(active.plan) /\ c.from \in Nat
      /\ \A l \in Line : l \in Nat /\ count[l] \in Nat /\ acc[l] \in Nat
  <2>1. active.plan \in Row
    BY <1>1 DEF ActiveFile
  <2>2. active.plan.skip \in Lines0
    BY <2>1 DEF Row, Lines0
  <2>3. SkipsTargets(active.plan)
    BY FillParts DEF Promised
  <2> QED BY <1>1, <2>2, <2>3, CountedLines, ContentIs, Constants
<1>3. /\ Kept(end) \in SUBSET (0..MaxLines) /\ Kept(end) \subseteq Line
      /\ \A l \in Kept(end) : c.from + active.at < l /\ l <= c.from + end
  BY DEF Kept, LinesOf, Line
<1>4. WithRead(end) = WithAcc \cup Kept(end)
  BY <1>2, <1>3 DEF WithRead, WithAcc, AccWith
<1>5. ASSUME NEW l \in Line, c.from + active.at < l, l <= c.from + end PROVE l \in Kept(end) \/ BeforeTarget(l)
  <2>1. CASE l >= active.plan.skip
    BY <1>5, <2>1 DEF Kept, LinesOf
  <2>2. CASE l < active.plan.skip
    <3>1. active.plan.skip # NoTs
      BY <1>2, <2>2 DEF NoTs
    <3> QED BY <1>2, <2>2, <3>1 DEF SkipsTargets, BeforeTarget
  <2> QED BY <1>2, <2>1, <2>2
<1> QED BY <1>3, <1>4, <1>5

LEMMA ReadTells ==
  ASSUME ResumeInv, CoverInv, FillInv, Untroubled, active # NoFile, NEW end \in 0..MaxLines,
         end <= file[active.inode].size, NEW completed \in BOOLEAN
  PROVE  LET c == file[active.inode]
             f == ReadTo(end)
         IN /\ Told(ToStore(RowFor(f, completed)), WithRead(end))
            /\ NothingSkipped(WithRead(end))
            /\ \A l \in RestOfActive :
                 l \in WithRead(end) \/ BeforeTarget(l) \/ l \in LinesOf(c, f.at, c.size)
            /\ f.at = IF end > active.at THEN end ELSE active.at
<1> DEFINE c == file[active.inode]
           f == ReadTo(end)
           r0 == RowFor(active, FALSE)
           r1 == RowFor(f, completed)
           S == WithRead(end)
<1>1. /\ TypeOK /\ HeadSize = 1 /\ active \in ActiveFile /\ active.at \in Nat /\ c \in Content /\ c.from \in Nat
      /\ c.size \in Nat /\ end \in Nat /\ active.plan.uhead = HeadOf(c)
  <2>1. About(World, Note(active.plan), c)
    BY ReadingIs DEF ReadFits
  <2>2. active \in ActiveFile /\ active.plan \in Row
    BY HandInOrder DEF ActiveFile
  <2>3. active.plan.uhead = HeadOf(c)
    BY <2>1, <2>2, NoteOf DEF About
  <2> QED BY <2>3, HandInOrder, ContentIs, Constants DEF Lines0, ResumeInv, Untroubled
<1>2. /\ S = WithAcc \cup Kept(end)
      /\ Kept(end) \in SUBSET (0..MaxLines) /\ Kept(end) \subseteq Line
      /\ \A l \in Kept(end) : c.from + active.at < l /\ l <= c.from + end
      /\ \A l \in Line : c.from + active.at < l /\ l <= c.from + end => l \in Kept(end) \/ BeforeTarget(l)
  BY ReadLines
<1>3. /\ f \in ActiveFile /\ f.plan = active.plan
      /\ f.at = (IF end > active.at THEN end ELSE active.at)
      /\ f.latest = (IF Kept(end) # {} THEN Max(Kept(end)) ELSE active.latest)
  <2>1. f \in ActiveFile /\ f.plan = active.plan
    BY <1>1, ReadIs
  <2> QED BY <1>1, <2>1 DEF ReadTo, ActiveFile
<1>4. Kept(end) # {} => Max(Kept(end)) \in Kept(end) /\ \A l \in Kept(end) : l <= Max(Kept(end))
  <2>1. MaxLines \in Nat
    BY Constants
  <2> QED BY <1>2, <2>1, MaxIs
<1> HIDE DEF f, c, S
<1>5. /\ r0 \in Row /\ r0.path = active.plan.path /\ r0.uhead = HeadOf(c) /\ r0.uoff = active.at /\ r0.latest = active.latest
      /\ r1 \in Row /\ r1.path = active.plan.path /\ r1.uhead = HeadOf(c) /\ r1.uoff = f.at /\ r1.latest = f.latest
  <2>1. /\ r0 \in Row /\ r0.path = active.plan.path /\ r0.uhead = active.plan.uhead
        /\ r0.uoff = active.at /\ r0.latest = active.latest
    <3>1. FALSE \in BOOLEAN
      OBVIOUS
    <3> QED BY <1>1, <3>1, RowForSays
  <2>2. /\ r1 \in Row /\ r1.path = f.plan.path /\ r1.uhead = f.plan.uhead
        /\ r1.uoff = f.at /\ r1.latest = f.latest
    BY <1>3, RowForSays
  <2> HIDE DEF r0, r1
  <2> QED BY <1>1, <1>3, <2>1, <2>2
<1> HIDE DEF r0, r1
<1> DEFINE s == TheOnly(SameFilePath(Unretired, r0))
<1>6. /\ Behind(ToStore(r0)) = Behind(r0) /\ ToStore(r0).path = r0.path
      /\ Behind(ToStore(r1)) = Behind(r1) /\ ToStore(r1).path = r1.path
      /\ ToStore(r0).latest = (IF r0.latest # NoTs THEN r0.latest ELSE s.latest)
      /\ ToStore(r1).latest = (IF r1.latest # NoTs THEN r1.latest ELSE s.latest)
  <2>1. SameFilePath(Unretired, r0) = SameFilePath(Unretired, r1)
    BY <1>5 DEF SameFilePath
  <2> QED BY <1>1, <1>5, <2>1, ToStoreIs
<1> HIDE DEF s
<1>7. Told(ToStore(r0), WithAcc)
  BY FillParts DEF Promised, RowsInHand, r0
<1>8. /\ \A l : l \in Behind(r0) <=> c.size # 0 /\ l \in Line /\ c.from < l /\ l <= c.from + active.at
      /\ \A l : l \in Behind(r1) <=> c.size # 0 /\ l \in Line /\ c.from < l /\ l <= c.from + f.at
      /\ \A l \in Line : l \in Nat /\ l # 0
  <2>1. r0.uoff \in Nat /\ r1.uoff \in Nat
    BY <1>1, <1>3, <1>5
  <2>2. \A l \in Line : l \in Nat /\ l # 0
    <3>1. MaxLines \in Nat
      BY Constants
    <3> QED BY <3>1 DEF Line
  <2> QED BY <1>1, <1>5, <2>1, <2>2, BehindIs
<1>9. Told(ToStore(r1), S)
  <2> SUFFICES ASSUME NEW l \in Behind(r1), ~BeforeTarget(l)
               PROVE  l \in S /\ (ToStore(r1).latest # NoTs \/ r1.path = Live => l <= ToStore(r1).latest)
    BY <1>6 DEF Told
  <2>1. c.size # 0 /\ l \in Line /\ l \in Nat /\ c.from < l /\ l <= c.from + f.at
    BY <1>8
  <2>2. CASE l <= c.from + active.at
    <3>1. l \in Behind(r0)
      BY <1>8, <2>1, <2>2
    <3>2. l \in WithAcc /\ (ToStore(r0).latest # NoTs \/ r0.path = Live => l <= ToStore(r0).latest)
      BY <1>6, <1>7, <3>1 DEF Told
    <3>3. CASE Kept(end) = {}
      BY <1>2, <1>3, <1>5, <1>6, <3>2, <3>3
    <3>4. CASE Kept(end) # {}
      <4>1. /\ r1.latest = Max(Kept(end)) /\ Max(Kept(end)) \in Line /\ Max(Kept(end)) \in Nat
            /\ Max(Kept(end)) # NoTs /\ c.from + active.at < Max(Kept(end))
        BY <1>2, <1>3, <1>4, <1>5, <1>8, <3>4 DEF NoTs
      <4>2. ToStore(r1).latest = Max(Kept(end))
        BY <1>6, <4>1
      <4> QED BY <1>1, <1>2, <2>1, <2>2, <3>2, <4>1, <4>2
    <3> QED BY <3>3, <3>4
  <2>3. CASE ~(l <= c.from + active.at)
    <3>1. c.from + active.at < l /\ l <= c.from + end
      BY <1>1, <1>3, <2>1, <2>3
    <3>2. l \in Kept(end)
      BY <1>2, <2>1, <3>1
    <3>3. r1.latest = Max(Kept(end)) /\ Max(Kept(end)) \in Line /\ Max(Kept(end)) # NoTs /\ l <= Max(Kept(end))
      BY <1>2, <1>3, <1>4, <1>5, <1>8, <3>2 DEF NoTs
    <3> QED BY <1>2, <1>6, <3>2, <3>3
  <2> QED BY <2>2, <2>3
<1>10. NothingSkipped(S)
  <2> SUFFICES ASSUME NEW m \in S \cup {lastLog}, NEW l \in OnDiskLines, l <= m PROVE l \in S \/ BeforeTarget(l)
    BY DEF NothingSkipped
  <2>1. CASE m \in WithAcc \cup {lastLog}
    BY <1>2, <2>1, FillParts DEF NothingSkipped
  <2>2. CASE m \in Kept(end)
    <3>1. l \in Line /\ l \in Nat /\ m \in Nat
      <4>1. l \in Line
        BY DEF OnDiskLines, AllLines, LinesOf
      <4> QED BY <1>2, <1>8, <2>2, <4>1
    <3>2. l <= c.from + end /\ c.from + active.at < c.from + end /\ c.size # 0
      BY <1>1, <1>2, <2>2, <3>1 DEF c
    <3>3. CASE l <= c.from
      BY <1>2, <3>3, FillParts DEF ReadInTurn, c
    <3>4. CASE c.from < l /\ l <= c.from + active.at
      <4>1. l \in Behind(ToStore(r0))
        BY <1>6, <1>8, <3>1, <3>2, <3>4
      <4> QED BY <1>2, <1>7, <4>1 DEF Told
    <3>5. CASE c.from + active.at < l
      BY <1>2, <3>1, <3>2, <3>5
    <3> QED BY <1>1, <3>1, <3>3, <3>4, <3>5
  <2> QED BY <1>2, <2>1, <2>2
<1>11. ASSUME NEW l \in RestOfActive PROVE l \in S \/ BeforeTarget(l) \/ l \in LinesOf(c, f.at, c.size)
  <2>1. l \in Line /\ c.from + active.at < l /\ l <= c.from + c.size
    BY <1>11 DEF RestOfActive, LinesOf, c
  <2>2. CASE l <= c.from + end
    BY <1>2, <2>1, <2>2
  <2>3. CASE ~(l <= c.from + end)
    <3>1. c.from + f.at < l
      BY <1>1, <1>3, <1>8, <2>1, <2>3
    <3> QED BY <2>1, <3>1 DEF LinesOf
  <2> QED BY <2>2, <2>3
<1> QED BY <1>3, <1>9, <1>10, <1>11 DEF c, f, r1, S

\* Steps of a run that store nothing.
LEMMA StandStill ==
  ASSUME UNCHANGED <<fsVars, dbVars, retired, targets>>
  PROVE  /\ count' = count /\ parseState' = parseState /\ archive' = archive /\ lastLog' = lastLog
         /\ file' = file /\ written' = written
         /\ Tables' = Tables /\ OnDiskLines' = OnDiskLines
         /\ \A l : BeforeTarget(l)' = BeforeTarget(l)
         /\ \A r, S : Told(r, S)' <=> Told(r, S)
         /\ \A r : SkipsTargets(r)' <=> SkipsTargets(r)
         /\ \A r : ToStore(r)' = ToStore(r)
         /\ Trusted => Trusted'
         /\ NothingSkipped(Tables) => NothingSkipped(Tables)'
<1>1. /\ count' = count /\ parseState' = parseState /\ archive' = archive /\ lastLog' = lastLog
      /\ glob' = glob /\ dir' = dir /\ file' = file /\ written' = written
      /\ retired' = retired /\ targets' = targets
  BY DEF dbVars, fsVars
<1>2. \A l : BeforeTarget(l)' = BeforeTarget(l)
  BY <1>1 DEF BeforeTarget
<1>3. Tables' = Tables /\ OnDiskLines' = OnDiskLines
  BY <1>1, OnDiskAre DEF Tables
<1>4. /\ \A r, S : Told(r, S)' <=> Told(r, S)
      /\ \A r : SkipsTargets(r)' <=> SkipsTargets(r)
      /\ \A r : ToStore(r)' = ToStore(r)
  <2>1. Unretired' = Unretired
    BY <1>1 DEF Unretired
  <2> QED BY <1>1, <1>2, <2>1 DEF Told, SkipsTargets, ToStore
<1>5. Trusted => Trusted'
  BY <1>1, <1>3, <1>4 DEF Trusted
<1>6. NothingSkipped(Tables) => NothingSkipped(Tables)'
  BY <1>1, <1>2, <1>3 DEF NothingSkipped
<1> QED BY <1>1, <1>2, <1>3, <1>4, <1>5, <1>6

\* The file of a plan is opened.
LEMMA OpenedAs ==
  ASSUME ResumeInv, CoverInv, OpenFile
  PROVE  /\ Len(todo) \in Nat /\ 1 \in DOMAIN todo
         /\ \A k \in DOMAIN todo' : k \in Nat /\ k >= 1 /\ k + 1 \in DOMAIN todo /\ todo'[k] = todo[k + 1]
         /\ \A j \in DOMAIN todo : j # 1 => j \in Nat /\ j - 1 \in DOMAIN todo' /\ todo'[j - 1] = todo[j]
         /\ todo[1] \in Row /\ todo[1].inode \in Inodes /\ todo[1].inode # NoInode
         /\ active' = [plan |-> todo[1], inode |-> todo[1].inode, at |-> todo[1].uoff, earliest |-> NoTs, latest |-> NoTs]
         /\ active' \in ActiveFile /\ active' # NoFile
<1> DEFINE p == todo[1]
           f == [plan |-> p, inode |-> p.inode, at |-> p.uoff, earliest |-> NoTs, latest |-> NoTs]
<1>1. /\ TypeOK /\ todo # <<>> /\ dir[Head(todo).path] # NoInode /\ todo' = Tail(todo)
      /\ active' = [plan |-> Head(todo), inode |-> dir[Head(todo).path], at |-> Head(todo).uoff,
                    earliest |-> NoTs, latest |-> NoTs]
  BY DEF ResumeInv, OpenFile
<1>2. /\ Len(todo) \in Nat /\ 1 \in DOMAIN todo /\ Head(todo) = p
      /\ \A k \in DOMAIN todo' : k \in Nat /\ k >= 1 /\ k + 1 \in DOMAIN todo /\ todo'[k] = todo[k + 1]
      /\ \A j \in DOMAIN todo : j # 1 => j \in Nat /\ j - 1 \in DOMAIN todo' /\ todo'[j - 1] = todo[j]
  <2>1. todo \in Seq(Row)
    BY <1>1 DEF TypeOK
  <2> QED BY <1>1, <2>1
<1>4. /\ p \in Row /\ p.path \in Paths /\ p.inode \in Inodes /\ p.inode # NoInode
      /\ PlanFits(World, p, file[p.inode], NextCurrent, SeenNext)
  BY <1>2, PlanIs
<1>5. World.inode = dir /\ dir[p.path] # NoInode
  BY <1>1, <1>2, ThisWorld
<1>6. dir[p.path] = p.inode
  BY <1>4, <1>5 DEF PlanFits, On
<1>7. p.uoff \in 0..MaxLines /\ NoTs \in 0..MaxLines
  <2>1. p.uoff \in 0..MaxLines
    BY <1>4 DEF Row
  <2>2. 0 \in 0..MaxLines
    BY Constants DEF Lines0
  <2> QED BY <2>1, <2>2 DEF NoTs
<1>8. active' = f /\ f \in ActiveFile
  BY <1>1, <1>2, <1>4, <1>6, <1>7 DEF ActiveFile
<1>9. f.inode # NoFile.inode
  BY <1>4 DEF NoFile
<1> QED BY <1>2, <1>4, <1>8, <1>9

LEMMA OpenFileFills ==
  ASSUME ResumeInv, CoverInv, FillInv, OpenFile
  PROVE  FillInv'
<1> DEFINE p == todo[1]
           row == RowFor(active', FALSE)
<1>1. /\ TypeOK /\ active = NoFile
      /\ todo' = Tail(todo) /\ todo # <<>> /\ acc' = acc /\ pending' = pending /\ retired' = retired
      /\ UNCHANGED <<fsVars, dbVars, retired, targets>> /\ due' = due
  BY DEF ResumeInv, OpenFile, histVars
<1>2. /\ Len(todo) \in Nat /\ 1 \in DOMAIN todo
      /\ \A k \in DOMAIN todo' : k \in Nat /\ k >= 1 /\ k + 1 \in DOMAIN todo /\ todo'[k] = todo[k + 1]
      /\ \A j \in DOMAIN todo : j # 1 => j \in Nat /\ j - 1 \in DOMAIN todo' /\ todo'[j - 1] = todo[j]
      /\ p \in Row /\ p.inode \in Inodes
      /\ active' = [plan |-> p, inode |-> p.inode, at |-> p.uoff, earliest |-> NoTs, latest |-> NoTs]
      /\ active' \in ActiveFile /\ active' # NoFile
  BY OpenedAs
<1>3. /\ lastLog' = lastLog /\ archive' = archive /\ parseState' = parseState /\ file' = file /\ written' = written
      /\ OnDiskLines' = OnDiskLines /\ count' = count
      /\ \A l : BeforeTarget(l)' = BeforeTarget(l)
      /\ \A r, S : Told(r, S)' <=> Told(r, S)
      /\ \A r : SkipsTargets(r)' <=> SkipsTargets(r)
      /\ \A r : ToStore(r)' = ToStore(r)
      /\ Trusted' /\ NothingSkipped(Tables)'
  <2>1. Trusted /\ NothingSkipped(Tables)
    BY FillParts
  <2> QED BY <1>1, <2>1, StandStill
<1>4. WithAcc' = WithAcc
  BY <1>1, <1>3 DEF WithAcc
<1>5. /\ row \in Row /\ row.path = p.path /\ row.inode = p.inode /\ row.uhead = p.uhead /\ row.uoff = p.uoff
      /\ row.latest = NoTs
  <2>1. active'.plan = p /\ active'.at = p.uoff /\ active'.latest = NoTs /\ FALSE \in BOOLEAN
    BY <1>2
  <2> QED BY <1>2, <2>1, RowForSays
<1> HIDE DEF row
<1>6. /\ p \in Range(todo) /\ \A r \in Range(todo') : r \in Range(todo)
  <2>1. todo \in Seq(Row)
    BY <1>1 DEF TypeOK
  <2>2. Range(Tail(todo)) \subseteq Range(todo)
    BY <1>1, <2>1, TailIs
  <2>3. p \in Range(todo)
    BY <1>2, <2>1, RangeIs
  <2> QED BY <1>1, <2>2, <2>3
<1>7. RowsInHand' = Range(todo') \cup Range(pending) \cup {row}
  BY <1>1, <1>2 DEF RowsInHand, row
<1>8. Promised'
  <2>1. \A r \in Range(todo) \cup Range(pending) : Told(ToStore(r), WithAcc)
    BY FillParts DEF Promised, RowsInHand
  <2>2. Told(ToStore(row), WithAcc)
    <3>1. Told(ToStore(p), WithAcc) /\ p.latest = NoTs
      BY <1>6, FillParts DEF Promised, RowsInHand
    <3>2. SameFilePath(Unretired, row) = SameFilePath(Unretired, p)
      BY <1>5 DEF SameFilePath
    <3>3. ToStore(row).latest = ToStore(p).latest /\ ToStore(row).path = ToStore(p).path
      BY <1>1, <1>2, <1>5, <3>1, <3>2, ToStoreIs
    <3>4. Behind(row) = Behind(p)
      BY <1>5 DEF Behind
    <3>5. Behind(ToStore(row)) = Behind(ToStore(p))
      BY <1>1, <1>2, <1>5, <3>4, ToStoreIs
    <3> QED BY <3>1, <3>3, <3>5, ToldOfLess
  <2>3. \A r \in RowsInHand' : Told(ToStore(r), WithAcc)
    BY <1>6, <1>7, <2>1, <2>2
  <2>4. /\ \A r \in Range(pending) : Ended(r) /\ SkipsTargets(r)
        /\ \A r \in Range(todo) : SkipsTargets(r) /\ r.latest = NoTs
    BY FillParts DEF Promised
  <2>5. SkipsTargets(active'.plan)
    BY <1>2, <1>6, <2>4
  <2> QED BY <1>1, <1>3, <1>4, <1>6, <2>3, <2>4, <2>5 DEF Promised
<1>9. Apart'
  <2>1. \A r \in RowsInHand' : \E s \in RowsInHand : r.path = s.path /\ r.inode = s.inode
    BY <1>5, <1>6, <1>7 DEF RowsInHand
  <2> QED BY <1>1, <1>3, <2>1, FillParts DEF Apart
<1>10. NothingSkipped(WithAcc)'
  BY <1>3, <1>4, FillParts DEF NothingSkipped
<1>11. /\ \A r : RestOf(r)' = RestOf(r)
       /\ RestOfActive' = RestOf(p) /\ RestOfActive = {}
  BY <1>1, <1>2, <1>3 DEF RestOf, RestOfActive
<1>12. ReadInTurn'
  <2>1. ASSUME NEW k \in DOMAIN todo', NEW l \in OnDiskLines, l <= file[todo'[k].inode].from
        PROVE  \/ l \in WithAcc \/ BeforeTarget(l) \/ l \in RestOf(p)
               \/ \E j \in DOMAIN todo' : j < k /\ l \in RestOf(todo'[j])
    <3>1. \/ l \in WithAcc \/ BeforeTarget(l)
          \/ \E j \in DOMAIN todo : j < k + 1 /\ l \in RestOf(todo[j])
      BY <1>2, <1>11, <2>1, FillParts DEF ReadInTurn
    <3>2. ASSUME NEW j \in DOMAIN todo, j < k + 1, l \in RestOf(todo[j]), j # 1
          PROVE  \E i \in DOMAIN todo' : i < k /\ l \in RestOf(todo'[i])
      <4>1. j - 1 \in DOMAIN todo' /\ j - 1 < k /\ l \in RestOf(todo'[j - 1])
        BY <1>2, <3>2
      <4> QED BY <4>1
    <3> QED BY <3>1, <3>2
  <2>2. \A k \in DOMAIN todo' : file[todo'[k].inode].from <= written
    BY <1>2, FillParts DEF ReadInTurn
  <2>3. file[p.inode].from <= written
    BY <1>2, FillParts DEF ReadInTurn
  <2>4. ASSUME NEW l \in OnDiskLines, l <= file[p.inode].from
        PROVE  l \in WithAcc \/ BeforeTarget(l)
    <3>1. \A j \in DOMAIN todo : ~(j < 1)
      <4>1. \A j \in DOMAIN todo : j = 1 \/ (j \in Nat /\ j - 1 \in DOMAIN todo')
        BY <1>2
      <4> QED BY <1>2, <4>1
    <3> QED BY <1>2, <1>11, <2>4, <3>1, FillParts DEF ReadInTurn
  <2>5. active'.inode = p.inode
    BY <1>2
  <2> HIDE DEF p
  <2> QED BY <1>3, <1>4, <1>11, <2>1, <2>2, <2>3, <2>4, <2>5 DEF ReadInTurn
<1>13. StillDue'
  <2>1. ASSUME NEW l \in due
        PROVE  \/ l \in WithAcc \/ BeforeTarget(l) \/ l \in RestOf(p)
               \/ \E k \in DOMAIN todo' : l \in RestOf(todo'[k])
    <3>1. \/ l \in WithAcc \/ BeforeTarget(l)
          \/ \E k \in DOMAIN todo : l \in RestOf(todo[k])
      BY <1>11, FillParts DEF StillDue
    <3> QED BY <1>2, <3>1
  <2> QED BY <1>1, <1>3, <1>4, <1>11, <2>1 DEF StillDue
<1> QED BY <1>3, <1>8, <1>9, <1>10, <1>12, <1>13 DEF FillInv

LEMMA FileDoneFills ==
  ASSUME ResumeInv, CoverInv, FillInv, Untroubled, FileDone
  PROVE  FillInv'
<1> DEFINE c == file[active.inode]
           end == c.size
           f == ReadTo(end)
           completed == IsCompressed(f.plan.path) \/ f.at >= PlanSize(f.plan)
           row == RowFor(f, completed)
           S == WithRead(end)
<1>1. /\ active # NoFile /\ acc' = AccWith(end) /\ pending' = Append(pending, row) /\ active' = NoFile
      /\ todo' = todo /\ retired' = retired /\ due' = due
      /\ UNCHANGED <<fsVars, dbVars, retired, targets>>
  BY DEF FileDone, histVars
<1>2. /\ TypeOK /\ Idle /\ active \in ActiveFile /\ c \in Content /\ active.at \in Nat /\ active.plan \in Row
  BY <1>1, HandInOrder, HandIs DEF ResumeInv
<1>3. end \in 0..MaxLines /\ end <= c.size /\ end \in Nat /\ c.from \in Nat
  BY <1>2, ContentIs DEF Content
<1>4. completed \in BOOLEAN
  BY DEF IsCompressed
<1>5. /\ lastLog' = lastLog /\ archive' = archive /\ parseState' = parseState /\ file' = file /\ written' = written
      /\ OnDiskLines' = OnDiskLines /\ count' = count
      /\ \A l : BeforeTarget(l)' = BeforeTarget(l)
      /\ \A r, T : Told(r, T)' <=> Told(r, T)
      /\ \A r : SkipsTargets(r)' <=> SkipsTargets(r)
      /\ \A r : ToStore(r)' = ToStore(r)
      /\ Trusted' /\ NothingSkipped(Tables)'
  <2>1. Trusted /\ NothingSkipped(Tables)
    BY FillParts
  <2> QED BY <1>1, <2>1, StandStill
<1>6. f \in ActiveFile /\ f.plan = active.plan /\ PlanSize(active.plan) <= c.size
  <2>1. FALSE \in BOOLEAN
    OBVIOUS
  <2> HIDE DEF f
  <2> QED BY <1>1, <1>3, <2>1, ReadOn DEF f
<1> HIDE DEF completed
<1>7. /\ Told(ToStore(row), S) /\ NothingSkipped(S)
      /\ \A l \in RestOfActive : l \in S \/ BeforeTarget(l) \/ l \in LinesOf(c, f.at, c.size)
      /\ f.at = IF end > active.at THEN end ELSE active.at
  BY <1>1, <1>3, <1>4, ReadTells
<1>8. /\ row \in Row /\ row.path = active.plan.path /\ row.inode = active.plan.inode
      /\ row.csize = active.plan.csize /\ row.usize = (IF IsCompressed(row.path) THEN f.at ELSE active.plan.usize)
      /\ row.uoff = f.at /\ row.skip = NoTs /\ row.completed = completed
  <2> HIDE DEF f
  <2> QED BY <1>4, <1>6, RowForSays
<1>9. S = WithAcc \cup Kept(end) /\ WithAcc' = S
  <2>1. S = WithAcc \cup Kept(end)
    BY <1>1, <1>3, ReadLines
  <2>2. WithAcc' = S
    BY <1>1, <1>5 DEF WithAcc, WithRead
  <2> QED BY <2>1, <2>2
<1> HIDE DEF f, row, S
<1>10. Range(pending') = Range(pending) \cup {row}
  <2>1. pending \in Seq(Row)
    BY <1>2, HandIs
  <2> QED BY <1>1, <1>8, <2>1, AppendIs
<1>11. RowsInHand' = Range(todo) \cup Range(pending) \cup {row}
  BY <1>1, <1>10 DEF RowsInHand
<1>12. Ended(row) /\ SkipsTargets(row)
  <2>1. f.at \in Nat /\ f.at >= end /\ PlanSize(active.plan) \in Nat
    <3>1. PlanSize(active.plan) \in 0..MaxLines
      BY <1>2 DEF PlanSize, Row
    <3>2. 0..MaxLines \subseteq Nat
      BY Constants DEF Lines0
    <3>3. PlanSize(active.plan) \in Nat
      BY <3>1, <3>2
    <3>4. f.at \in Nat /\ f.at >= end
      BY <1>2, <1>3, <1>7
    <3> QED BY <3>3, <3>4
  <2>2. CASE IsCompressed(row.path)
    <3>1. row.csize = PlanSize(active.plan)
      BY <1>8, <2>2 DEF PlanSize
    <3> QED BY <1>3, <1>6, <1>8, <2>1, <2>2, <3>1 DEF Ended, SkipsTargets
  <2>3. CASE ~IsCompressed(row.path)
    <3>1. row.usize = PlanSize(active.plan)
      BY <1>8, <2>3 DEF PlanSize
    <3> QED BY <1>3, <1>6, <1>8, <2>1, <2>3, <3>1 DEF Ended, SkipsTargets
  <2> QED BY <2>2, <2>3
<1>13. Promised'
  <2>1. \A r \in Range(todo) \cup Range(pending) : Told(ToStore(r), S)
    <3>1. \A r \in Range(todo) \cup Range(pending) : Told(ToStore(r), WithAcc)
      BY FillParts DEF Promised, RowsInHand
    <3>2. WithAcc \subseteq S
      BY <1>9
    <3> QED BY <3>1, <3>2 DEF Told
  <2>2. \A r \in RowsInHand' : Told(ToStore(r), S)
    BY <1>7, <1>11, <2>1
  <2>3. /\ \A r \in Range(pending) : Ended(r) /\ SkipsTargets(r)
        /\ \A r \in Range(todo) : SkipsTargets(r) /\ r.latest = NoTs
    BY FillParts DEF Promised
  <2> QED BY <1>1, <1>5, <1>9, <1>10, <1>12, <2>2, <2>3 DEF Promised
<1>14. Apart'
  <2>1. RowFor(active, FALSE).path = active.plan.path /\ RowFor(active, FALSE).inode = active.plan.inode
    BY <1>2, RowForSays
  <2>2. \A r \in RowsInHand' : \E s \in RowsInHand : r.path = s.path /\ r.inode = s.inode
    BY <1>1, <1>8, <1>11, <2>1 DEF RowsInHand
  <2> QED BY <1>1, <1>5, <2>2, FillParts DEF Apart
<1>15. NothingSkipped(WithAcc)'
  BY <1>5, <1>7, <1>9 DEF NothingSkipped
<1>16. /\ \A r : RestOf(r)' = RestOf(r)
       /\ RestOfActive' = {}
       /\ \A l \in RestOfActive : l \in S \/ BeforeTarget(l)
  <2>1. \A l : l \notin LinesOf(c, f.at, c.size)
    <3>1. f.at \in Nat /\ f.at >= c.size
      BY <1>2, <1>3, <1>7
    <3>2. \A l \in Line : l \in Nat
      BY Constants DEF Lines0
    <3> HIDE DEF c
    <3> QED BY <1>3, <3>1, <3>2 DEF LinesOf
  <2> QED BY <1>1, <1>5, <1>7, <2>1 DEF RestOf, RestOfActive
<1>17. ReadInTurn'
  <2>1. /\ \A k \in DOMAIN todo : \A l \in OnDiskLines :
             l <= file[todo[k].inode].from =>
               \/ l \in S \/ BeforeTarget(l)
               \/ \E j \in DOMAIN todo : j < k /\ l \in RestOf(todo[j])
        /\ \A k \in DOMAIN todo : file[todo[k].inode].from <= written
    BY <1>9, <1>16, FillParts DEF ReadInTurn
  <2> QED BY <1>1, <1>5, <1>9, <1>16, <2>1 DEF ReadInTurn
<1>18. StillDue'
  <2>1. \A l \in due :
          \/ l \in S \/ BeforeTarget(l)
          \/ \E k \in DOMAIN todo : l \in RestOf(todo[k])
    BY <1>9, <1>16, FillParts DEF StillDue
  <2> QED BY <1>1, <1>5, <1>9, <1>16, <2>1 DEF StillDue
<1> QED BY <1>5, <1>13, <1>14, <1>15, <1>17, <1>18 DEF FillInv

-----------------------------------------------------------------------------
(* Commits. *)

\* What a commit leaves of a table: the rows of other paths, and each of its own with
\* what it takes over from the row of its path.
LEMMA UpsertsRows ==
  ASSUME NEW table \in SUBSET Row, NEW rows \in Seq(Row),
         \A j, k \in 1..Len(rows) : rows[j].path = rows[k].path => j = k
  PROVE  Upserts(table, rows)[Len(rows)] =
           {s \in table : \A k \in 1..Len(rows) : s.path # rows[k].path}
           \cup {Merged(rows[k], TheOnly(SameFilePath(table, rows[k]))) : k \in 1..Len(rows)}
<1> DEFINE f == Upserts(table, rows)
           M(k) == Merged(rows[k], TheOnly(SameFilePath(table, rows[k])))
           Upto(k) == {s \in table : \A j \in 1..k : s.path # rows[j].path} \cup {M(j) : j \in 1..k}
           S == {k \in 0..Len(rows) : f[k] = Upto(k)}
<1>0. Len(rows) \in Nat /\ DOMAIN rows = 1..Len(rows) /\ \A k \in 1..Len(rows) : rows[k] \in Row
  OBVIOUS
<1>1. /\ f \in [0..Len(rows) -> SUBSET Row] /\ f[0] = table
      /\ \A k \in 1..Len(rows) : f[k] = Upsert(f[k - 1], rows[k])
  BY UpsertsInTurn
<1> HIDE DEF f
<1>2. \A k \in 1..Len(rows) : M(k) \in Row /\ M(k).path = rows[k].path
  <2> SUFFICES ASSUME NEW k \in 1..Len(rows) PROVE M(k) \in Row /\ M(k).path = rows[k].path
    OBVIOUS
  <2>1. TheOnly(SameFilePath(table, rows[k])) \in OptRow
    BY TheOnlyIs DEF SameFilePath, OptRow
  <2> QED BY <1>0, <2>1, MergedIsRow
<1> HIDE DEF M
<1>3. 0 \in S
  <2>1. Upto(0) = table
    OBVIOUS
  <2> QED BY <1>0, <1>1, <2>1
<1>4. ASSUME NEW k \in 1..Len(rows), k - 1 \in S PROVE k \in S
  <2>1. k - 1 \in 0..Len(rows) /\ k \in 0..Len(rows) /\ rows[k] \in Row /\ f[k - 1] = Upto(k - 1)
    BY <1>0, <1>4
  <2>2. /\ \A j \in 1..(k - 1) : j \in 1..Len(rows) /\ j # k
        /\ \A j : j \in 1..k <=> j \in 1..(k - 1) \/ j = k
    BY <1>0
  <2>3. \A j \in 1..(k - 1) : rows[j].path # rows[k].path
    BY <2>2
  <2>4. SameFilePath(f[k - 1], rows[k]) = SameFilePath(table, rows[k])
    BY <1>2, <2>1, <2>2, <2>3 DEF SameFilePath
  <2>5. f[k] = (f[k - 1] \ SameFilePath(table, rows[k])) \cup {M(k)}
    BY <1>1, <2>4 DEF Upsert, M
  <2>6. \A s \in f[k - 1] : s \in SameFilePath(table, rows[k]) <=> s \in table /\ s.path = rows[k].path
    BY DEF SameFilePath
  <2>7. Upto(k - 1) \ SameFilePath(table, rows[k]) =
          {s \in table : \A j \in 1..k : s.path # rows[j].path} \cup {M(j) : j \in 1..(k - 1)}
    <3>1. \A j \in 1..(k - 1) : M(j) \notin SameFilePath(table, rows[k])
      BY <1>2, <2>2, <2>3 DEF SameFilePath
    <3> QED BY <2>2, <3>1 DEF SameFilePath
  <2>8. {M(j) : j \in 1..k} = {M(j) : j \in 1..(k - 1)} \cup {M(k)}
    BY <2>2
  <2>9. f[k] = Upto(k)
    BY <2>1, <2>5, <2>7, <2>8
  <2> QED BY <2>1, <2>9
<1>5. Len(rows) \in S
  <2>1. \A k \in 0..Len(rows) : k \in S
    <3> HIDE DEF S
    <3> QED BY <1>0, <1>3, <1>4, InductionUpTo
  <2> QED BY <1>0, <2>1
<1> QED BY <1>5 DEF f, M

LEMMA CommitLeaves ==
  ASSUME TypeOK, NEW counted, NEW rows \in Seq(Row),
         \A j, k \in 1..Len(rows) : rows[j].path = rows[k].path => j = k,
         Flush(counted, rows)
  PROVE  /\ parseState' = {s \in Unretired : \A k \in 1..Len(rows) : s.path # rows[k].path}
                          \cup {ToStore(rows[k]) : k \in 1..Len(rows)}
         /\ Unretired' = parseState' /\ Unretired \in SUBSET Row
         /\ \A k \in 1..Len(rows) : ToStore(rows[k])' = Merged(rows[k], ToStore(rows[k]))
         /\ \A r : (\A k \in 1..Len(rows) : r.path # rows[k].path) => ToStore(r)' = ToStore(r)
<1>1. /\ parseState' = Upserts(Unretired, rows)[Len(rows)] /\ retired' = {}
  BY DEF Flush, Upserts
<1>2. Unretired \in SUBSET Row
  BY DEF Unretired, TypeOK
<1>3. parseState' = {s \in Unretired : \A k \in 1..Len(rows) : s.path # rows[k].path}
                          \cup {ToStore(rows[k]) : k \in 1..Len(rows)}
  BY <1>1, <1>2, UpsertsRows DEF ToStore
<1>4. Unretired' = parseState'
  BY <1>1 DEF Unretired
<1>5. \A k \in 1..Len(rows) : ToStore(rows[k]).path = rows[k].path
  BY ToStoreIs
<1>6. ASSUME NEW k \in 1..Len(rows) PROVE SameFilePath(parseState', rows[k]) = {ToStore(rows[k])}
  BY <1>3, <1>5 DEF SameFilePath
<1>7. \A x : TheOnly({x}) = x
  BY DEF TheOnly
<1>8. ASSUME NEW k \in 1..Len(rows) PROVE ToStore(rows[k])' = Merged(rows[k], ToStore(rows[k]))
  <2>1. ToStore(rows[k])' = Merged(rows'[k], TheOnly(SameFilePath(parseState', rows[k])))
    BY <1>4 DEF ToStore
  <2> QED BY <1>6, <1>7, <2>1
<1>9. ASSUME NEW r, \A k \in 1..Len(rows) : r.path # rows[k].path
      PROVE  ToStore(r)' = ToStore(r)
  <2>1. SameFilePath(parseState', r) = SameFilePath(Unretired, r)
    BY <1>3, <1>5, <1>9 DEF SameFilePath
  <2> QED BY <1>4, <2>1 DEF ToStore
<1> QED BY <1>2, <1>3, <1>4, <1>8, <1>9

\* A row that goes to the archive tells what it did.
LEMMA ArchivedTells ==
  ASSUME TypeOK, Trusted, Apart, retired \subseteq parseState \cup archive, NEW s \in Archived(retired)
  PROVE  /\ Told(s, Tables) /\ Ended(s) /\ SkipsTargets(s)
         /\ \E r \in archive \cup retired : SameFile(s, r)
<1> DEFINE sameKey(r) == {t \in archive : t.path = r.path /\ t.inode = r.inode}
           stored(r) == [Merged(r, TheOnly(sameKey(r))) EXCEPT !.skip = NoTs]
<1>1. CASE s \in archive
  BY <1>1 DEF Trusted, SameFile
<1>2. CASE s \notin archive
  <2>1. PICK r \in retired : s = stored(r)
    BY <1>2 DEF Archived
  <2>2. r \in Row /\ Told(r, Tables) /\ Ended(r)
    BY DEF Trusted, TypeOK
  <2> DEFINE o == TheOnly(sameKey(r))
             m == Merged(r, o)
  <2>3. o \in OptRow /\ (sameKey(r) = {} => o = NoRow) /\ (sameKey(r) # {} => o \in sameKey(r))
    BY TheOnlyIs DEF OptRow, TypeOK
  <2> HIDE DEF o
  <2>4. /\ m \in Row /\ m.path = r.path /\ m.inode = r.inode /\ m.uhead = r.uhead /\ m.uoff = r.uoff
        /\ m.usize = r.usize /\ m.csize = r.csize /\ m.completed = r.completed
        /\ m.latest = (IF r.latest # NoTs THEN r.latest ELSE o.latest)
    BY <2>2, <2>3, StoredAs
  <2>5. s = [m EXCEPT !.skip = NoTs]
    BY <2>1 DEF o
  <2> HIDE DEF m
  <2>6. /\ s.path = r.path /\ s.inode = r.inode /\ s.uhead = r.uhead /\ s.uoff = r.uoff
        /\ s.usize = r.usize /\ s.csize = r.csize /\ s.completed = r.completed /\ s.skip = NoTs
        /\ s.latest = (IF r.latest # NoTs THEN r.latest ELSE o.latest)
    BY <2>4, <2>5 DEF Row
  <2>7. Behind(s) = Behind(r)
    BY <2>6 DEF Behind
  <2>8. CASE s.latest = r.latest
    BY <2>2, <2>6, <2>7, <2>8, ToldOfLess DEF Ended, SkipsTargets, SameFile
  <2>9. CASE s.latest # r.latest
    <3>1. r.latest = NoTs /\ o.latest # NoTs
      BY <2>6, <2>9
    <3>2. sameKey(r) # {} /\ o \in archive /\ r.path = o.path /\ r.inode = o.inode /\ o # r
      <4>1. NoRow.latest = NoTs
        BY DEF NoRow
      <4>2. o \in sameKey(r)
        BY <2>3, <3>1, <4>1
      <4> QED BY <3>1, <4>2
    <3>3. r \in parseState
      BY <3>2 DEF TypeOK
    <3>4. r.path = Live
      BY <3>2, <3>3 DEF Apart
    <3>5. \A l \in Behind(r) : BeforeTarget(l)
      <4>1. \A l \in Behind(r) : ~(l <= NoTs)
        <5>1. \A l \in Behind(r) : l \in Line
          BY DEF Behind
        <5>2. MaxLines \in Nat
          BY Constants
        <5>3. \A l \in Line : ~(l <= 0)
          BY <5>2 DEF Line
        <5> QED BY <5>1, <5>3 DEF NoTs
      <4> QED BY <2>2, <3>1, <3>4, <4>1 DEF Told
    <3>6. Told(s, Tables)
      BY <2>7, <3>5 DEF Told
    <3> QED BY <2>2, <2>6, <3>6 DEF Ended, SkipsTargets, SameFile
  <2> QED BY <2>8, <2>9
<1> QED BY <1>1, <1>2

\* What a commit leaves: the tables tell what is counted, whatever comes before a line that
\* is has been counted, and the rows that are still in hand tell what they did.
LEMMA CommitFills ==
  ASSUME ResumeInv, CoverInv, FillInv, NEW counted \in [Line -> Nat], NEW rows \in Seq(Row), NEW S,
         \A j, k \in 1..Len(rows) : rows[j].path = rows[k].path => j = k,
         Flush(counted, rows), UNCHANGED <<fsVars, targets>>,
         S = {l \in Line : count[l] + counted[l] > 0}, WithAcc \subseteq S, NothingSkipped(S),
         \A k \in 1..Len(rows) :
           /\ Told(ToStore(rows[k]), S) /\ Ended(rows[k]) /\ SkipsTargets(rows[k])
           /\ \E h \in RowsInHand : SameFile(rows[k], h),
         \A r \in RowsInHand' :
           \/ r \in Range(rows)
           \/ r \in RowsInHand /\ \A k \in 1..Len(rows) : r.path # rows[k].path
  PROVE  /\ Trusted' /\ NothingSkipped(Tables)' /\ Apart' /\ Tables' = S
         /\ \A r \in RowsInHand' : Told(ToStore(r), Tables)'
         /\ \A l : BeforeTarget(l)' = BeforeTarget(l)
         /\ OnDiskLines' = OnDiskLines
<1>1. /\ TypeOK /\ Done /\ Trusted /\ Promised /\ Apart
  BY CoverParts, FillParts DEF ResumeInv
<1>2. /\ count' = [l \in Line |-> count[l] + counted[l]]
      /\ archive' = Archived(retired) /\ retired' = {}
      /\ lastLog' = Max({lastLog} \cup {l \in Line : counted[l] > 0})
  BY DEF Flush
<1>3. /\ parseState' = {s \in Unretired : \A k \in 1..Len(rows) : s.path # rows[k].path}
                          \cup {ToStore(rows[k]) : k \in 1..Len(rows)}
      /\ Unretired' = parseState' /\ Unretired \in SUBSET Row
      /\ \A k \in 1..Len(rows) : ToStore(rows[k])' = Merged(rows[k], ToStore(rows[k]))
      /\ \A r : (\A k \in 1..Len(rows) : r.path # rows[k].path) => ToStore(r)' = ToStore(r)
  BY <1>1, CommitLeaves
<1>4. /\ \A l : BeforeTarget(l)' = BeforeTarget(l)
      /\ \A r, T : Told(r, T)' <=> Told(r, T)
      /\ \A r : SkipsTargets(r)' <=> SkipsTargets(r)
  <2>1. \A l : BeforeTarget(l)' = BeforeTarget(l)
    BY DEF BeforeTarget
  <2> QED BY <2>1 DEF Told, SkipsTargets
<1>5. OnDiskLines' = OnDiskLines
  BY OnDiskAre DEF fsVars
<1>6. Tables' = S
  BY <1>2 DEF Tables
<1>7. Tables \subseteq S
  BY <1>1, CountedLines
<1>8. \A r : Told(r, Tables) => Told(r, S)
  BY <1>7 DEF Told
<1>9. \A k \in 1..Len(rows) : rows[k] \in Row
  OBVIOUS
<1>10. Trusted'
  <2>1. ASSUME NEW s \in archive' PROVE Told(s, S) /\ Ended(s) /\ SkipsTargets(s)
    BY <1>1, <1>2, <1>8, <2>1, ArchivedTells DEF Done
  <2>2. ASSUME NEW s \in parseState' PROVE Told(s, S) /\ Ended(s) /\ SkipsTargets(s)
    <3>1. CASE s \in Unretired
      BY <1>1, <1>8, <3>1 DEF Trusted, Unretired
    <3>2. CASE s \notin Unretired
      <4>1. PICK k \in 1..Len(rows) : s = ToStore(rows[k])
        BY <1>3, <3>2
      <4> QED BY <1>1, <1>9, <4>1, ToStoreIs
    <3> QED BY <3>1, <3>2
  <2> QED BY <1>4, <1>6, <2>1, <2>2 DEF Trusted
<1>11. NothingSkipped(Tables)'
  <2>1. lastLog' \in {lastLog} \cup {l \in Line : counted[l] > 0}
    <3> DEFINE T == {lastLog} \cup {l \in Line : counted[l] > 0}
    <3>1. T \in SUBSET (0..MaxLines) /\ T # {} /\ MaxLines \in Nat
      <4>1. lastLog \in 0..MaxLines
        BY <1>1 DEF TypeOK
      <4>2. Line \subseteq 0..MaxLines /\ MaxLines \in Nat
        BY Constants DEF Lines0
      <4> QED BY <4>1, <4>2
    <3> QED BY <1>2, <3>1, MaxIs
  <2>2. lastLog' \in S \cup {lastLog}
    <3>1. \A l \in Line : counted[l] \in Nat /\ count[l] \in Nat
      BY <1>1 DEF TypeOK
    <3> QED BY <2>1, <3>1
  <2> QED BY <1>4, <1>5, <1>6, <2>2 DEF NothingSkipped
<1>12. Apart'
  <2>1. \A s \in archive' : \E r \in archive \cup retired : SameFile(s, r)
    BY <1>1, <1>2, ArchivedTells DEF Done
  <2>2. \A r \in RowsInHand' : \E h \in RowsInHand : SameFile(r, h)
    <3> SUFFICES ASSUME NEW r \in RowsInHand', r \in Range(rows) PROVE \E h \in RowsInHand : SameFile(r, h)
      BY DEF SameFile
    <3>1. PICK k \in 1..Len(rows) : r = rows[k]
      BY RangeIs
    <3> QED BY <3>1
  <2>3. ASSUME NEW r \in parseState', NEW s \in archive', SameFile(r, s) PROVE r.path = Live
    <3>1. PICK t \in archive \cup retired : SameFile(s, t)
      BY <2>1
    <3>2. CASE r \in Unretired
      BY <1>1, <2>3, <3>1, <3>2 DEF Unretired, SameFile, Apart
    <3>3. CASE r \notin Unretired
      <4>1. PICK k \in 1..Len(rows) : r = ToStore(rows[k])
        BY <1>3, <3>3
      <4>2. PICK h \in RowsInHand : SameFile(rows[k], h)
        OBVIOUS
      <4>3. SameFile(r, rows[k])
        BY <1>1, <1>9, <4>1, ToStoreIs DEF SameFile
      <4> QED BY <1>1, <2>3, <3>1, <4>2, <4>3 DEF SameFile, Apart
    <3> QED BY <3>2, <3>3
  <2>4. ASSUME NEW r \in RowsInHand', NEW s \in archive', SameFile(r, s) PROVE r.path = Live
    <3>1. PICK t \in archive \cup retired : SameFile(s, t)
      BY <2>1
    <3>2. PICK h \in RowsInHand : SameFile(r, h)
      BY <2>2
    <3> QED BY <1>1, <2>4, <3>1, <3>2 DEF SameFile, Apart
  <2> QED BY <1>2, <2>3, <2>4 DEF Apart, SameFile
<1>13. ASSUME NEW r \in RowsInHand' PROVE Told(ToStore(r)', S)
  <2>1. CASE r \in Range(rows)
    <3>1. PICK k \in 1..Len(rows) : r = rows[k]
      BY <2>1, RangeIs
    <3> DEFINE m == ToStore(rows[k])
               n == Merged(rows[k], m)
    <3>2. /\ m \in Row /\ m.path = r.path /\ Behind(m) = Behind(r)
          /\ (rows[k].latest # NoTs => m.latest = rows[k].latest)
      BY <1>1, <1>9, <3>1, ToStoreIs
    <3> HIDE DEF m
    <3>3. n.path = r.path /\ Behind(n) = Behind(r) /\ n.latest = (IF rows[k].latest # NoTs THEN rows[k].latest ELSE m.latest)
      BY <1>9, <3>1, <3>2, StoredAs DEF OptRow
    <3>4. Told(m, S)
      BY DEF m
    <3>5. n.latest = m.latest
      BY <3>2, <3>3
    <3> HIDE DEF n
    <3>6. Told(n, S)
      BY <3>2, <3>3, <3>4, <3>5, ToldOfLess
    <3> QED BY <1>3, <3>1, <3>6 DEF n, m
  <2>2. CASE r \in RowsInHand /\ \A k \in 1..Len(rows) : r.path # rows[k].path
    <3>1. ToStore(r)' = ToStore(r)
      BY <1>3, <2>2
    <3>2. Told(ToStore(r), WithAcc)
      BY <1>1, <2>2 DEF Promised
    <3>3. Told(ToStore(r), S)
      BY <3>2 DEF Told
    <3> QED BY <3>1, <3>3
  <2> QED BY <2>1, <2>2
<1>14. \A r \in RowsInHand' : Told(ToStore(r), Tables)'
  BY <1>4, <1>6, <1>13 DEF Told
<1> QED BY <1>4, <1>5, <1>6, <1>10, <1>11, <1>12, <1>14

-----------------------------------------------------------------------------
(* What is left when a run has ended or stopped. *)

LEMMA NothingLeft ==
  ASSUME acc' = NoCount, todo' = <<>>, pending' = <<>>, active' = NoFile, count' \in [Line -> Nat],
         Trusted', NothingSkipped(Tables)',
         \A r \in parseState', s \in archive' : SameFile(r, s) => r.path = Live,
         \A l \in due' : l \in Tables' \/ BeforeTarget(l)'
  PROVE  FillInv'
<1>1. WithAcc' = Tables'
  <2>1. \A l \in Line : count'[l] \in Nat /\ count'[l] + acc'[l] = count'[l]
    BY DEF NoCount
  <2> QED BY <2>1 DEF WithAcc, Tables
<1>2. RowsInHand' = {} /\ Range(pending') = {} /\ Range(todo') = {} /\ DOMAIN todo' = {}
  BY DEF RowsInHand, Range
<1>3. Promised'
  BY <1>2 DEF Promised
<1>4. Apart'
  BY <1>2 DEF Apart, SameFile
<1>5. NothingSkipped(WithAcc)'
  BY <1>1 DEF NothingSkipped
<1>6. ReadInTurn'
  BY <1>2 DEF ReadInTurn
<1>7. StillDue'
  BY <1>1 DEF StillDue
<1> QED BY <1>3, <1>4, <1>5, <1>6, <1>7 DEF FillInv

LEMMA EndRunFills ==
  ASSUME ResumeInv, CoverInv, FillInv, EndRun
  PROVE  FillInv'
<1>1. /\ pc = "run" /\ active = NoFile /\ todo = <<>> /\ Flush(acc, pending) /\ acc' = NoCount
      /\ UNCHANGED <<fsVars, targets>> /\ due' = due /\ todo' = <<>> /\ active' = NoFile
      /\ pending' = <<>>
  BY DEF EndRun, Flush, histVars
<1>2. TypeOK /\ Idle /\ Distinct
  BY CoverParts DEF ResumeInv
<1>3. /\ pending \in Seq(Row) /\ DOMAIN pending = 1..Len(pending) /\ acc \in [Line -> Nat]
      /\ \A k \in 1..Len(pending) : pending[k] \in Range(pending)
  BY <1>2, HandIs DEF TypeOK
<1>4. \A j, k \in 1..Len(pending) : pending[j].path = pending[k].path => j = k
  BY <1>2, <1>3 DEF Distinct
<1>5. /\ \A r \in Range(pending) : Told(ToStore(r), WithAcc) /\ Ended(r) /\ SkipsTargets(r) /\ r \in RowsInHand
      /\ NothingSkipped(WithAcc)
  BY FillParts DEF Promised, RowsInHand
<1>6. RowsInHand' = {}
  BY <1>1 DEF RowsInHand, Range
<1>7. WithAcc = {l \in Line : count[l] + acc[l] > 0}
  BY DEF WithAcc
<1> HIDE DEF WithAcc
<1>8. /\ Trusted' /\ NothingSkipped(Tables)' /\ Apart' /\ Tables' = WithAcc
      /\ \A l : BeforeTarget(l)' = BeforeTarget(l)
  <2>1. \A k \in 1..Len(pending) :
           /\ Told(ToStore(pending[k]), WithAcc) /\ Ended(pending[k]) /\ SkipsTargets(pending[k])
           /\ \E h \in RowsInHand : SameFile(pending[k], h)
    BY <1>3, <1>5 DEF SameFile
  <2> QED BY <1>1, <1>3, <1>4, <1>5, <1>6, <1>7, <2>1, CommitFills
<1>9. count' \in [Line -> Nat]
  BY <1>1, <1>2, <1>3 DEF Flush, TypeOK
<1>10. \A l \in due' : l \in Tables' \/ BeforeTarget(l)'
  <2>1. RestOfActive = {} /\ DOMAIN todo = {}
    BY <1>1 DEF RestOfActive
  <2> QED BY <1>1, <1>8, <2>1, FillParts DEF StillDue
<1>11. \A r \in parseState', s \in archive' : SameFile(r, s) => r.path = Live
  BY <1>8 DEF Apart, SameFile
<1> QED BY <1>1, <1>8, <1>9, <1>10, <1>11, NothingLeft

LEMMA CheckpointFills ==
  ASSUME ResumeInv, CoverInv, FillInv, Untroubled, Checkpoint
  PROVE  FillInv'
<1>1. PICK end \in (active.at + 1)..file[active.inode].size :
        /\ Flush(AccWith(end), Append(pending, RowFor(ReadTo(end), FALSE)))
        /\ active' = ReadTo(end)
  BY DEF Checkpoint
<1>2. /\ active # NoFile /\ acc' = NoCount /\ pending' = <<>> /\ todo' = todo
      /\ UNCHANGED <<fsVars, targets>> /\ due' = due /\ file' = file /\ written' = written
  BY <1>1 DEF Checkpoint, Flush, histVars, fsVars
<1>3. /\ TypeOK /\ Idle /\ Distinct /\ active \in ActiveFile /\ active.at \in Nat
      /\ active.plan \in Row /\ file[active.inode] \in Content
  BY <1>2, CoverParts, HandInOrder, HandIs DEF ResumeInv
<1>4. end \in 0..MaxLines /\ end <= file[active.inode].size
  <2>1. file[active.inode].size \in Nat /\ file[active.inode].size <= MaxLines
    BY <1>3, ContentIs
  <2> QED BY <1>3, <2>1, ResumeAssumption
<1> DEFINE c == file[active.inode]
           f == ReadTo(end)
           row == RowFor(f, FALSE)
           rows == Append(pending, row)
           S == WithRead(end)
<1>5. f \in ActiveFile /\ f.plan = active.plan /\ f.inode = active.inode /\ f # NoFile
  <2>1. FALSE \in BOOLEAN
    OBVIOUS
  <2>2. f \in ActiveFile /\ f.plan = active.plan /\ f.inode = active.inode
    <3> HIDE DEF f
    <3> QED BY <1>2, <1>4, <2>1, ReadOn DEF f
  <2>3. active.inode # NoFile.inode
    BY <1>2, ReadingIs, ThreePaths DEF NoFile
  <2> QED BY <2>2, <2>3
<1>6. AccWith(end) \in [Line -> Nat]
  BY <1>2, <1>3, <1>4, ReadIs
<1>7. /\ Told(ToStore(row), S) /\ NothingSkipped(S)
      /\ \A l \in RestOfActive : l \in S \/ BeforeTarget(l) \/ l \in LinesOf(c, f.at, c.size)
  <2>1. FALSE \in BOOLEAN
    OBVIOUS
  <2> QED BY <1>2, <1>4, <2>1, ReadTells
<1>8. /\ row \in Row /\ row.path = active.plan.path /\ row.inode = active.plan.inode
      /\ row.skip = NoTs /\ ~row.completed
  <2>1. FALSE \in BOOLEAN
    OBVIOUS
  <2> HIDE DEF f
  <2> QED BY <1>5, <2>1, RowForSays
<1>9. WithAcc \subseteq S /\ S = {l \in Line : count[l] + AccWith(end)[l] > 0}
  <2>1. S = WithAcc \cup Kept(end)
    BY <1>2, <1>4, ReadLines
  <2> QED BY <2>1 DEF WithRead
<1>10. Flush(AccWith(end), rows) /\ active' = f
  BY <1>1
<1>11. RowFor(active', FALSE) = row
  BY <1>10
<1> HIDE DEF f, row, S
<1>12. /\ rows \in Seq(Row) /\ Range(rows) = Range(pending) \cup {row}
       /\ \A k \in 1..Len(rows) : rows[k] \in Range(pending) \/ rows[k] = row
       /\ \A j, k \in 1..Len(rows) : rows[j].path = rows[k].path => j = k
  <2>1. /\ pending \in Seq(Row) /\ DOMAIN pending = 1..Len(pending)
        /\ DOMAIN rows = 1..(Len(pending) + 1) /\ rows[Len(pending) + 1] = row
        /\ \A k \in 1..Len(pending) : rows[k] = pending[k] /\ pending[k] \in Range(pending)
    BY <1>3, <1>8, HandIs, AppendedIs
  <2>2. Len(pending) \in Nat /\ rows \in Seq(Row) /\ Len(rows) = Len(pending) + 1
    BY <1>8, <2>1
  <2>3. Range(rows) = Range(pending) \cup {row}
    BY <1>8, <2>1, AppendIs
  <2> HIDE DEF rows
  <2>4. \A j, k \in 1..Len(rows) : rows[j].path = rows[k].path => j = k
    BY <1>2, <1>3, <1>8, <2>1, <2>2 DEF Distinct
  <2>5. \A k \in 1..Len(rows) : rows[k] \in Range(pending) \/ rows[k] = row
    BY <2>1, <2>2
  <2> QED BY <2>2, <2>3, <2>4, <2>5
<1> HIDE DEF rows
<1>13. RowsInHand' = Range(todo) \cup {row}
  <2>1. Range(pending') = {}
    BY <1>2 DEF Range
  <2> QED BY <1>2, <1>5, <1>10, <1>11, <2>1 DEF RowsInHand
<1>14. RowFor(active, FALSE).path = active.plan.path /\ RowFor(active, FALSE).inode = active.plan.inode
  <2>1. FALSE \in BOOLEAN
    OBVIOUS
  <2> QED BY <1>3, <2>1, RowForSays
<1>15. /\ \A r \in Range(pending) : Told(ToStore(r), S) /\ Ended(r) /\ SkipsTargets(r) /\ r \in RowsInHand
       /\ RowFor(active, FALSE) \in RowsInHand
  <2>1. /\ \A r \in Range(pending) : Told(ToStore(r), WithAcc) /\ Ended(r) /\ SkipsTargets(r) /\ r \in RowsInHand
        /\ RowFor(active, FALSE) \in RowsInHand
    BY <1>2, FillParts DEF Promised, RowsInHand
  <2> QED BY <1>9, <2>1 DEF Told
<1>16. /\ Trusted' /\ NothingSkipped(Tables)' /\ Apart' /\ Tables' = S
       /\ \A r \in RowsInHand' : Told(ToStore(r), Tables)'
       /\ \A l : BeforeTarget(l)' = BeforeTarget(l)
       /\ OnDiskLines' = OnDiskLines
  <2>1. ASSUME NEW k \in 1..Len(rows)
        PROVE  /\ Told(ToStore(rows[k]), S) /\ Ended(rows[k]) /\ SkipsTargets(rows[k])
               /\ \E h \in RowsInHand : SameFile(rows[k], h)
    <3>1. CASE rows[k] \in Range(pending)
      BY <1>15, <3>1 DEF SameFile
    <3>2. CASE rows[k] = row
      <4>1. Ended(row) /\ SkipsTargets(row)
        BY <1>8 DEF Ended, SkipsTargets
      <4> QED BY <1>7, <1>8, <1>14, <1>15, <3>2, <4>1 DEF SameFile
    <3> QED BY <1>12, <3>1, <3>2
  <2>2. ASSUME NEW r \in RowsInHand'
        PROVE  \/ r \in Range(rows)
               \/ r \in RowsInHand /\ \A k \in 1..Len(rows) : r.path # rows[k].path
    <3>1. CASE r = row
      BY <1>12, <3>1
    <3>2. CASE r \in Range(todo)
      <4>1. PICK i \in DOMAIN todo : r = todo[i]
        BY <3>2 DEF Range
      <4>2. \A k \in 1..Len(rows) : r.path # rows[k].path
        <5>1. \A q \in Range(pending) : r.path # q.path
          BY <1>3, <4>1 DEF Distinct, Range
        <5>2. r.path # row.path
          BY <1>2, <1>3, <1>8, <4>1 DEF Distinct
        <5> QED BY <1>12, <5>1, <5>2
      <4> QED BY <3>2, <4>2 DEF RowsInHand
    <3> QED BY <1>13, <3>1, <3>2
  <2> QED BY <1>2, <1>6, <1>7, <1>9, <1>10, <1>12, <2>1, <2>2, CommitFills
<1>17. WithAcc' = S
  <2>1. count' \in [Line -> Nat]
    BY <1>3, <1>6, <1>10 DEF Flush, TypeOK
  <2>2. \A l \in Line : count'[l] + acc'[l] = count'[l]
    BY <1>2, <2>1 DEF NoCount
  <2> QED BY <1>16, <2>2 DEF WithAcc, Tables
<1>18. Promised'
  <2>1. \A r \in RowsInHand' : Told(ToStore(r), WithAcc)'
    BY <1>16, <1>17 DEF Told
  <2>2. Range(pending') = {}
    BY <1>2 DEF Range
  <2>3. /\ \A r \in Range(todo) : SkipsTargets(r) /\ r.latest = NoTs
        /\ SkipsTargets(active.plan)
    BY <1>2, FillParts DEF Promised
  <2>4. active'.plan = active.plan
    BY <1>5, <1>10
  <2> QED BY <1>2, <2>1, <2>2, <2>3, <2>4 DEF Promised, SkipsTargets
<1>19. NothingSkipped(WithAcc)'
  BY <1>16, <1>17 DEF NothingSkipped
<1>20. /\ \A r : RestOf(r)' = RestOf(r)
       /\ RestOfActive' = LinesOf(c, f.at, c.size)
       /\ \A l \in RestOfActive : l \in S \/ BeforeTarget(l) \/ l \in RestOfActive'
  <2>1. RestOfActive' = LinesOf(c, f.at, c.size)
    BY <1>2, <1>5, <1>10 DEF RestOfActive
  <2> QED BY <1>2, <1>7, <2>1 DEF RestOf
<1>21. ReadInTurn'
  <2>1. /\ \A k \in DOMAIN todo : \A l \in OnDiskLines :
             l <= file[todo[k].inode].from =>
               \/ l \in S \/ BeforeTarget(l) \/ l \in RestOfActive'
               \/ \E j \in DOMAIN todo : j < k /\ l \in RestOf(todo[j])
        /\ \A k \in DOMAIN todo : file[todo[k].inode].from <= written
        /\ file[active.inode].from <= written
        /\ \A l \in OnDiskLines : l <= file[active.inode].from => l \in S \/ BeforeTarget(l)
    <3> HIDE DEF c
    <3> QED BY <1>2, <1>9, <1>20, FillParts DEF ReadInTurn
  <2>2. active'.inode = active.inode
    BY <1>5, <1>10
  <2> QED BY <1>2, <1>16, <1>17, <1>20, <2>1, <2>2 DEF ReadInTurn
<1>22. StillDue'
  <2>1. \A l \in due :
          \/ l \in S \/ BeforeTarget(l) \/ l \in RestOfActive'
          \/ \E k \in DOMAIN todo : l \in RestOf(todo[k])
    <3> HIDE DEF c
    <3> QED BY <1>9, <1>20, FillParts DEF StillDue
  <2> QED BY <1>2, <1>16, <1>17, <1>20, <2>1 DEF StillDue
<1> QED BY <1>16, <1>18, <1>19, <1>21, <1>22 DEF FillInv

LEMMA StopFills ==
  ASSUME ResumeInv, CoverInv, FillInv, Stop, UNCHANGED fsVars, UNCHANGED dbVars, UNCHANGED targets
  PROVE  FillInv'
<1>1. /\ todo' = <<>> /\ pending' = <<>> /\ active' = NoFile /\ acc' = NoCount /\ due' = {}
      /\ count' = count /\ parseState' = parseState /\ archive' = archive /\ lastLog' = lastLog
  BY DEF Stop, dbVars
<1>2. /\ \A l : BeforeTarget(l)' = BeforeTarget(l)
      /\ \A r, T : Told(r, T)' <=> Told(r, T)
      /\ \A r : SkipsTargets(r)' <=> SkipsTargets(r)
  <2>1. \A l : BeforeTarget(l)' = BeforeTarget(l)
    BY DEF BeforeTarget
  <2> QED BY <2>1 DEF Told, SkipsTargets
<1>3. Tables' = Tables /\ OnDiskLines' = OnDiskLines
  BY <1>1, OnDiskAre DEF Tables, fsVars
<1>4. Trusted' /\ NothingSkipped(Tables)'
  BY <1>1, <1>2, <1>3, FillParts DEF Trusted, NothingSkipped
<1>5. \A r \in parseState', s \in archive' : SameFile(r, s) => r.path = Live
  BY <1>1, FillParts DEF Apart, SameFile
<1>6. count' \in [Line -> Nat]
  BY <1>1 DEF ResumeInv, TypeOK
<1> QED BY <1>1, <1>4, <1>5, <1>6, NothingLeft

-----------------------------------------------------------------------------
(* Rollback. *)

\* The rows after a rollback: those that it leaves alone and those it rewinds, some of
\* them from the archive.
LEMMA RollbackRows ==
  ASSUME TypeOK, Finite, NEW t \in Targets, Rollback(t)
  PROVE  \A s \in parseState' :
           \/ s \in parseState /\ ~Affected(s, t)
           \/ \E r \in parseState \cup (archive \ archive') : s = Rewound(r, t)
<1> DEFINE rewound == {IF Affected(r, t) THEN Rewound(r, t) ELSE r : r \in parseState}
           back == {r \in archive : Affected(r, t)}
<1>1. archive' = archive \ back
  BY DEF Rollback
<1>2. PICK order \in SetToSeqs(back) :
        LET rows == [k \in DOMAIN order |-> Rewound(order[k], t)]
        IN parseState' = InTurn(Replace, rewound, rows)[Len(rows)]
  BY DEF Rollback
<1>3. parseState \in SUBSET Row /\ archive \in SUBSET Row /\ back \in SUBSET archive /\ rewound \in SUBSET Row
  <2>1. parseState \in SUBSET Row /\ archive \in SUBSET Row
    BY DEF TypeOK
  <2> QED BY <2>1, RewoundIsRow
<1>4. IsFiniteSet(back) /\ Cardinality(back) \in Nat
  BY <1>3, FS_Subset, FS_CardinalityType DEF Finite
<1> HIDE DEF back
<1>5. order \in [1..Cardinality(back) -> back]
  BY DEF SetToSeqs
<1> DEFINE rows == [k \in 1..Cardinality(back) |-> Rewound(order[k], t)]
<1>6. rows \in Seq(Row) /\ Len(rows) = Cardinality(back)
  <2>1. \A k \in 1..Cardinality(back) : Rewound(order[k], t) \in Row
    BY <1>3, <1>5, RewoundIsRow
  <2> QED BY <1>4, <2>1
<1>7. parseState' = Replaces(rewound, rows)[Len(rows)]
  <2>1. DOMAIN order = 1..Cardinality(back)
    BY <1>5
  <2> HIDE DEF rewound
  <2> QED BY <1>2, <2>1 DEF Replaces
<1>8. \A k \in 1..Len(rows) : \E r \in back : rows[k] = Rewound(r, t)
  BY <1>5, <1>6
<1>9. \A s \in rewound : (s \in parseState /\ ~Affected(s, t)) \/ \E r \in parseState : s = Rewound(r, t)
  OBVIOUS
<1>10. \A s \in parseState' : s \in rewound \/ \E k \in 1..Len(rows) : s = rows[k]
  <2> HIDE DEF rows, rewound
  <2> QED BY <1>3, <1>6, <1>7, ReplacesComeFrom
<1>11. back \subseteq archive \ archive'
  BY <1>1, <1>3
<1> HIDE DEF rows, rewound
<1> QED BY <1>8, <1>9, <1>10, <1>11

LEMMA RollbackFills ==
  ASSUME ResumeInv, CoverInv, FillInv, NEW t \in Targets, Rollback(t)
  PROVE  FillInv'
<1>1. /\ pc = "idle" /\ count' = [l \in Line |-> IF l >= t THEN 0 ELSE count[l]] /\ lastLog' = t - 1
      /\ archive' = archive \ {r \in archive : Affected(r, t)} /\ targets' = targets \cup {t} /\ due' = {}
      /\ UNCHANGED runVars
  BY DEF Rollback
<1>2. TypeOK /\ Finite /\ Idle /\ Done /\ ResumeInv'
  BY RollbackKeeps, CoverParts DEF ResumeInv
<1>3. todo' = <<>> /\ active' = NoFile /\ pending' = <<>> /\ acc' = NoCount
  BY <1>1, <1>2 DEF Idle, Done, runVars
<1>4. t \in Nat /\ t > 0 /\ \A l \in Line : l \in Nat
  <2>1. MaxLines \in Nat /\ Targets \subseteq 2..MaxLines
    BY ResumeAssumption
  <2> QED BY <2>1 DEF Line
<1>5. /\ \A l : BeforeTarget(l) => BeforeTarget(l)'
      /\ \A l : l < t => BeforeTarget(l)'
      /\ \A r : SkipsTargets(r) => SkipsTargets(r)'
  BY <1>1 DEF BeforeTarget, SkipsTargets
<1>6. ASSUME NEW r \in parseState \cup archive PROVE r \in Row /\ Told(r, Tables) /\ Ended(r) /\ SkipsTargets(r)
  BY <1>2, FillParts DEF Trusted, TypeOK
<1>7. ASSUME NEW r \in parseState \cup archive, ~Affected(r, t)
      PROVE  Told(r, Tables)' /\ Ended(r) /\ SkipsTargets(r)'
  <2>1. r.latest # NoTs /\ r.latest < t /\ r.latest \in Nat
    <3>1. r.latest \in Nat
      BY <1>6, RowFields, Constants DEF OptRow
    <3> QED BY <1>4, <1>7, <3>1 DEF Affected
  <2>2. ASSUME NEW l \in Behind(r), ~BeforeTarget(l)' PROVE FALSE
    <3>1. l \in Line /\ l <= r.latest
      BY <1>5, <1>6, <2>1, <2>2 DEF Told, Behind
    <3> QED BY <1>4, <1>5, <2>1, <2>2, <3>1
  <2> QED BY <1>5, <1>6, <2>2 DEF Told
<1>8. ASSUME NEW r \in Row
      PROVE  LET s == Rewound(r, t)
             IN Told(s, Tables)' /\ Ended(s) /\ SkipsTargets(s)' /\ SameFile(s, r)
  <2> DEFINE s == Rewound(r, t)
  <2>1. s.uoff = 0 /\ s.completed = FALSE /\ s.skip \in {t, NoTs} /\ s.uhead = r.uhead
        /\ s.path = r.path /\ s.inode = r.inode
    BY DEF Rewound, Row
  <2> HIDE DEF s
  <2>2. Behind(s) = {}
    <3>1. ASSUME r.uhead # NoHead PROVE r.uhead[1] \in Nat
      <4>1. r.uhead \in (0..MaxLines) \X (1..HeadSize)
        BY <3>1, RowFields DEF OptRow, HeadType
      <4> QED BY <4>1, Constants DEF Lines0
    <3> QED BY <1>4, <2>1, <3>1 DEF Behind
  <2>3. SkipsTargets(s)'
    BY <1>1, <2>1 DEF SkipsTargets
  <2> QED BY <2>1, <2>2, <2>3 DEF Told, Ended, SameFile, s
<1>9. \A s \in parseState' :
        \/ s \in parseState /\ ~Affected(s, t)
        \/ \E r \in parseState \cup (archive \ archive') : s = Rewound(r, t)
  BY <1>2, RollbackRows
<1>10. Trusted'
  <2>1. \A s \in archive' : s \in archive /\ ~Affected(s, t)
    BY <1>1
  <2> HIDE DEF Affected, Rewound
  <2>2. \A s \in parseState' : Told(s, Tables)' /\ Ended(s) /\ SkipsTargets(s)'
    BY <1>6, <1>7, <1>8, <1>9
  <2> QED BY <1>7, <2>1, <2>2 DEF Trusted
<1>11. NothingSkipped(Tables)'
  <2>1. \A m \in Tables' \cup {lastLog'} : m < t
    BY <1>1, <1>4 DEF Tables
  <2>2. ASSUME NEW m \in Tables' \cup {lastLog'}, NEW l \in OnDiskLines', l <= m PROVE BeforeTarget(l)'
    <3>1. l \in Nat /\ m \in Nat
      <4>1. l \in Line
        BY DEF OnDiskLines, AllLines, LinesOf
      <4> QED BY <1>1, <1>4, <4>1 DEF Tables
    <3> QED BY <1>4, <1>5, <2>1, <2>2, <3>1
  <2> QED BY <2>2 DEF NothingSkipped
<1>12. ASSUME NEW s \in parseState', NEW u \in archive', SameFile(s, u) PROVE s.path = Live
  <2>1. u \in archive
    BY <1>1
  <2>2. PICK r \in parseState \cup (archive \ archive') : SameFile(s, r) /\ s.path = r.path
    <3>1. CASE s \in parseState
      BY <3>1 DEF SameFile
    <3>2. CASE s \notin parseState
      <4>1. PICK r \in parseState \cup (archive \ archive') : s = Rewound(r, t)
        BY <1>9, <3>2
      <4> QED BY <1>6, <1>8, <4>1 DEF SameFile
    <3> QED BY <3>1, <3>2
  <2>3. SameFile(r, u)
    BY <1>12, <2>2 DEF SameFile
  <2>4. r \in parseState
    BY <1>2, <2>1, <2>2, <2>3 DEF TypeOK, SameFile
  <2> QED BY <2>1, <2>2, <2>3, <2>4, FillParts DEF Apart, SameFile
<1>13. count' \in [Line -> Nat]
  BY <1>2 DEF ResumeInv, TypeOK
<1> QED BY <1>1, <1>3, <1>10, <1>11, <1>12, <1>13, NothingLeft

-----------------------------------------------------------------------------
(* The beginning of a run. *)

\* The file at a path, when nothing is read.
LEMMA OnPath ==
  ASSUME ResumeInv, CoverInv, Untroubled, NEW q \in OnDisk
  PROVE  LET c == At(q)
         IN /\ TypeOK /\ Tidy(World) /\ Book(World, Current, Former, Seen) /\ HeadSize = 1 /\ World \in WorldType
            /\ q \in Paths /\ q \in glob /\ dir[q] # NoInode /\ dir[q] \in Inodes
            /\ c \in Content /\ c.from \in Nat /\ c.size \in Nat /\ c = file[dir[q]]
            /\ World.inode = dir /\ On(World, q) /\ World.at[q] = c /\ HeadAt(World, q) = HeadOf(c)
            /\ c.size = 0 => HeadOf(c) = NoHead
            /\ c.size # 0 => HeadOf(c) = <<c.from, 1>> /\ HeadOf(c) # NoHead
            /\ \A l : l \in AllLines(c) <=> l \in Line /\ c.from < l /\ l <= c.from + c.size
            /\ \A l \in AllLines(c) : l \in OnDiskLines /\ l \in Nat /\ c.size > 0
            /\ ComputeFingerprints(q).uhead = HeadOf(c)
            /\ ~IsCompressed(q) => ComputeFingerprints(q).usize = c.size
<1> DEFINE c == At(q)
<1>1. TypeOK /\ Tidy(World) /\ Book(World, Current, Former, Seen) /\ HeadSize = 1
  BY CoverParts DEF ResumeInv, Untroubled
<1>2. q \in Paths /\ q \in glob /\ dir[q] # NoInode /\ dir[q] \in Inodes /\ c \in Content /\ c = file[dir[q]]
  BY <1>1, Files DEF OnDisk, At
<1>3. /\ World \in WorldType /\ World.inode = dir /\ On(World, q) /\ World.at[q] = c /\ HeadAt(World, q) = HeadOf(c)
      /\ c.from \in Nat /\ c.size \in Nat
  BY <1>1, <1>2, ThisWorld, ContentIs DEF HeadAt
<1>4. /\ c.size = 0 => HeadOf(c) = NoHead
      /\ c.size # 0 => HeadOf(c) = <<c.from, 1>> /\ HeadOf(c) # NoHead
      /\ \A l : l \in AllLines(c) <=> l \in Line /\ c.from < l /\ l <= c.from + c.size
  BY <1>1, <1>2, HeadIs, LinesAre
<1>5. \A l \in AllLines(c) : l \in OnDiskLines
  BY DEF OnDiskLines
<1>6. PlanOf(q).uhead = HeadOf(c) /\ PlanOf(q).uhead = ComputeFingerprints(q).uhead
  BY <1>3, PlanNote DEF PlanOf, NoRow
<1>7. ~IsCompressed(q) => ComputeFingerprints(q).usize = c.size
  BY DEF ComputeFingerprints
<1> HIDE DEF c
<1>8. \A l \in AllLines(c) : l \in Nat /\ c.size > 0
  <2> SUFFICES ASSUME NEW l \in AllLines(c) PROVE l \in Nat /\ c.size > 0
    OBVIOUS
  <2>1. l \in Nat /\ c.from < l /\ l <= c.from + c.size
    BY <1>4, Constants DEF Lines0
  <2> QED BY <1>3, <2>1
<1> QED BY <1>1, <1>2, <1>3, <1>4, <1>5, <1>6, <1>7, <1>8 DEF c

\* Rows of the tables, and what they say.
LEMMA KnownRowsAre ==
  ASSUME TypeOK, Trusted, NEW x \in KnownRows
  PROVE  /\ x \in Row /\ x # NoRow /\ Note(x) \in NoteType /\ Note(x) \in Current \cup Former
         /\ Note(x).path = x.path /\ Note(x).inode = x.inode /\ Note(x).head = x.uhead
         /\ Note(x).chead = x.chead /\ Note(x).upto = x.uoff /\ Note(x).mtime = x.mtime
         /\ x.uoff \in Nat /\ x.usize \in Nat /\ x.csize \in Nat /\ x.latest \in Nat /\ x.path \in Paths
         /\ x.path = Packed => Note(x).size = x.csize
         /\ x.path # Packed => Note(x).size = x.usize
         /\ Told(x, Tables) /\ Ended(x) /\ SkipsTargets(x)
         /\ x \in parseState \/ Note(x) \in Former
<1>1. x \in Row /\ Note(x) \in Current \cup Former /\ (x \in parseState \/ Note(x) \in Former)
  BY TableNotes DEF KnownRows
<1>2. x \in OptRow
  BY <1>1 DEF OptRow
<1>3. x # NoRow /\ x.path \in Paths
  BY <1>1, <1>2, RowFields
<1>4. {x.csize, x.usize, x.uoff, x.latest} \subseteq Nat
  BY <1>2, RowFields, Constants
<1> QED BY <1>1, <1>3, <1>4, NoteOf DEF KnownRows, Trusted

\* A row about a file that was read to its end tells of all its lines.
LEMMA TellsAll ==
  ASSUME ResumeInv, CoverInv, FillInv, Untroubled, NEW q \in OnDisk, NEW x \in KnownRows,
         x.uhead = HeadOf(At(q)), NEW off \in Nat, x.uoff >= off
  PROVE  \A l \in AllLines(At(q)) : l <= At(q).from + off => l \in Tables \/ BeforeTarget(l)
<1> SUFFICES ASSUME NEW l \in AllLines(At(q)), l <= At(q).from + off PROVE l \in Tables \/ BeforeTarget(l)
  OBVIOUS
<1>1. TypeOK /\ Trusted
  BY FillParts DEF ResumeInv
<1>2. /\ At(q) \in Content /\ At(q).from \in Nat /\ At(q).size > 0 /\ At(q).size \in Nat
      /\ HeadOf(At(q)) = <<At(q).from, 1>> /\ HeadOf(At(q)) # NoHead
      /\ l \in Line /\ At(q).from < l /\ l \in Nat
  BY OnPath
<1>3. x.uoff \in Nat /\ Told(x, Tables)
  BY <1>1, KnownRowsAre
<1>4. l \in Behind(x)
  <2>1. l <= At(q).from + x.uoff
    BY <1>2, <1>3
  <2> QED BY <1>2, <2>1 DEF Behind
<1> QED BY <1>3, <1>4 DEF Told

\* The row of a file that has grown, or been read in part, or been packed, is about it.
LEMMA ExtendedHead ==
  ASSUME ResumeInv, CoverInv, FillInv, Untroubled, NEW q \in OnDisk, Primary(q) # NoRow, IsExtended(q)
  PROVE  Primary(q).uhead = HeadOf(At(q))
<1> DEFINE w == World
           b == Primary(q)
           n == Note(b)
           c == At(q)
<1>1. /\ TypeOK /\ Book(w, Current, Former, Seen) /\ q \in Paths /\ On(w, q) /\ w.at[q] = c /\ w.inode[q] = dir[q]
      /\ HeadAt(w, q) = HeadOf(c) /\ c.size \in Nat /\ ComputeFingerprints(q).uhead = HeadOf(c) /\ Trusted
  BY OnPath, FillParts
<1>2. /\ b \in KnownRows
      /\ \/ n.inode = w.inode[q]
         \/ n.path = q /\ n.inode # w.inode[q] /\ InodeChanged(q)
  BY <1>1, PrimaryIs
<1>3. /\ b \in Row /\ n \in NoteType /\ n \in Current \cup Former /\ n.path = b.path /\ n.inode = b.inode
      /\ n.head = b.uhead /\ n.upto = b.uoff /\ b.uoff \in Nat /\ b.usize \in Nat /\ b.csize \in Nat
      /\ (b.path = Packed => n.size = b.csize) /\ (b.path # Packed => n.size = b.usize)
  BY <1>1, <1>2, KnownRowsAre
<1>4. b.path # q => q = Rotated /\ b.path = Live
  BY PrimaryPath
<1>5. n.size = PreviousSize(q, b) /\ n.size \in Nat
  BY <1>1, <1>3, <1>4, ThreePaths DEF PreviousSize, IsCompressed
<1>6. WellMade(w, n) /\ Sized(w, n, q)
  BY <1>1, <1>3, BookParts
<1>7. SameHead(q) => b.uhead = HeadOf(c) /\ b.uhead # NoHead
  BY <1>1 DEF SameHead
<1>8. RotatedPlainToGz(q) => SameHead(q)
  BY DEF RotatedPlainToGz
<1>9. InProgress(q) => b.inode = dir[q] /\ b.uoff > 0 /\ c.size >= n.size
  BY <1>1, <1>5 DEF InProgress, PreviousSize
<1>10. Grew(q) => c.size > n.size /\ n.size > 0 /\ (b.inode = dir[q] \/ SameHead(q) \/ ~InodeChanged(q))
  BY <1>5 DEF Grew
<1>11. Grew(q) /\ ~SameHead(q) => n.inode = w.inode[q]
  BY <1>1, <1>2, <1>3, <1>10
<1> HIDE DEF w, n, b, c
<1>12. ASSUME n.inode = w.inode[q], n.size > 0 \/ n.upto > 0, c.size >= n.size PROVE n.head = HeadOf(c)
  <2>1. n.head # NoHead
    BY <1>6, <1>12 DEF WellMade
  <2>2. ~(n.size > c.size)
    BY <1>1, <1>5, <1>12
  <2> QED BY <1>1, <1>6, <1>12, <2>1, <2>2 DEF Sized
<1>13. CASE SameHead(q)
  BY <1>7, <1>13 DEF b, c
<1>14. CASE InProgress(q)
  BY <1>1, <1>3, <1>9, <1>12, <1>14 DEF b, c
<1>15. CASE Grew(q) /\ ~SameHead(q)
  <2>1. n.inode = w.inode[q] /\ n.size > 0 /\ c.size >= n.size
    BY <1>1, <1>5, <1>10, <1>11, <1>15
  <2> QED BY <1>3, <1>12, <2>1 DEF b, c
<1> QED BY <1>8, <1>13, <1>14, <1>15 DEF IsExtended

\* The offset a file is read on from is that of a row about it, or 0.
LEMMA OffsetFrom ==
  ASSUME ResumeInv, CoverInv, FillInv, Untroubled, NEW q \in OnDisk
  PROVE  /\ ResumeOffset(q) \in Nat
         /\ \/ ResumeOffset(q) = 0
            \/ \E x \in KnownRows :
                 /\ x.uhead = HeadOf(At(q)) /\ ResumeOffset(q) <= x.uoff
                 /\ x = Primary(q) \/ ByPath(q) = NoRow \/ InodeChanged(q)
<1> DEFINE w == World
           b == Primary(q)
           h == HeadMatch(q)
           c == At(q)
           fps == ComputeFingerprints(q)
<1>1. /\ TypeOK /\ Book(w, Current, Former, Seen) /\ q \in Paths /\ On(w, q) /\ c.size \in Nat /\ c.from \in Nat
      /\ fps.uhead = HeadOf(c) /\ Trusted /\ Tidy(w) /\ w.at[q] = c
      /\ c.size # 0 => HeadOf(c) # NoHead
  BY OnPath, FillParts
<1>2. b \in OptRow /\ h \in OptRow
  BY <1>1, FoundRows
<1>3. b.uoff \in Nat /\ h.uoff \in Nat
  BY <1>2, RowFields, Constants
<1>4. \A off \in Nat : Clamped(q, off) \in Nat /\ Clamped(q, off) <= off
  BY <1>1 DEF Clamped, Lesser
<1>5. CASE b # NoRow /\ IsExtended(q)
  <2>1. b.uhead = HeadOf(c)
    BY <1>5, ExtendedHead
  <2>2. b \in KnownRows
    BY <1>1, <1>5, PrimaryIs
  <2>3. ResumeOffset(q) = Clamped(q, b.uoff)
    BY <1>5 DEF ResumeOffset
  <2> QED BY <1>3, <1>4, <2>1, <2>2, <2>3
<1>6. CASE b # NoRow /\ ~IsExtended(q) /\ IsReplaced(q)
  BY <1>6 DEF ResumeOffset
<1>7. CASE ~(b # NoRow /\ IsExtended(q)) /\ ~(b # NoRow /\ IsReplaced(q))
  <2>1. ResumeOffset(q) = Clamped(q, h.uoff)
    BY <1>7 DEF ResumeOffset
  <2>2. CASE h = NoRow
    <3>0. NoRow.uoff = 0
      BY DEF NoRow
    <3>1. h.uoff = 0
      BY <2>2, <3>0
    <3>2. Clamped(q, h.uoff) \in Nat /\ Clamped(q, h.uoff) <= h.uoff
      BY <1>3, <1>4
    <3> QED BY <2>1, <3>1, <3>2
  <2>3. CASE h # NoRow
    <3>1. h = FindHeadMatch(q) /\ (ByPath(q) = NoRow \/ InodeChanged(q))
      BY <2>3 DEF HeadMatch
    <3> DEFINE packed == {r \in KnownRows : IsCompressed(q) /\ r.chead = fps.chead}
               head == {r \in KnownRows : fps.uhead # NoHead /\ r.uhead = fps.uhead}
    <3>2. h \in packed \/ h \in head
      <4>1. BestBy(packed, LAMBDA r : r.coff) \in packed \cup {NoRow}
        BY BestIs
      <4>2. BestByUncompressed(head) \in head \cup {NoRow}
        BY BestIs DEF BestByUncompressed
      <4>3. h = BestBy(packed, LAMBDA r : r.coff) \/ h = BestByUncompressed(head)
        BY <3>1 DEF FindHeadMatch
      <4> QED BY <2>3, <4>1, <4>2, <4>3
    <3>3. h \in KnownRows
      BY <3>2
    <3>4. h.uhead = HeadOf(c)
      <4>1. CASE h \in head
        BY <1>1, <4>1
      <4>2. CASE h \in packed
        <5>1. q = Packed /\ h.chead = HeadOf(c) /\ HeadOf(c) # NoHead
          <6>1. q = Packed /\ h.chead = HeadOf(c)
            BY <4>2 DEF IsCompressed, ComputeFingerprints
          <6>2. c.size > 0
            BY <1>1, <6>1 DEF Tidy
          <6> QED BY <1>1, <6>1, <6>2
        <5>2. Note(h) \in Current \cup Former /\ Note(h).head = h.uhead /\ Note(h).chead = h.chead
          BY <1>1, <3>3, KnownRowsAre
        <5>3. WellMade(w, Note(h))
          BY <1>1, <5>2, BookParts
        <5> QED BY <5>1, <5>2, <5>3 DEF WellMade
      <4> QED BY <3>2, <4>1, <4>2
    <3> HIDE DEF h
    <3>5. ResumeOffset(q) \in Nat /\ ResumeOffset(q) <= h.uoff
      BY <1>3, <1>4, <2>1
    <3> QED BY <3>1, <3>3, <3>4, <3>5
  <2> QED BY <2>2, <2>3
<1> QED BY <1>5, <1>6, <1>7

\* The row that the first commit of a run finds for a path is that of its file.
LEMMA StoredRow ==
  ASSUME ResumeInv, CoverInv, FillInv, Untroubled, StartRun, NEW q \in LookedUp, NEW r, r.path = q
  PROVE  LET s == TheOnly(SameFilePath(Unretired', r))
         IN /\ \/ s = NoRow
               \/ /\ s \in KnownRows /\ s.path = q /\ s.inode = dir[q] /\ s # NoRow
                  /\ ByPath(q) = s /\ ByInode(q) = s /\ Primary(q) = s /\ ~InodeChanged(q)
            /\ q = Live => \A x \in KnownRows : x.uhead = HeadOf(At(q)) /\ x.uhead # NoHead => s = x
<1> DEFINE w == World
           S == SameFilePath(Unretired', r)
           s == TheOnly(S)
<1>1. q \in OnDisk
  BY DEF LookedUp
<1>2. /\ TypeOK /\ Book(w, Current, Former, Seen) /\ w.inode = dir /\ HeadAt(w, q) = HeadOf(At(q))
      /\ Trusted /\ q \in Paths
  BY <1>1, OnPath, FillParts
<1>3. /\ Notes(Unretired') = Remaining
      /\ \A n \in Remaining : n.path = q => n.inode = w.inode[q]
  BY RunRetires
<1>4. parseState' = parseState
  BY DEF StartRun, dbVars
<1>5. \A y \in S : y \in parseState /\ y \in Unretired' /\ y.path = q
  BY <1>4 DEF SameFilePath, Unretired
<1>6. ASSUME NEW y \in S
      PROVE  /\ y \in KnownRows /\ y.path = q /\ y.inode = dir[q] /\ y # NoRow
             /\ ByPath(q) = y /\ ByInode(q) = y /\ Primary(q) = y /\ ~InodeChanged(q)
  <2>1. y \in parseState /\ y \in Unretired' /\ y.path = q /\ y \in KnownRows
    BY <1>5 DEF KnownRows
  <2>2. Note(y).path = q /\ Note(y).inode = y.inode /\ y # NoRow
    BY <1>2, <2>1, KnownRowsAre
  <2>3. Note(y) \in Remaining
    BY <1>3, <2>1 DEF Notes
  <2>4. y.inode = dir[q]
    BY <1>2, <1>3, <2>2, <2>3
  <2>5. ByPath(q) = y /\ ByInode(q) = y
    BY <1>2, <2>1, <2>4, FoundByPath, FoundByInode
  <2> QED BY <2>1, <2>2, <2>4, <2>5 DEF Primary, ChoosePrimary, InodeChanged
<1>7. (S = {} /\ s = NoRow) \/ s \in S
  BY TheOnlyIs
<1>8. ASSUME q = Live, NEW x \in KnownRows, x.uhead = HeadOf(At(q)), x.uhead # NoHead PROVE s = x
  <2>1. /\ Note(x) \in Current \cup Former /\ Note(x).head = x.uhead /\ Note(x).path = x.path
        /\ Note(x).inode = x.inode /\ (x \in parseState \/ Note(x) \in Former)
    BY <1>2, <1>8, KnownRowsAre
  <2>2. Note(x).path = Live /\ Note(x).inode = w.inode[Live] /\ Note(x) \notin Former
    BY <1>2, <1>8, <2>1, BookParts DEF LiveRows
  <2>3. x \in parseState /\ Note(x) \in Current
    BY <2>1, <2>2
  <2>4. Note(x) \notin Notes(retired')
    BY <1>2, <1>8, <2>1, <2>2, <2>3, RetiredRows
  <2>5. Note(x) \in Notes(Unretired')
    BY <1>3, <2>3, <2>4 DEF Remaining
  <2>6. PICK y \in Unretired' : Note(y) = Note(x)
    BY <2>5 DEF Notes
  <2>7. y \in parseState
    BY <1>4 DEF Unretired
  <2>8. y \in KnownRows
    BY <2>7 DEF KnownRows
  <2>9. y.path = Live
    BY <1>2, <2>2, <2>6, <2>8, KnownRowsAre
  <2>10. x = y
    BY <1>2, <2>1, <2>2, <2>3, <2>7, <2>9 DEF TypeOK
  <2>11. x \in S
    BY <1>8, <2>6, <2>9, <2>10 DEF SameFilePath
  <2>12. s \in S
    BY <1>7, <2>11
  <2>13. ByPath(q) = x /\ ByPath(q) = s
    BY <1>6, <2>11, <2>12
  <2> QED BY <2>13
<1> QED BY <1>6, <1>7, <1>8

\* A plan tells what the rows do that it was made from, and is stored with their time.
LEMMA PlanTells ==
  ASSUME ResumeInv, CoverInv, FillInv, Untroubled, StartRun, NEW q \in LookedUp, NEW r, r = PlanOf(q)
  PROVE  /\ r \in Row /\ r.path = q /\ r.inode = dir[q] /\ r.latest = NoTs /\ r.uoff = ResumeOffset(q)
         /\ Told(ToStore(r)', Tables) /\ SkipsTargets(r)
<1> DEFINE s == TheOnly(SameFilePath(Unretired', r))
           m == Merged(r, s)
           c == At(q)
<1>1. q \in OnDisk
  BY DEF LookedUp
<1>2. /\ TypeOK /\ Trusted /\ q \in Paths /\ c \in Content /\ c.from \in Nat /\ HeadSize = 1
      /\ c.size # 0 => HeadOf(c) # NoHead
      /\ HeadAt(World, q) = HeadOf(c)
  BY <1>1, OnPath, FillParts
<1>3. /\ r \in Row /\ r.path = q /\ r.inode = dir[q] /\ r.uoff = ResumeOffset(q) /\ r.uhead = HeadOf(c)
  BY <1>1, <1>2, PlanNote
<1>4. r.latest = NoTs /\ r.skip = SkipBefore(q)
  BY DEF PlanOf, NoRow
<1>5. SkipsTargets(r)
  <2>1. ASSUME NEW x, x = NoRow \/ x \in KnownRows PROVE x.skip = NoTs \/ x.skip \in targets
    <3>1. NoRow.skip = NoTs
      BY DEF NoRow
    <3> QED BY <1>2, <2>1, <3>1, KnownRowsAre DEF SkipsTargets
  <2>2. ByPath(q) = NoRow \/ ByPath(q) \in KnownRows
    BY <1>2, FoundByPath DEF KnownRows
  <2>3. ByInode(q) = NoRow \/ ByInode(q) \in KnownRows
    BY <1>2, FoundByInode DEF KnownRows
  <2> QED BY <1>4, <2>1, <2>2, <2>3 DEF SkipBefore, SkipsTargets
<1>6. ToStore(r)' = m
  BY DEF ToStore
<1>7. s = NoRow \/ s \in KnownRows
  BY <1>3, StoredRow
<1>8. s \in OptRow /\ s.latest \in Nat
  <2>1. s \in OptRow
    BY <1>2, <1>7, KnownRowsAre DEF OptRow
  <2> QED BY <2>1, RowFields, Constants
<1> HIDE DEF s
<1>9. m.path = q /\ Behind(m) = Behind(r) /\ m.latest = s.latest
  BY <1>3, <1>4, <1>8, StoredAs
<1>10. ResumeOffset(q) \in Nat
  BY <1>1, OffsetFrom
<1>11. \A l : l \in Behind(r) <=> c.size # 0 /\ l \in Line /\ c.from < l /\ l <= c.from + r.uoff
  BY <1>2, <1>3, <1>10, BehindIs
<1>12. ASSUME NEW l \in Behind(r)
       PROVE  BeforeTarget(l) \/ (l \in Tables /\ (s.latest # NoTs \/ q = Live => l <= s.latest))
  <2>1. /\ c.size # 0 /\ l \in Line /\ l \in Nat /\ c.from < l /\ l <= c.from + r.uoff
    BY <1>11, Constants DEF Lines0
  <2>2. ResumeOffset(q) # 0
    BY <1>2, <1>3, <2>1
  <2>3. PICK x \in KnownRows : /\ x.uhead = HeadOf(c) /\ ResumeOffset(q) <= x.uoff
                               /\ x = Primary(q) \/ ByPath(q) = NoRow \/ InodeChanged(q)
    BY <1>1, <2>2, OffsetFrom
  <2>4. x.uoff \in Nat /\ Told(x, Tables) /\ x.latest \in Nat
    BY <1>2, <2>3, KnownRowsAre
  <2>5. Behind(r) \subseteq Behind(x)
    <3>1. l \in Line /\ x.uhead # NoHead /\ x.uhead = r.uhead
      BY <1>2, <1>3, <2>1, <2>3
    <3>2. \A y \in Line : y <= c.from + r.uoff => y <= c.from + x.uoff
      <4>1. \A y \in Line : y \in Nat
        BY Constants DEF Lines0
      <4> QED BY <1>2, <1>3, <1>10, <2>3, <2>4, <4>1
    <3>3. x.uhead[1] = c.from
      BY <1>1, <2>1, <2>3, OnPath
    <3> QED BY <1>11, <3>1, <3>2, <3>3 DEF Behind
  <2>6. BeforeTarget(l) \/ (l \in Tables /\ (x.latest # NoTs \/ x.path = Live => l <= x.latest))
    BY <2>4, <2>5 DEF Told
  <2>7. CASE s = x
    <3>1. x.path = q
      <4>1. x # NoRow
        BY <1>2, <2>3, KnownRowsAre
      <4> QED BY <1>3, <2>7, <4>1, StoredRow DEF s
    <3> QED BY <2>6, <2>7, <3>1
  <2>8. CASE s # x
    <3>1. q # Live
      BY <1>2, <1>3, <2>1, <2>3, <2>8, StoredRow DEF s
    <3>2. s = NoRow
      <4>1. s = NoRow \/ (Primary(q) = s /\ ByPath(q) = s /\ ~InodeChanged(q) /\ s # NoRow)
        BY <1>3, StoredRow DEF s
      <4> QED BY <2>3, <2>8, <4>1
    <3>3. NoRow.latest = NoTs
      BY DEF NoRow
    <3>4. s.latest = NoTs
      BY <3>2, <3>3
    <3> QED BY <2>6, <3>1, <3>4
  <2> QED BY <2>7, <2>8
<1>13. Told(m, Tables)
  <2> HIDE DEF m
  <2> QED BY <1>9, <1>12 DEF Told
<1> QED BY <1>3, <1>4, <1>5, <1>6, <1>13

\* What is stored for a file that is not read tells what the row does that it is taken from.
LEMMA UpdateTells ==
  ASSUME ResumeInv, CoverInv, FillInv, Untroubled, StartRun, Rotated \in LookedUp,
         NEW r \in SkippedUpdate(Rotated)
  PROVE  /\ r \in Row /\ r.path = Rotated /\ r.inode = dir[Rotated]
         /\ Told(ToStore(r)', Tables) /\ Ended(r) /\ SkipsTargets(r)
<1> DEFINE p == Rotated
           s == TheOnly(SameFilePath(Unretired', r))
           m == Merged(r, s)
           b == Primary(p)
           c == At(p)
<1>1. p \in OnDisk
  BY DEF LookedUp
<1>2. /\ TypeOK /\ Trusted /\ c \in Content /\ c.from \in Nat /\ c.size \in Nat /\ HeadSize = 1
      /\ c.size # 0 => HeadOf(c) # NoHead
      /\ ComputeFingerprints(p).uhead = HeadOf(c) /\ ComputeFingerprints(p).usize = c.size
      /\ ~IsCompressed(p)
  <2>1. ~IsCompressed(p)
    BY ThreePaths DEF IsCompressed
  <2> QED BY <1>1, <2>1, OnPath, FillParts
<1>3. r \in Row /\ r.path = p /\ r.inode = dir[p]
  BY <1>1, <1>2, UpdateIsRow DEF IsAbout
<1>4. ToStore(r)' = m
  BY DEF ToStore
<1>5. \/ s = NoRow
      \/ s \in KnownRows /\ s # NoRow /\ ByInode(p) = s /\ Primary(p) = s /\ s.path = p /\ ~InodeChanged(p)
  BY <1>3, StoredRow
<1>6. s \in OptRow /\ s.latest \in Nat
  <2>1. s \in OptRow
    BY <1>2, <1>5, KnownRowsAre DEF OptRow
  <2> QED BY <2>1, RowFields, Constants
<1>7. NoRow.latest = NoTs
  BY DEF NoRow
<1> HIDE DEF s
<1>8. m.path = p /\ Behind(m) = Behind(r) /\ m.latest = (IF r.latest # NoTs THEN r.latest ELSE s.latest)
  BY <1>3, <1>6, StoredAs
<1> HIDE DEF m
<1>9. \/ /\ MetadataExactMatch(p) \/ IsSameFile(p)
         /\ b.path # p /\ (r = AliasRow(p) \/ (r \in AliasUpdateWithFps(p) /\ IsSameFile(p)))
      \/ IsDuplicate(p) /\ r = CompletedUpdate(p)
  <2>1. ~CompressedMatch(p)
    BY <1>2 DEF CompressedMatch
  <2> QED BY <2>1 DEF SkippedUpdate, AliasUpdate, AliasUpdateWithFps
<1>10. CASE /\ MetadataExactMatch(p) \/ IsSameFile(p)
            /\ b.path # p /\ (r = AliasRow(p) \/ (r \in AliasUpdateWithFps(p) /\ IsSameFile(p)))
  <2>1. b.completed
    BY <1>10 DEF MetadataExactMatch, IsSameFile
  <2>2. b # NoRow
    <3>1. ~NoRow.completed
      BY DEF NoRow
    <3> QED BY <2>1, <3>1
  <2>3. b \in KnownRows /\ b.path = Live
    BY <1>1, <1>2, <1>10, <2>2, PrimaryIs, PrimaryPath
  <2>4. b \in Row /\ Told(b, Tables) /\ Ended(b) /\ b.latest \in Nat
    BY <1>2, <2>3, KnownRowsAre
  <2>5. /\ AliasRow(p) \in Row /\ AliasRow(p).uhead = b.uhead /\ AliasRow(p).usize = b.usize
        /\ AliasRow(p).uoff = b.uoff /\ AliasRow(p).latest = b.latest /\ AliasRow(p).skip = NoTs
    <3>1. AliasRow(p) \in Row
      BY <1>1, <1>2, <2>1, AliasIsRow DEF IsAbout
    <3> QED BY <2>4, <3>1 DEF AliasRow, Row
  <2>6. r.uhead = b.uhead /\ r.usize = b.usize /\ r.uoff = b.uoff /\ r.latest = b.latest /\ r.skip = NoTs
    <3>1. CASE r = AliasRow(p)
      BY <2>5, <3>1
    <3>2. CASE r \in AliasUpdateWithFps(p) /\ IsSameFile(p)
      <4>1. b.uhead = ComputeFingerprints(p).uhead
        BY <3>2 DEF IsSameFile
      <4> DEFINE a == AliasRow(p)
                 f == ComputeFingerprints(p)
      <4>2. r = [a EXCEPT !.csize = 0, !.coff = 0, !.chead = f.chead,
                          !.uhead = IF f.uhead # NoHead THEN f.uhead ELSE @]
        BY <1>2, <3>2 DEF AliasUpdateWithFps
      <4> HIDE DEF a, f
      <4>3. /\ r.usize = a.usize /\ r.uoff = a.uoff /\ r.latest = a.latest /\ r.skip = a.skip
            /\ r.uhead = IF f.uhead # NoHead THEN f.uhead ELSE a.uhead
        BY <2>5, <4>2 DEF Row, a
      <4> QED BY <2>5, <4>1, <4>3 DEF a, f
    <3> QED BY <1>10, <3>1, <3>2
  <2>7. Behind(r) = Behind(b)
    BY <2>6 DEF Behind
  <2>8. Ended(r) /\ SkipsTargets(r)
    BY <1>2, <1>3, <2>1, <2>4, <2>6 DEF Ended, SkipsTargets
  <2>9. \A l \in Behind(b) : BeforeTarget(l) \/ (l \in Tables /\ l <= b.latest)
    BY <2>3, <2>4 DEF Told
  <2>10. \A l \in Behind(b) : l <= b.latest => b.latest # NoTs
    <3>1. \A l \in Behind(b) : l \in Line
      BY DEF Behind
    <3>2. \A l \in Line : ~(l <= 0)
      <4>1. MaxLines \in Nat
        BY Constants
      <4> QED BY <4>1 DEF Line
    <3> QED BY <3>1, <3>2 DEF NoTs
  <2>11. Told(m, Tables)
    BY <1>8, <2>6, <2>7, <2>9, <2>10 DEF Told
  <2> QED BY <1>3, <1>4, <2>8, <2>11
<1>11. CASE IsDuplicate(p) /\ r = CompletedUpdate(p)
  <2>1. r.uoff = c.size /\ r.usize = c.size /\ r.uhead = HeadOf(c) /\ r.latest = NoTs /\ r.skip = NoTs
    BY <1>2, <1>11 DEF CompletedUpdate, NoRow
  <2>2. PICK x \in KnownRows : x.completed /\ c.size > 0 /\ x.uhead = HeadOf(c) /\ x.usize = c.size
    BY <1>2, <1>11 DEF IsDuplicate, Duplicates
  <2>3. x.uoff \in Nat /\ x.uoff >= c.size
    BY <1>2, <2>2, KnownRowsAre DEF Ended
  <2>4. \A l \in AllLines(c) : l <= c.from + c.size => l \in Tables \/ BeforeTarget(l)
    BY <1>1, <1>2, <2>2, <2>3, TellsAll
  <2>5. \A l \in Behind(r) : l \in Tables \/ BeforeTarget(l)
    <3>1. \A l : l \in Behind(r) <=> c.size # 0 /\ l \in Line /\ c.from < l /\ l <= c.from + r.uoff
      BY <1>2, <2>1, BehindIs
    <3>2. \A l : l \in AllLines(c) <=> l \in Line /\ c.from < l /\ l <= c.from + c.size
      BY <1>1, OnPath
    <3> QED BY <2>1, <2>4, <3>1, <3>2
  <2>6. s = NoRow
    <3>1. ~SkipGlobalDedup(p)
      BY <1>11 DEF IsDuplicate
    <3> QED BY <1>5, <3>1 DEF SkipGlobalDedup
  <2>7. m.latest = NoTs /\ m.path # Live
    BY <1>7, <1>8, <2>1, <2>6, ThreePaths
  <2>8. Told(m, Tables)
    BY <1>8, <2>5, <2>7 DEF Told
  <2>9. Ended(r) /\ SkipsTargets(r)
    BY <1>2, <1>3, <2>1 DEF Ended, SkipsTargets
  <2> QED BY <1>3, <1>4, <2>8, <2>9
<1> QED BY <1>9, <1>10, <1>11

\* A run finds each line that is on disk counted, or plans to read it.
LEMMA RunAccounts ==
  ASSUME ResumeInv, CoverInv, FillInv, Untroubled, NEW p \in OnDisk, NEW l \in AllLines(At(p))
  PROVE  \/ l \in Tables \/ BeforeTarget(l)
         \/ /\ p \in Resolved /\ NeedsPlan(p)
            /\ At(p).from + ResumeOffset(p) < l
<1> DEFINE w == World
           b == Primary(p)
           n == Note(b)
           c == At(p)
<1>1. /\ TypeOK /\ Trusted /\ NothingSkipped(Tables) /\ Tidy(w) /\ Book(w, Current, Former, Seen)
      /\ p \in Paths /\ w.inode = dir /\ On(w, p) /\ w.at[p] = c /\ HeadAt(w, p) = HeadOf(c)
      /\ c \in Content /\ c.from \in Nat /\ c.size \in Nat /\ c.size > 0 /\ HeadOf(c) # NoHead
      /\ l \in Line /\ l \in Nat /\ c.from < l /\ l <= c.from + c.size /\ l \in OnDiskLines
      /\ ComputeFingerprints(p).uhead = HeadOf(c) /\ w \in WorldType
  BY OnPath, FillParts
<1>2. ASSUME NEW x \in KnownRows, x.uhead = HeadOf(c), x.uoff >= c.size PROVE l \in Tables \/ BeforeTarget(l)
  BY <1>1, <1>2, TellsAll
<1>3. b # NoRow => /\ b \in KnownRows /\ n \in Current \cup Former /\ n.inode = b.inode /\ n.head = b.uhead
                   /\ b.uoff \in Nat /\ b.usize \in Nat /\ b.csize \in Nat /\ Ended(b) /\ n \in NoteType
                   /\ n.size = PreviousSize(p, b)
                   /\ (IsCompressed(p) => IsCompressed(b.path))
  <2> SUFFICES ASSUME b # NoRow
               PROVE  /\ b \in KnownRows /\ n \in Current \cup Former /\ n.inode = b.inode /\ n.head = b.uhead
                      /\ b.uoff \in Nat /\ b.usize \in Nat /\ b.csize \in Nat /\ Ended(b) /\ n \in NoteType
                      /\ n.size = PreviousSize(p, b)
                      /\ (IsCompressed(p) => IsCompressed(b.path))
    OBVIOUS
  <2>1. b \in KnownRows
    BY <1>1, PrimaryIs
  <2>2. /\ n \in Current \cup Former /\ n.inode = b.inode /\ n.head = b.uhead /\ n \in NoteType
        /\ b.uoff \in Nat /\ b.usize \in Nat /\ b.csize \in Nat /\ Ended(b)
        /\ (b.path = Packed => n.size = b.csize) /\ (b.path # Packed => n.size = b.usize)
    BY <1>1, <2>1, KnownRowsAre
  <2>3. b.path # p => p = Rotated /\ b.path = Live
    BY PrimaryPath
  <2>4. n.size = PreviousSize(p, b) /\ (IsCompressed(p) => IsCompressed(b.path))
    BY <1>1, <2>2, <2>3, ThreePaths DEF PreviousSize, IsCompressed
  <2> QED BY <2>1, <2>2, <2>4
<1>4. ASSUME b # NoRow, b.inode = dir[p], PreviousSize(p, b) = c.size PROVE b.uhead = HeadOf(c)
  <2>1. WellMade(w, n) /\ Sized(w, n, p)
    BY <1>1, <1>3, <1>4, BookParts
  <2> HIDE DEF w, n, b, c
  <2>2. n.head # NoHead
    BY <1>1, <1>3, <1>4, <2>1 DEF WellMade
  <2>3. n.head = HeadAt(w, p)
    BY <1>1, <1>3, <1>4, <2>1, <2>2 DEF Sized
  <2> QED BY <1>1, <1>3, <1>4, <2>3
<1>5. ASSUME b # NoRow, b.completed, PreviousSize(p, b) = c.size PROVE b.uoff >= c.size
  <2>1. CASE IsCompressed(p)
    <3>1. b.csize = c.size /\ b.uoff >= b.usize /\ b.usize >= b.csize
      BY <1>3, <1>5, <2>1 DEF PreviousSize, Ended
    <3> QED BY <1>1, <1>3, <1>5, <3>1
  <2>2. CASE ~IsCompressed(p)
    BY <1>3, <1>5, <2>2 DEF PreviousSize, Ended
  <2> QED BY <2>1, <2>2
<1>6. b.completed => b # NoRow
  <2>1. ~NoRow.completed
    BY DEF NoRow
  <2> QED BY <2>1
<1>7. CASE MetadataExactMatch(p)
  <2>1. b.completed /\ b.inode = dir[p] /\ PreviousSize(p, b) = c.size
    BY <1>7 DEF MetadataExactMatch
  <2> QED BY <1>2, <1>3, <1>4, <1>5, <1>6, <2>1
<1>8. CASE CompressedMatch(p)
  <2>1. b.completed /\ b.inode = dir[p] /\ PreviousSize(p, b) = c.size
    BY <1>8 DEF CompressedMatch, PreviousSize
  <2> QED BY <1>2, <1>3, <1>4, <1>5, <1>6, <2>1
<1>9. CASE IsSameFile(p)
  <2>1. b.completed /\ b.uhead = HeadOf(c) /\ PreviousSize(p, b) = c.size
    BY <1>1, <1>9 DEF IsSameFile, PreviousSize
  <2> QED BY <1>2, <1>3, <1>5, <1>6, <2>1
<1>10. CASE IsDuplicate(p)
  <2>1. p = Rotated /\ ~IsCompressed(p)
    BY <1>10, DuplicateIs, ThreePaths DEF IsCompressed
  <2>2. ComputeFingerprints(p).usize = c.size
    BY <2>1, OnPath
  <2>3. PICK x \in KnownRows : x.completed /\ x.uhead = HeadOf(c) /\ x.usize = c.size
    BY <1>1, <1>10, <2>1, <2>2 DEF IsDuplicate, Duplicates
  <2>4. x.uoff >= c.size
    BY <1>1, <2>3, KnownRowsAre DEF Ended
  <2> QED BY <1>2, <2>3, <2>4
<1>11. CASE p \in OrderSkip
  <2>1. PICK q \in Pending : Precedes(p, q) /\ FirstTs(q) \in 1..(lastLog - 1)
    BY <1>11 DEF OrderSkip
  <2>2. q \in OnDisk
    BY DEF Pending
  <2>3. At(q).from \in Nat /\ EndAt(w, p) <= At(q).from
    BY <1>1, <2>1, <2>2, FileOrder, OnPath
  <2>4. EndAt(w, p) = c.from + c.size
    BY <1>1, WorldIs
  <2>5. lastLog \in Nat
    BY <1>1, Constants DEF TypeOK, Lines0
  <2>6. FirstTs(q) = At(q).from + 1
    BY <2>1, <2>5 DEF FirstTs, NoTs
  <2> HIDE DEF w, c
  <2>7. l <= lastLog
    BY <1>1, <2>1, <2>3, <2>4, <2>5, <2>6
  <2> QED BY <1>1, <2>7 DEF NothingSkipped
<1>12. CASE ~MetadataExactMatch(p) /\ NeedsPlan(p) /\ p \notin OrderSkip
  <2>1. p \in Resolved
    BY <1>12 DEF Resolved, Pending
  <2>2. ResumeOffset(p) \in Nat
    BY OffsetFrom
  <2> SUFFICES ASSUME ~(c.from + ResumeOffset(p) < l) PROVE l \in Tables \/ BeforeTarget(l)
    BY <1>12, <2>1
  <2>3. l <= c.from + ResumeOffset(p) /\ ResumeOffset(p) # 0
    BY <1>1, <2>2
  <2>4. PICK x \in KnownRows : x.uhead = HeadOf(c) /\ ResumeOffset(p) <= x.uoff
    BY <2>3, OffsetFrom
  <2>5. x.uoff \in Nat
    BY <1>1, <2>4, KnownRowsAre
  <2>6. x.uoff >= ResumeOffset(p)
    BY <2>2, <2>4, <2>5
  <2> QED BY <2>2, <2>3, <2>4, <2>6, TellsAll
<1> QED BY <1>7, <1>8, <1>9, <1>10, <1>11, <1>12 DEF NeedsPlan

\* What a run plans to read is all that has not been counted, in the order it was written.
LEMMA RunReads ==
  ASSUME ResumeInv, CoverInv, FillInv, Untroubled, StartRun
  PROVE  /\ \A k \in DOMAIN todo' : file[todo'[k].inode].from <= written
         /\ \A l \in OnDiskLines :
              \/ l \in Tables \/ BeforeTarget(l)
              \/ \E j \in DOMAIN todo' :
                   /\ l \in RestOf(todo'[j])
                   /\ \A k \in DOMAIN todo' : l <= file[todo'[k].inode].from => j < k
<1>1. PICK work : /\ DOMAIN todo' = DOMAIN work
                  /\ \A k \in DOMAIN work :
                       /\ todo'[k] = PlanOf(work[k]) /\ work[k] \in Resolved /\ NeedsPlan(work[k])
                       /\ work[k] \in LookedUp /\ work[k] \in OnDisk /\ ~MetadataExactMatch(work[k])
                  /\ \A p \in Resolved : NeedsPlan(p) => \E k \in DOMAIN work : work[k] = p
                  /\ \A j, k \in DOMAIN work : j < k => Precedes(work[j], work[k])
                  /\ \A j, k \in DOMAIN work : j < k \/ j = k \/ k < j
  BY RunPlans
<1>2. ASSUME NEW k \in DOMAIN work
      PROVE  /\ todo'[k].inode = dir[work[k]] /\ todo'[k].uoff = ResumeOffset(work[k])
             /\ file[todo'[k].inode] = At(work[k]) /\ At(work[k]).from \in Nat /\ At(work[k]).size \in Nat
             /\ At(work[k]).from <= written /\ work[k] \in OnDisk
  <2>1. work[k] \in OnDisk /\ todo'[k] = PlanOf(work[k])
    BY <1>1
  <2>2. todo'[k].inode = dir[work[k]] /\ todo'[k].uoff = ResumeOffset(work[k])
    BY <2>1, PlanNote
  <2>3. At(work[k]) = file[dir[work[k]]] /\ At(work[k]).from \in Nat /\ At(work[k]).size \in Nat
        /\ work[k] \in Paths /\ dir[work[k]] # NoInode
    BY <2>1, OnPath
  <2>4. At(work[k]).from <= written
    <3>1. /\ written \in Nat
          /\ \A p \in Paths : dir[p] # NoInode => file[dir[p]].from \in Nat /\ file[dir[p]].size \in Nat
          /\ dir[Live] # NoInode /\ file[dir[Live]].from + file[dir[Live]].size = written
          /\ dir[Rotated] # NoInode =>
               file[dir[Rotated]].from + file[dir[Rotated]].size = file[dir[Live]].from
          /\ dir[Packed] # NoInode => file[dir[Packed]].from + file[dir[Packed]].size = Edge(World)
          /\ Edge(World) = IF dir[Rotated] # NoInode THEN file[dir[Rotated]].from ELSE file[dir[Live]].from
      BY DiskInOrder
    <3>2. file[dir[work[k]]].from <= written
      BY <2>3, <3>1, ThreePaths
    <3> QED BY <2>3, <3>2
  <2> QED BY <2>1, <2>2, <2>3, <2>4
<1>3. ASSUME NEW l \in OnDiskLines, l \notin Tables, ~BeforeTarget(l)
      PROVE  \E j \in DOMAIN todo' :
               /\ l \in RestOf(todo'[j])
               /\ \A k \in DOMAIN todo' : l <= file[todo'[k].inode].from => j < k
  <2>1. PICK p \in OnDisk : l \in AllLines(At(p))
    BY DEF OnDiskLines
  <2>2. p \in Resolved /\ NeedsPlan(p) /\ At(p).from + ResumeOffset(p) < l
    BY <1>3, <2>1, RunAccounts
  <2>3. PICK j \in DOMAIN work : work[j] = p
    BY <1>1, <2>2
  <2>4. l \in Line /\ l \in Nat /\ At(p).from < l /\ l <= At(p).from + At(p).size /\ At(p).from \in Nat
        /\ TypeOK /\ Tidy(World)
    BY <2>1, OnPath
  <2>5. l \in RestOf(todo'[j])
    BY <1>2, <2>2, <2>3, <2>4 DEF RestOf, LinesOf
  <2>6. ASSUME NEW k \in DOMAIN work, l <= At(work[k]).from PROVE j < k
    <3>1. At(p).from < At(work[k]).from /\ At(work[k]).from \in Nat /\ work[k] \in OnDisk
      BY <1>2, <2>4, <2>6
    <3>2. ~Precedes(work[k], p)
      <4> SUFFICES ASSUME Precedes(work[k], p) PROVE FALSE
        OBVIOUS
      <4>1. At(work[k]).from < At(p).from
        BY <2>1, <2>4, <3>1, FileOrder
      <4> QED BY <2>4, <3>1, <4>1
    <3>3. j # k
      BY <2>3, <2>4, <3>1
    <3> QED BY <1>1, <2>3, <3>2, <3>3
  <2> QED BY <1>1, <1>2, <2>3, <2>5, <2>6
<1> QED BY <1>1, <1>2, <1>3

LEMMA StartRunFills ==
  ASSUME ResumeInv, CoverInv, FillInv, Untroubled, StartRun
  PROVE  FillInv'
<1>1. /\ TypeOK /\ Idle /\ Done /\ Trusted /\ Apart /\ NothingSkipped(Tables) /\ Book(World, Current, Former, Seen)
  BY CoverParts, FillParts DEF ResumeInv
<1>2. /\ UNCHANGED fsVars /\ UNCHANGED dbVars /\ active = NoFile /\ active' = NoFile /\ acc' = acc /\ acc = NoCount
      /\ targets' = targets /\ due' = OnDiskLines
  BY <1>1 DEF StartRun, Idle, Done, OnDiskLines
<1>3. /\ file' = file /\ written' = written /\ count' = count /\ lastLog' = lastLog /\ dir' = dir /\ glob' = glob
      /\ parseState' = parseState /\ archive' = archive
  BY <1>2 DEF fsVars, dbVars
<1>4. /\ \A l : BeforeTarget(l)' = BeforeTarget(l)
      /\ \A r, T : Told(r, T)' <=> Told(r, T)
      /\ \A r : SkipsTargets(r)' <=> SkipsTargets(r)
  <2>1. \A l : BeforeTarget(l)' = BeforeTarget(l)
    BY <1>2 DEF BeforeTarget
  <2> QED BY <1>2, <2>1 DEF Told, SkipsTargets
<1>5. OnDiskLines' = OnDiskLines
  BY <1>2, OnDiskAre DEF fsVars
<1>6. Tables' = Tables /\ WithAcc' = Tables
  <2>1. \A l \in Line : acc[l] = 0 /\ count[l] \in Nat
    BY <1>1, <1>2 DEF NoCount, TypeOK
  <2>2. \A l \in Line : count[l] + acc[l] = count[l]
    BY <2>1
  <2> QED BY <1>2, <1>3, <2>2 DEF Tables, WithAcc
<1>7. RowsInHand' = Range(todo') \cup Range(pending')
  BY <1>2 DEF RowsInHand
<1>8. ASSUME NEW r \in Range(todo')
      PROVE  \E q \in LookedUp : r = PlanOf(q)
  <2>1. PICK work : /\ DOMAIN todo' = DOMAIN work
                    /\ \A k \in DOMAIN work : todo'[k] = PlanOf(work[k]) /\ work[k] \in LookedUp
    BY RunPlans
  <2> QED BY <1>8, <2>1 DEF Range
<1>9. ASSUME NEW r \in Range(pending') PROVE Rotated \in LookedUp /\ r \in SkippedUpdate(Rotated)
  <2>1. pending' = <<>> => Range(pending') = {}
    BY DEF Range
  <2>2. \A x : pending' = <<x>> => Range(pending') = {x}
    BY DEF Range
  <2> QED BY <1>9, <2>1, <2>2, RunStores
<1>10. ASSUME NEW r \in RowsInHand'
       PROVE  \E q \in LookedUp : r.path = q /\ r.inode = dir[q] /\ Told(ToStore(r)', Tables)
  BY <1>7, <1>8, <1>9, PlanTells, UpdateTells
<1>11. Promised'
  <2>1. \A r \in RowsInHand' : Told(ToStore(r), WithAcc)'
    BY <1>4, <1>6, <1>10 DEF Told
  <2>2. \A r \in Range(pending') : Ended(r) /\ SkipsTargets(r)
    BY <1>9, UpdateTells
  <2>3. \A r \in Range(todo') : SkipsTargets(r) /\ r.latest = NoTs
    BY <1>8, PlanTells
  <2> QED BY <1>2, <1>4, <2>1, <2>2, <2>3 DEF Promised
<1>12. Trusted'
  BY <1>1, <1>3, <1>4, <1>6 DEF Trusted
<1>13. Apart'
  <2>1. ASSUME NEW r \in RowsInHand', NEW s \in archive \cup retired', r.path = s.path, r.inode = s.inode, r.path # Live
        PROVE  FALSE
    <3>1. PICK q \in LookedUp : r.path = q /\ r.inode = dir[q]
      BY <1>10
    <3>2. q \in OnDisk /\ On(World, q) /\ World.inode = dir /\ q \in Paths
      BY OnPath DEF LookedUp
    <3>3. retired' \subseteq KnownRows
      BY RetiredRows DEF KnownRows
    <3>4. Note(s).path = q /\ Note(s).inode = World.inode[q]
      <4>1. s \in KnownRows
        BY <3>3 DEF KnownRows
      <4> QED BY <1>1, <2>1, <3>1, <3>2, <4>1, KnownRowsAre
    <3>5. CASE s \in archive
      <4>1. Note(s) \in Former
        BY <3>5 DEF Former, Notes
      <4> QED BY <1>1, <2>1, <3>1, <3>2, <3>4, <4>1, BookParts, ThreePaths DEF RotatedRows, PackedRows
    <3>6. CASE s \in retired'
      <4>1. Note(s) \in Notes(retired')
        BY <3>6 DEF Notes
      <4> QED BY <2>1, <3>1, <3>4, <4>1, RetiredRows
    <3> QED BY <3>5, <3>6
  <2> QED BY <1>1, <1>3, <2>1 DEF Apart
<1>14. NothingSkipped(Tables)' /\ NothingSkipped(WithAcc)'
  BY <1>1, <1>3, <1>4, <1>5, <1>6 DEF NothingSkipped
<1>15. ReadInTurn'
  <2>1. \A r : RestOf(r)' = RestOf(r)
    BY <1>3 DEF RestOf
  <2>2. \A k \in DOMAIN todo' : \A l \in OnDiskLines :
          l <= file[todo'[k].inode].from =>
            l \in Tables \/ BeforeTarget(l) \/ \E j \in DOMAIN todo' : j < k /\ l \in RestOf(todo'[j])
    BY RunReads
  <2>3. \A k \in DOMAIN todo' : file[todo'[k].inode].from <= written
    BY RunReads
  <2> QED BY <1>2, <1>3, <1>4, <1>5, <1>6, <2>1, <2>2, <2>3 DEF ReadInTurn
<1>16. StillDue'
  <2>1. \A r : RestOf(r)' = RestOf(r)
    BY <1>3 DEF RestOf
  <2> QED BY <1>2, <1>4, <1>6, <2>1, RunReads DEF StillDue
<1> QED BY <1>11, <1>12, <1>13, <1>14, <1>15, <1>16 DEF FillInv

-----------------------------------------------------------------------------
(* Nothing is missed. *)

LEMMA FillInit == Init => FillInv
<1> SUFFICES ASSUME Init PROVE FillInv
  OBVIOUS
<1>1. /\ parseState = {} /\ archive = {} /\ retired = {} /\ pending = <<>> /\ todo = <<>> /\ active = NoFile
      /\ count = NoCount /\ acc = NoCount /\ lastLog = 0 /\ due = {} /\ file = [i \in Inodes |-> Empty(0)]
      /\ dir = [p \in Paths |-> IF p = Live THEN 1 ELSE NoInode]
  BY DEF Init
<1>2. DOMAIN todo = {} /\ Range(todo) = {} /\ Range(pending) = {}
  BY <1>1 DEF Range
<1>3. RowsInHand = {}
  BY <1>1, <1>2 DEF RowsInHand
<1>4. Tables = {} /\ WithAcc = {}
  BY <1>1 DEF Tables, WithAcc, NoCount
<1>5. \A l \in OnDiskLines : ~(l <= lastLog)
  <2>1. \A l \in OnDiskLines : l \in Line
    BY DEF OnDiskLines, AllLines, LinesOf
  <2>2. MaxLines \in Nat
    BY Constants
  <2>3. \A l \in Line : ~(l <= 0)
    BY <2>2 DEF Line
  <2> QED BY <1>1, <2>1, <2>3
<1>6. Trusted /\ Promised /\ Apart
  BY <1>1, <1>2, <1>3 DEF Trusted, Promised, Apart
<1>7. NothingSkipped(Tables) /\ NothingSkipped(WithAcc)
  BY <1>4, <1>5 DEF NothingSkipped
<1>8. ReadInTurn /\ StillDue
  BY <1>1, <1>2 DEF ReadInTurn, StillDue
<1> QED BY <1>6, <1>7, <1>8 DEF FillInv

LEMMA FillStays ==
  ASSUME FillInv, UNCHANGED vars
  PROVE  FillInv'
<1>1. UNCHANGED fsVars /\ UNCHANGED dbVars /\ UNCHANGED runVars /\ UNCHANGED histVars
  BY DEF vars
<1>2. /\ UNCHANGED <<dbVars, runVars, targets>> /\ due' = due /\ file' = file /\ written' = written /\ dir' = dir
      /\ glob' = glob /\ todo' = todo /\ active' = active /\ lastLog' = lastLog
  BY <1>1 DEF fsVars, dbVars, runVars, histVars
<1>3. /\ Tables' = Tables /\ WithAcc' = WithAcc /\ \A l : BeforeTarget(l)' = BeforeTarget(l)
      /\ Trusted' /\ Promised' /\ Apart'
  BY <1>2, FillParts, RowsStay
<1>4. OnDiskLines' = OnDiskLines
  BY <1>2, OnDiskAre
<1>5. RestOfActive' = RestOfActive /\ \A r : RestOf(r)' = RestOf(r)
  BY <1>2 DEF RestOfActive, RestOf
<1>6. NothingSkipped(Tables)' /\ NothingSkipped(WithAcc)'
  BY <1>2, <1>3, <1>4, FillParts DEF NothingSkipped
<1>7. ReadInTurn' /\ StillDue'
  BY <1>2, <1>3, <1>4, <1>5, FillParts DEF ReadInTurn, StillDue
<1> QED BY <1>3, <1>6, <1>7 DEF FillInv

LEMMA FillNext == Untroubled /\ ResumeInv /\ CoverInv /\ FillInv /\ [Next]_vars => FillInv'
<1> SUFFICES ASSUME Untroubled, ResumeInv, CoverInv, FillInv, [Next]_vars PROVE FillInv'
  OBVIOUS
<1>1. CASE UNCHANGED vars
  BY <1>1, FillStays
<1>2. CASE WriteLine
  BY <1>2, WriteLineFills
<1>3. CASE Rename
  BY <1>3, RenameFills
<1>4. CASE CopyTruncate
  BY <1>4, CopyTruncateFills
<1>5. CASE PackNew
  BY <1>5, PackNewFills
<1>6. CASE PackMember
  BY <1>6, PackMemberFills
<1>7. CASE StartRun
  BY <1>7, StartRunFills
<1>8. CASE OpenFile
  BY <1>8, OpenFileFills
<1>9. CASE FileDone
  BY <1>9, FileDoneFills
<1>10. CASE Checkpoint
  BY <1>10, CheckpointFills
<1>11. CASE EndRun
  BY <1>11, EndRunFills
<1>12. CASE AbortRun
  <2>1. Stop /\ UNCHANGED fsVars /\ UNCHANGED dbVars /\ UNCHANGED targets
    BY <1>12 DEF AbortRun
  <2> QED BY <2>1, StopFills
<1>13. CASE Crash
  <2>1. Stop /\ UNCHANGED fsVars /\ UNCHANGED dbVars /\ UNCHANGED targets
    BY <1>13 DEF Crash
  <2> QED BY <2>1, StopFills
<1>14. ASSUME NEW t \in Targets, Rollback(t) PROVE FillInv'
  BY <1>14, RollbackFills
<1> QED BY <1>1, <1>2, <1>3, <1>4, <1>5, <1>6, <1>7, <1>8, <1>9, <1>10, <1>11, <1>12, <1>13, <1>14 DEF Next

LEMMA FillCounts == ResumeInv /\ CoverInv /\ FillInv => NothingMissed
<1> SUFFICES ASSUME ResumeInv, CoverInv, FillInv, pc = "idle", NEW l \in due PROVE count[l] > 0 \/ BeforeTarget(l)
  BY DEF NothingMissed
<1>1. todo = <<>> /\ active = NoFile /\ acc = NoCount
  BY CoverParts DEF ResumeInv, Idle, Done
<1>2. l \in WithAcc \/ BeforeTarget(l)
  <2>1. DOMAIN todo = {} /\ RestOfActive = {}
    BY <1>1 DEF RestOfActive
  <2> QED BY <2>1, FillParts DEF StillDue
<1>3. l \in Line => count[l] \in Nat /\ acc[l] = 0
  BY <1>1 DEF ResumeInv, TypeOK, NoCount
<1> QED BY <1>2, <1>3 DEF WithAcc

\* Only the beginning of a run begins one.
LEMMA BegunByStart ==
  ASSUME [Next]_vars, pc = "idle", pc' = "run"
  PROVE  StartRun
<1>1. pc' # pc
  OBVIOUS
<1>2. ~UNCHANGED vars /\ ~UNCHANGED runVars
  BY <1>1 DEF vars, runVars
<1>3. ~WriteLine /\ ~(\E t \in Targets : Rollback(t))
  BY <1>2 DEF WriteLine, Rollback
<1>4. ~Rename /\ ~CopyTruncate /\ ~PackNew /\ ~PackMember
  BY <1>2 DEF Rename, CopyTruncate, PackNew, PackMember
<1>5. ~OpenFile /\ ~FileDone /\ ~Checkpoint /\ ~EndRun
  BY <1>1 DEF OpenFile, FileDone, Checkpoint, EndRun
<1>6. ~AbortRun /\ ~Crash
  BY <1>1 DEF AbortRun, Crash, Stop
<1> QED BY <1>2, <1>3, <1>4, <1>5, <1>6 DEF Next

LEMMA StartsWhereLeftOff ==
  ASSUME ResumeInv, CoverInv, FillInv, Untroubled, StartRun, NEW k \in DOMAIN todo'
  PROVE  LET c == file[dir[todo'[k].path]]
         IN \A l \in AllLines(c) :
              BeforeTarget(l) \/ (count[l] > 0 <=> l <= c.from + todo'[k].uoff)
<1>1. PICK work : /\ DOMAIN todo' = DOMAIN work
                  /\ \A i \in DOMAIN work :
                       /\ todo'[i] = PlanOf(work[i]) /\ NeedsPlan(work[i])
                       /\ work[i] \in OnDisk /\ ~MetadataExactMatch(work[i])
  BY RunPlans
<1> DEFINE q == work[k]
           c == At(q)
<1>2. q \in OnDisk /\ NeedsPlan(q) /\ ~MetadataExactMatch(q) /\ todo'[k] = PlanOf(q)
  BY <1>1
<1>3. todo'[k].path = q /\ todo'[k].uoff = ResumeOffset(q) /\ ResumeOffset(q) \in Nat
  BY <1>2, PlanNote, OffsetFrom
<1>4. /\ TypeOK /\ World.at[q] = c /\ c.from \in Nat /\ c = file[dir[q]]
      /\ \A l \in AllLines(c) : l \in Nat /\ l \in Line
  BY <1>2, OnPath
<1> HIDE DEF q, c
<1> SUFFICES ASSUME NEW l \in AllLines(c), ~BeforeTarget(l)
             PROVE  count[l] > 0 <=> l <= c.from + ResumeOffset(q)
  BY <1>3, <1>4
<1>5. ASSUME count[l] > 0 PROVE l <= c.from + ResumeOffset(q)
  <2>1. l \in SeenOf(c, Seen)
    BY <1>4, <1>5 DEF Seen, SeenOf
  <2>2. Within(c, ResumeOffset(q), Seen)
    BY <1>2, <1>4, PlanCovers
  <2> QED BY <2>1, <2>2 DEF Within
<1>6. ASSUME l <= c.from + ResumeOffset(q) PROVE count[l] > 0
  <2>1. ~(c.from + ResumeOffset(q) < l)
    BY <1>3, <1>4, <1>6
  <2>2. l \in Tables
    BY <1>2, <2>1, RunAccounts DEF c
  <2> QED BY <2>2 DEF Tables
<1> QED BY <1>5, <1>6

LEMMA FillInvariant == Spec => [](Untroubled => ResumeInv /\ CoverInv /\ FillInv)
<1> DEFINE Inv == Untroubled => CoverInv /\ FillInv
<1>1. Init => Inv
  BY CoverInit, FillInit
<1>2. ResumeInv /\ Inv /\ [Next]_vars => Inv'
  BY CoverNext, FillNext
<1>3. ResumeInv /\ Inv => (Untroubled => ResumeInv /\ CoverInv /\ FillInv)
  OBVIOUS
<1> HIDE DEF Inv
<1> QED BY <1>1, <1>2, <1>3, ResumeInvariant, PTL DEF Spec

\* When a run has ended that nobody disturbed, every line that was on disk when it began
\* has been counted, unless it is older than a month that was rolled back to: whichever
\* files it skipped, took for others, read from where a row said, or read again.
THEOREM EverythingOnDiskCounted == Spec => [](Untroubled => NothingMissed)
<1>1. (Untroubled => ResumeInv /\ CoverInv /\ FillInv) => (Untroubled => NothingMissed)
  BY FillCounts
<1> QED BY <1>1, FillInvariant, PTL

\* A file is read from where it was left off: each line before the offset a run begins
\* to read it from has been counted, and none after it.
THEOREM EachFileReadOn == Spec => (Untroubled => ResumedWhereLeftOff)
<1> SUFFICES ASSUME Untroubled PROVE Spec => ResumedWhereLeftOff
  OBVIOUS
<1> DEFINE A == pc = "idle" /\ pc' = "run" =>
                  \A k \in DOMAIN todo' :
                    LET c == file[dir[todo'[k].path]]
                    IN \A l \in AllLines(c) :
                         BeforeTarget(l) \/ (count[l] > 0 <=> l <= c.from + todo'[k].uoff)
<1>1. (Untroubled => ResumeInv /\ CoverInv /\ FillInv) /\ [Next]_vars => A
  BY BegunByStart, StartsWhereLeftOff
<1>2. ResumedWhereLeftOff <=> [][A]_vars
  BY DEF ResumedWhereLeftOff
<1> HIDE DEF A
<1> QED BY <1>1, <1>2, FillInvariant, PTL DEF Spec

===============================================================================
