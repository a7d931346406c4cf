------------------------------ MODULE ResumeFill ------------------------------
(***************************************************************************)
(* Why no line is missed: what ResumeCover needs besides, the other way    *)
(* round.  What a row says was read is counted, and what a run has still   *)
(* to read is in the plans it has in hand.                                 *)
(***************************************************************************)
EXTENDS ResumeCover

Tables  == {l \in Line : count[l] > 0}
WithAcc == {l \in Line : count[l] + acc[l] > 0}

-----------------------------------------------------------------------------
(* Rows. *)

\* The lines of the file that a row is about, up to its offset.
Behind(r) == IF r.uhead = NoHead THEN {}
             ELSE {l \in Line : r.uhead[1] < l /\ l <= r.uhead[1] + r.uoff}

\* They are counted, and a rollback that removes one of them finds the row.
Told(r, S) ==
  \A l \in Behind(r) :
    \/ BeforeTarget(l)
    \/ l \in S /\ (r.latest # NoTs \/ r.path = Live => l <= r.latest)

Ended(r) == r.completed => r.uoff >= r.usize /\ (IsCompressed(r.path) => r.usize >= r.csize)
SkipsTargets(r) == r.skip = NoTs \/ r.skip \in targets

Trusted == \A r \in parseState \cup archive : Told(r, Tables) /\ Ended(r) /\ SkipsTargets(r)

\* A row as the next commit would store it.
ToStore(r) == Merged(r, TheOnly(SameFilePath(Unretired, r)))

RowsInHand == Range(todo) \cup Range(pending) \cup (IF active = NoFile THEN {} ELSE {RowFor(active, FALSE)})

Promised ==
  /\ \A r \in RowsInHand : Told(ToStore(r), WithAcc)
  /\ \A r \in Range(pending) : Ended(r) /\ SkipsTargets(r)
  /\ \A r \in Range(todo) : SkipsTargets(r) /\ r.latest = NoTs
  /\ active # NoFile => SkipsTargets(active.plan)

\* Only rows of the live file are archived for a second time.
Apart ==
  /\ \A r \in parseState, s \in archive : r.path = s.path /\ r.inode = s.inode => r.path = Live
  /\ \A r \in RowsInHand, s \in archive \cup retired : r.path = s.path /\ r.inode = s.inode => r.path = Live

-----------------------------------------------------------------------------
(* Lines. *)

OnDiskLines == UNION {AllLines(At(p)) : p \in OnDisk}

RestOf(plan) == LET c == file[plan.inode] IN LinesOf(c, plan.uoff, c.size)
RestOfActive == IF active = NoFile THEN {}
                ELSE LET c == file[active.inode] IN LinesOf(c, active.at, c.size)

\* Whatever comes before a line that was counted.
NothingSkipped(S) ==
  \A m \in S \cup {lastLog}, l \in OnDiskLines : l <= m => l \in S \/ BeforeTarget(l)

\* What comes before a file is counted, or is read before it.
ReadInTurn ==
  /\ \A k \in DOMAIN todo : \A l \in OnDiskLines :
       l <= file[todo[k].inode].from =>
         \/ l \in WithAcc \/ BeforeTarget(l) \/ l \in RestOfActive
         \/ \E j \in DOMAIN todo : j < k /\ l \in RestOf(todo[j])
  /\ \A k \in DOMAIN todo : file[todo[k].inode].from <= written
  /\ active # NoFile =>
       /\ file[active.inode].from <= written
       /\ \A l \in OnDiskLines : l <= file[active.inode].from => l \in WithAcc \/ BeforeTarget(l)

StillDue ==
  \A l \in due :
    \/ l \in WithAcc \/ BeforeTarget(l) \/ l \in RestOfActive
    \/ \E k \in DOMAIN todo : l \in RestOf(todo[k])

FillInv ==
  /\ Trusted /\ Promised /\ Apart
  /\ NothingSkipped(Tables) /\ NothingSkipped(WithAcc)
  /\ ReadInTurn /\ StillDue
=============================================================================
