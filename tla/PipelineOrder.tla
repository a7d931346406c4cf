--------------------------- MODULE PipelineOrder ---------------------------
(***************************************************************************)
(* The inductive invariant behind ClosedMonthsStayClosed and               *)
(* SkippedAreDone, for logs that are written one after the other: a file   *)
(* that is followed by one that was read has no entry left to be counted.  *)
(***************************************************************************)
EXTENDS PipelineCover

\* The entries of the files, read in turn, are in the order of time.
Chronological(files) ==
  \A f, g \in File : \A i \in 1..Len(files[f]), j \in 1..Len(files[g]) :
    /\ files[f][i] # Dropped /\ files[g][j] # Dropped
    /\ f < g \/ (f = g /\ i < j)
    => files[f][i] <= files[g][j]

\* Rotated logs: the web server writes entries to the last file only, though
\* the parser may come upon more lines that it drops in any of them.
LogsInTurn ==
  /\ \A s, t \in Stamps : s <= t => MonthOf[s] <= MonthOf[t]
  /\ \A files \in Logs : Chronological(files)
  /\ \A a \in Appendable : a[2] # Dropped => a[1] = NFiles

\* Entries that wait in the accumulators are all there is between the offset
\* in the database and the position of the aggregator.
FreshInv ==
  \A f \in File : \A i \in 1..Reached(f) :
    stored[f].offset < i /\ log[f][i] # Dropped => acc[f][i] > 0

\* No entry of f lies behind offset n.
Exhausted(lines, n) == \A i \in 1..Len(lines) : lines[i] # Dropped => i <= n
NoneBehind(f, n) == Exhausted(log[f], n)

\* The files between f and the next one in the stream are exhausted, and so is
\* a file that is done, unless it is the one that grows.
NoneSkipped(f, m) ==
  /\ m.kind = "start" =>
       \A g \in File : f < g /\ g < m.file => NoneBehind(g, plan[g].offset)
  /\ m.kind = "fdone" /\ m.file < NFiles => NoneBehind(m.file, m.off)

InTurn(ch, f) ==
  /\ ch # <<>> => NoneSkipped(f, ch[1])
  /\ \A k \in 1..(Len(ch) - 1) : NoneSkipped(ch[k].file, ch[k + 1])

LoaderInTurn ==
  /\ mode = "running" =>
       \A g \in File \ todo : loader.file < g /\ g < NFiles => NoneBehind(g, plan[g].offset)
  /\ loader.open /\ loader.eof /\ loader.file < NFiles => NoneBehind(loader.file, loader.pos)

StreamInv == LoaderInTurn /\ InTurn(toParser, parser.file) /\ InTurn(toAgg, agg.file)

\* The aggregator is done with the files before the one it is at.
PassedInv ==
  mode = "running" =>
    \A f \in File :
      f < NFiles /\ (f < agg.file \/ (f = agg.file /\ ~agg.active)) =>
        NoneBehind(f, NextOffset(f))

\* Every file before one with a row is exhausted.
RowsInv ==
  \A f, g \in File :
    f < g /\ stored[g].known =>
      NoneBehind(f, stored[f].offset) /\ NoneBehind(f, Reached(f))

\* No row says that file g, or a later one, has been read.
NoRowFrom(g) == \A h \in File : g <= h => ~stored[h].known

NotReadFrom(g) ==
  NoRowFrom(g) /\ \A h \in File : g <= h => ~pending[h].known /\ ~(agg.active /\ agg.file = h)

\* The greatest time stamps are not past an entry of a file that was not read.
SeenInv ==
  /\ \A g \in File : \A i \in 1..Len(log[g]) :
       log[g][i] # Dropped =>
         /\ NoRowFrom(g) => lastLog <= log[g][i] /\ dbSeen <= log[g][i]
         /\ NotReadFrom(g) => seen <= log[g][i]
  /\ agg.pc \in {"ts_checkpoint", "ts_month", "ts_final"} =>
       /\ pending = NoPending
       /\ agg.active => stored[agg.file].known

\* Still to be added to the tables.
Open(f, i) == log[f][i] # Dropped /\ (Reached(f) < i \/ acc[f][i] > 0)

\* A month is closed for an entry that lies in another one.
BoundaryAhead ==
  agg.pc \in {"ts_month", "finalize", "advance"} =>
    \E i \in 1..MaxLines : NextEntry(i) /\ EntryMonth(i) # month

\* A month is over when it is finalized, and the current one is not past an
\* entry to come.
MonthsOver ==
  /\ \A f \in File : \A i \in 1..Len(log[f]) : Open(f, i) =>
       /\ \A m \in complete : m < MonthOf[log[f][i]]
       /\ dbMonth <= MonthOf[log[f][i]] /\ month <= MonthOf[log[f][i]]
  /\ BoundaryAhead

\* A later entry proves it.
Seen(m) ==
  \E f \in File : \E i \in 1..Len(log[f]) :
    log[f][i] # Dropped /\ m <= MonthOf[log[f][i]]

MonthsSeen ==
  /\ \A m \in complete : Seen(m + 1)
  /\ dbMonth # NoMonth => Seen(dbMonth)
  /\ month # NoMonth => Seen(month)

\* A skipped file had no more lines than this run was planned with, and those
\* are counted unless a fault has lost some.
SkippedInv ==
  /\ \A f \in File : plan[f].size <= Len(log[f])
  /\ faults = 0 \/ Lockstep => SkippedAreDone

\* The inductive invariant of logs in turn.
OrderInv ==
  /\ Chronological(log)
  /\ \E i \in 1..Len(log[NFiles]) : log[NFiles][i] # Dropped
  /\ StreamInv /\ PassedInv /\ RowsInv /\ SeenInv
  /\ MonthsOver /\ MonthsSeen /\ SkippedInv

\* All invariants of the proofs, as the runs check them.
RunsInv == IInv /\ FullInv /\ FreshInv /\ (LogsInTurn => OrderInv)

=============================================================================
