------------------------------- MODULE Months -------------------------------
(***************************************************************************)
(* What a month's end does to the visitor and response time tables.  While *)
(* a month lasts, flushes add to one row per day; finalize_month turns the *)
(* days into a snapshot and counts of the month, counts the year again and *)
(* deletes the days it read.  It is one of several commits that a crash    *)
(* may separate, and rollback undoes it.                                   *)
(*                                                                         *)
(* Data abstraction.  An entry is its date, its address, the one bucket a  *)
(* rule gave it and whether it carries a response time.  A bitmap is a set *)
(* of addresses, a histogram the number of samples of each day in it, an   *)
(* average or a percentile the number of samples it was taken from.  The   *)
(* tables of the whole site and of the buckets have the same columns: a    *)
(* scope names which.  Module Pipeline is why the entries may stand here   *)
(* in one sequence: they are read in order, and those a crash or a         *)
(* rollback takes away are read again.                                     *)
(***************************************************************************)
EXTENDS Integers, Sequences, FiniteSets

CONSTANTS
  Dates,        \* days, as numbers in calendar order
  MonthOf,      \* the month of each day
  YearOf,       \* the year of each month
  Addresses,    \* parsed addresses
  GroupOf,      \* <<ip_kind, ip_hi>> of an address: the bitmap row it is in
  Buckets,      \* names of buckets
  Logs,         \* what the logs may contain in the end
  MaxCrashes,   \* bound: crashes in a behaviour
  RollbackTo    \* months a user may roll back to

Site      == "site"
NoBucket  == "none"
NoAddress == "none"
NoMonth   == 0
NoRow     == -1

Scopes == {Site} \cup Buckets
Months == {MonthOf[d] : d \in Dates} \cup RollbackTo
Years  == {YearOf[m] : m \in Months}

DatesOf(m)  == {d \in Dates : MonthOf[d] = m}
MonthsOf(y) == {m \in Months : YearOf[m] = y}

Entry == [date : Dates, ip : Addresses \cup {NoAddress},
          bucket : Buckets \cup {NoBucket}, timed : BOOLEAN]

ASSUME CalendarAssumption ==
  /\ Dates \subseteq Nat \ {0} /\ IsFiniteSet(Dates)
  /\ RollbackTo \subseteq Nat \ {NoMonth} /\ IsFiniteSet(RollbackTo)
  /\ MonthOf \in [Dates -> Nat \ {NoMonth}]
  /\ YearOf \in [Months -> Nat]
  /\ \A d, e \in Dates : d <= e => MonthOf[d] <= MonthOf[e]
  /\ \A m, n \in Months : m <= n => YearOf[m] <= YearOf[n]

InCalendarOrder(l) == \A i, j \in 1..Len(l) : i < j => l[i].date <= l[j].date

ASSUME LogsAssumption ==
  /\ Site \notin Buckets /\ NoBucket \notin Buckets /\ NoAddress \notin Addresses
  /\ IsFiniteSet(Addresses) /\ IsFiniteSet(Buckets)
  /\ DOMAIN GroupOf = Addresses
  /\ \A l \in Logs : l \in Seq(Entry)
  /\ MaxCrashes \in Nat

-----------------------------------------------------------------------------
VARIABLES
  \* The database.
  daily,       \* daily_unique_ips, bucket_daily_unique_ips
  dayCount,    \* daily_visitor_counts, bucket_daily_visitor_counts
  monthly,     \* monthly_unique_ips, bucket_monthly_unique_ips
  monthCount,  \* unique_visitor_counts of months, bucket_unique_visitor_counts
  yearCount,   \* the same of years
  hist,        \* daily_response_time_histograms, bucket_daily_...
  dayTime,     \* daily_response_time_stats, bucket_daily_...
  monthTime,   \* samples of each day in monthly_response_time_histograms and
               \* bucket_response_time_histograms
  complete,    \* meta.month_M_complete
  dbMonth,     \* meta.current_month
  \* The run in progress.
  pc,          \* "idle", "read", "finalize" or "advance"
  month,       \* run_acc.current_month
  acc,         \* what the accumulators add to each day
  pos,         \* entries of `queue` that are in acc
  \* The log files and their resume offsets.
  log,         \* every entry
  queue,       \* the entries that are not committed, in order
  \* History.
  counted,     \* what the committed entries add up to
  crashes

visitorVars == <<daily, dayCount, monthly, monthCount, yearCount>>
timeVars    == <<hist, dayTime, monthTime>>
dbVars      == <<visitorVars, timeVars, complete, dbMonth, queue, counted>>
runVars     == <<pc, month, acc, pos>>
vars        == <<dbVars, runVars, log, crashes>>

\* What entries of one day add up to.
Day   == [hits : Nat, ips : SUBSET Addresses, timed : Nat]
NoDay == [hits |-> 0, ips |-> {}, timed |-> 0]
Plus(x, y) == [hits |-> x.hits + y.hits, ips |-> x.ips \cup y.ips, timed |-> x.timed + y.timed]

Nothing == [s \in Scopes |-> [d \in Dates |-> NoDay]]

Init ==
  /\ daily = [s \in Scopes |-> [d \in Dates |-> {}]]
  /\ dayCount = [s \in Scopes |-> [d \in Dates |-> NoRow]]
  /\ monthly = [s \in Scopes |-> [m \in Months |-> {}]]
  /\ monthCount = [s \in Scopes |-> [m \in Months |-> NoRow]]
  /\ yearCount = [s \in Scopes |-> [y \in Years |-> NoRow]]
  /\ hist = [s \in Scopes |-> [d \in Dates |-> 0]]
  /\ dayTime = [s \in Scopes |-> [d \in Dates |-> 0]]
  /\ monthTime = [s \in Scopes |-> [d \in Dates |-> 0]]
  /\ complete = {} /\ dbMonth = NoMonth
  /\ pc = "idle" /\ month = NoMonth /\ acc = Nothing /\ pos = 0
  /\ log \in Logs /\ queue = log
  /\ counted = Nothing /\ crashes = 0

-----------------------------------------------------------------------------
(* A run. *)

\* Mutant: the stored current month is not loaded.
StartRunForgetsMonth ==
  /\ pc = "idle"
  /\ pc' = "read" /\ month' = NoMonth
  /\ UNCHANGED <<dbVars, acc, pos, log, crashes>>

StartRun ==
  /\ pc = "idle"
  /\ pc' = "read" /\ month' = dbMonth
  /\ UNCHANGED <<dbVars, acc, pos, log, crashes>>

\* The next entry of the log; the web server may not have written it yet.
Upcoming == queue[pos + 1]

\* What an entry adds in a scope it belongs to.
Hit(e) == [hits |-> 1, ips |-> {e.ip} \ {NoAddress}, timed |-> IF e.timed THEN 1 ELSE 0]

AggregateEntry ==
  /\ pc = "read" /\ pos < Len(queue)
  /\ month \in {NoMonth, MonthOf[Upcoming.date]}
  /\ acc' = [s \in Scopes |-> IF s \in {Site, Upcoming.bucket}
                              THEN [acc[s] EXCEPT ![Upcoming.date] = Plus(@, Hit(Upcoming))]
                              ELSE acc[s]]
  /\ month' = MonthOf[Upcoming.date]
  /\ dbMonth' = IF month = NoMonth THEN MonthOf[Upcoming.date] ELSE dbMonth
  /\ pos' = pos + 1
  /\ UNCHANGED <<visitorVars, timeVars, complete, queue, counted, pc, log, crashes>>

\* Mutant: the days' bitmaps are written without merging what the row holds.
FlushReplacesDays ==
  /\ daily' = [s \in Scopes |-> [d \in Dates |->
                 IF acc[s][d].ips = {} THEN daily[s][d] ELSE acc[s][d].ips]]
  /\ hist' = [s \in Scopes |-> [d \in Dates |-> hist[s][d] + acc[s][d].timed]]
  /\ monthTime' = [s \in Scopes |-> [d \in Dates |->
                     IF s = Site THEN monthTime[s][d] ELSE monthTime[s][d] + acc[s][d].timed]]
  /\ counted' = [s \in Scopes |-> [d \in Dates |-> Plus(counted[s][d], acc[s][d])]]
  /\ acc' = Nothing
  /\ queue' = SubSeq(queue, pos + 1, Len(queue))
  /\ pos' = 0
  /\ UNCHANGED <<dayCount, monthly, monthCount, yearCount, dayTime, complete, dbMonth,
                 log, crashes>>

\* Mutant: the position in the log is not reset when the offset is stored.
FlushKeepsPosition ==
  /\ daily' = [s \in Scopes |-> [d \in Dates |-> daily[s][d] \cup acc[s][d].ips]]
  /\ hist' = [s \in Scopes |-> [d \in Dates |-> hist[s][d] + acc[s][d].timed]]
  /\ monthTime' = [s \in Scopes |-> [d \in Dates |->
                     IF s = Site THEN monthTime[s][d] ELSE monthTime[s][d] + acc[s][d].timed]]
  /\ counted' = [s \in Scopes |-> [d \in Dates |-> Plus(counted[s][d], acc[s][d])]]
  /\ acc' = Nothing
  /\ queue' = SubSeq(queue, pos + 1, Len(queue))
  /\ UNCHANGED <<dayCount, monthly, monthCount, yearCount, dayTime, complete, dbMonth,
                 pos, log, crashes>>

\* Database::flush: bitmaps and histograms of the days are read, merged and
\* written back.  The month's histogram of a bucket grows with every flush,
\* the site's is made by finalize_month.
Flush ==
  /\ daily' = [s \in Scopes |-> [d \in Dates |-> daily[s][d] \cup acc[s][d].ips]]
  /\ hist' = [s \in Scopes |-> [d \in Dates |-> hist[s][d] + acc[s][d].timed]]
  /\ monthTime' = [s \in Scopes |-> [d \in Dates |->
                     IF s = Site THEN monthTime[s][d] ELSE monthTime[s][d] + acc[s][d].timed]]
  /\ counted' = [s \in Scopes |-> [d \in Dates |-> Plus(counted[s][d], acc[s][d])]]
  /\ acc' = Nothing
  /\ queue' = SubSeq(queue, pos + 1, Len(queue))
  /\ pos' = 0
  /\ UNCHANGED <<dayCount, monthly, monthCount, yearCount, dayTime, complete, dbMonth,
                 log, crashes>>

\* An entry of another month: the old month is flushed first.
MonthBoundary ==
  /\ pc = "read" /\ pos < Len(queue)
  /\ month \notin {NoMonth, MonthOf[Upcoming.date]}
  /\ Flush
  /\ pc' = "finalize"
  /\ UNCHANGED month

Snapshot(s, m) == UNION {daily[s][d] : d \in DatesOf(m)}

\* Mutant: the month's rows are deleted before they are written.
ReplaceAll(old, new) == new

\* INSERT OR REPLACE of one bitmap per group; a group without addresses is
\* not written and keeps its row.
Replace(old, new) == {a \in old : \A b \in new : GroupOf[a] # GroupOf[b]} \cup new

\* Mutant: a month that was finalized before is not counted again.
FinalizedOnce(m) == IF m \in complete THEN {} ELSE Scopes

\* The site is finalized always, a bucket if it has days to read.
Finalized(m) == {Site} \cup {b \in Buckets : Snapshot(b, m) # {}}

\* Mutant: the daily rows are not deleted.
FinalizeKeepsDays(m) ==
  /\ monthly' = [s \in Scopes |-> [monthly[s] EXCEPT ![m] = Replace(@, Snapshot(s, m))]]
  /\ monthCount' = [s \in Scopes |->
       IF s \in Finalized(m) THEN [monthCount[s] EXCEPT ![m] = Cardinality(Snapshot(s, m))]
                             ELSE monthCount[s]]
  /\ yearCount' = [s \in Scopes |->
       IF s \in Finalized(m)
       THEN [yearCount[s] EXCEPT ![YearOf[m]] =
               Cardinality(UNION {monthly'[s][n] : n \in MonthsOf(YearOf[m])})]
       ELSE yearCount[s]]
  /\ dayCount' = [s \in Scopes |-> [d \in Dates |->
       IF MonthOf[d] = m /\ daily[s][d] # {} THEN Cardinality(daily[s][d]) ELSE dayCount[s][d]]]
  /\ UNCHANGED daily

\* Mutant: the year is counted before the month's snapshot is written.
YearCountedFirst(m) ==
  /\ monthly' = [s \in Scopes |-> [monthly[s] EXCEPT ![m] = Replace(@, Snapshot(s, m))]]
  /\ monthCount' = [s \in Scopes |->
       IF s \in Finalized(m) THEN [monthCount[s] EXCEPT ![m] = Cardinality(Snapshot(s, m))]
                             ELSE monthCount[s]]
  /\ yearCount' = [s \in Scopes |->
       IF s \in Finalized(m)
       THEN [yearCount[s] EXCEPT ![YearOf[m]] =
               Cardinality(UNION {monthly[s][n] : n \in MonthsOf(YearOf[m])})]
       ELSE yearCount[s]]
  /\ dayCount' = [s \in Scopes |-> [d \in Dates |->
       IF MonthOf[d] = m /\ daily[s][d] # {} THEN Cardinality(daily[s][d]) ELSE dayCount[s][d]]]
  /\ daily' = [s \in Scopes |-> [d \in Dates |-> IF MonthOf[d] = m THEN {} ELSE daily[s][d]]]

FinalizeVisitors(m) ==
  /\ monthly' = [s \in Scopes |-> [monthly[s] EXCEPT ![m] = Replace(@, Snapshot(s, m))]]
  /\ monthCount' = [s \in Scopes |->
       IF s \in Finalized(m) THEN [monthCount[s] EXCEPT ![m] = Cardinality(Snapshot(s, m))]
                             ELSE monthCount[s]]
  /\ yearCount' = [s \in Scopes |->
       IF s \in Finalized(m)
       THEN [yearCount[s] EXCEPT ![YearOf[m]] =
               Cardinality(UNION {monthly'[s][n] : n \in MonthsOf(YearOf[m])})]
       ELSE yearCount[s]]
  /\ dayCount' = [s \in Scopes |-> [d \in Dates |->
       IF MonthOf[d] = m /\ daily[s][d] # {} THEN Cardinality(daily[s][d]) ELSE dayCount[s][d]]]
  /\ daily' = [s \in Scopes |-> [d \in Dates |-> IF MonthOf[d] = m THEN {} ELSE daily[s][d]]]

HasSamples(s, m) == \E d \in DatesOf(m) : hist[s][d] > 0

\* Mutant: the month's histogram is written even if there is nothing to merge.
FinalizeTimesAlways(m) ==
  /\ dayTime' = [s \in Scopes |-> [d \in Dates |->
       IF MonthOf[d] = m /\ hist[s][d] > 0 THEN hist[s][d] ELSE dayTime[s][d]]]
  /\ monthTime' = [monthTime EXCEPT ![Site] = [d \in Dates |->
       IF MonthOf[d] = m THEN hist[Site][d] ELSE monthTime[Site][d]]]
  /\ hist' = [s \in Scopes |-> [d \in Dates |-> IF MonthOf[d] = m THEN 0 ELSE hist[s][d]]]

FinalizeTimes(m) ==
  /\ dayTime' = [s \in Scopes |-> [d \in Dates |->
       IF MonthOf[d] = m /\ hist[s][d] > 0 THEN hist[s][d] ELSE dayTime[s][d]]]
  /\ monthTime' = [monthTime EXCEPT ![Site] = [d \in Dates |->
       IF MonthOf[d] = m /\ HasSamples(Site, m) THEN hist[Site][d] ELSE monthTime[Site][d]]]
  /\ hist' = [s \in Scopes |-> [d \in Dates |-> IF MonthOf[d] = m THEN 0 ELSE hist[s][d]]]

\* finalize_month: one transaction.
FinalizeMonth ==
  /\ pc = "finalize"
  /\ FinalizeVisitors(month)
  /\ FinalizeTimes(month)
  /\ complete' = complete \cup {month}
  /\ pc' = "advance"
  /\ UNCHANGED <<dbMonth, queue, counted, month, acc, pos, log, crashes>>

\* set_meta current_month, and the accumulators of the new month.
AdvanceMonth ==
  /\ pc = "advance"
  /\ dbMonth' = MonthOf[Head(queue).date]
  /\ month' = MonthOf[Head(queue).date]
  /\ pc' = "read"
  /\ UNCHANGED <<visitorVars, timeVars, complete, queue, counted, acc, pos, log, crashes>>

Checkpoint == pc = "read" /\ Flush /\ UNCHANGED <<pc, month>>

\* The final flush of process_globs.
EndRun == pc = "read" /\ Flush /\ pc' = "idle" /\ month' = NoMonth

\* The process dies between two transactions, or a statement fails.
Crash ==
  /\ pc # "idle" /\ crashes < MaxCrashes
  /\ crashes' = crashes + 1
  /\ pc' = "idle" /\ month' = NoMonth /\ acc' = Nothing /\ pos' = 0
  /\ UNCHANGED <<dbVars, log>>

-----------------------------------------------------------------------------
(* webstat rollback, one transaction.  It resets the resume offsets of the *)
(* files that reach into the months it removes, and has older entries of   *)
(* those files skipped.                                                    *)

RollbackVisitors(t) ==
  LET Gone(d) == MonthOf[d] >= t
      kept == [s \in Scopes |-> [m \in Months |-> IF m >= t THEN {} ELSE monthly[s][m]]]
      left(s) == UNION {kept[s][m] : m \in MonthsOf(YearOf[t])}
  IN /\ daily' = [s \in Scopes |-> [d \in Dates |-> IF Gone(d) THEN {} ELSE daily[s][d]]]
     /\ dayCount' = [s \in Scopes |-> [d \in Dates |->
                       IF Gone(d) THEN NoRow ELSE dayCount[s][d]]]
     /\ monthly' = kept
     /\ monthCount' = [s \in Scopes |-> [m \in Months |->
                         IF m >= t THEN NoRow ELSE monthCount[s][m]]]
     /\ yearCount' = [s \in Scopes |-> [y \in Years |->
                        CASE y = YearOf[t] /\ left(s) # {} -> Cardinality(left(s))
                          [] y < YearOf[t] -> yearCount[s][y]
                          [] OTHER -> NoRow]]

RollbackTimes(t) ==
  LET Cut(table) == [s \in Scopes |-> [d \in Dates |->
                       IF MonthOf[d] >= t THEN 0 ELSE table[s][d]]]
  IN hist' = Cut(hist) /\ dayTime' = Cut(dayTime) /\ monthTime' = Cut(monthTime)

\* The entries of month t and later ones, which end an ordered log.
From(t) ==
  LET before == {i \in 1..Len(log) : MonthOf[log[i].date] < t}
  IN SubSeq(log, Cardinality(before) + 1, Len(log))

\* Mutant: current_month becomes the month before the target.
RollbackToMonthBefore(t) ==
  /\ pc = "idle"
  /\ RollbackVisitors(t)
  /\ RollbackTimes(t)
  /\ counted' = [s \in Scopes |-> [d \in Dates |->
                   IF MonthOf[d] >= t THEN NoDay ELSE counted[s][d]]]
  /\ complete' = {m \in complete : m < t}
  /\ dbMonth' = t - 1
  /\ queue' = From(t)
  /\ UNCHANGED <<runVars, log, crashes>>

Rollback(t) ==
  /\ pc = "idle"
  /\ RollbackVisitors(t)
  /\ RollbackTimes(t)
  /\ counted' = [s \in Scopes |-> [d \in Dates |->
                   IF MonthOf[d] >= t THEN NoDay ELSE counted[s][d]]]
  /\ complete' = {m \in complete : m < t}
  /\ dbMonth' = t
  /\ queue' = From(t)
  /\ UNCHANGED <<runVars, log, crashes>>

-----------------------------------------------------------------------------
Next ==
  \/ StartRun
  \/ AggregateEntry
  \/ MonthBoundary \/ FinalizeMonth \/ AdvanceMonth
  \/ Checkpoint \/ EndRun
  \/ Crash
  \* A month to roll back to is one that has begun.  Rolling back is modelled
  \* for logs in calendar order: entries of months before the target are then
  \* committed and need not be read again.
  \/ \E t \in RollbackTo : t <= dbMonth /\ InCalendarOrder(log) /\ Rollback(t)

Spec == Init /\ [][Next]_vars

-----------------------------------------------------------------------------
(* What the reports read. *)

\* monthly_visitor_count; bucket_visitor_count adds up the days instead, so
\* that it counts the pairs of a day and an address.
ShownMonth(s, m) ==
  IF monthCount[s][m] # NoRow THEN monthCount[s][m]
  ELSE IF s = Site THEN Cardinality(Snapshot(s, m))
  ELSE Cardinality(UNION {{d} \X daily[s][d] : d \in DatesOf(m)})

Cached(s, d) == IF dayCount[s][d] = NoRow THEN 0 ELSE dayCount[s][d]

\* daily_stats prefers the live row, bucket_daily_stats adds the two.
ShownDay(s, d) ==
  IF s # Site THEN Cached(s, d) + Cardinality(daily[s][d])
  ELSE IF daily[s][d] # {} THEN Cardinality(daily[s][d])
  ELSE Cached(s, d)

\* all_time_visitor_count
AllTime ==
  (UNION {monthly[Site][m] : m \in Months}) \cup (UNION {daily[Site][d] : d \in Dates})

\* load_monthly_rt_histogram: the samples of a day in the histogram of its
\* month.  A bucket has only the month's histogram.
ShownMonthTime(s, d) ==
  IF s # Site \/ \E e \in DatesOf(MonthOf[d]) : monthTime[s][e] > 0
  THEN monthTime[s][d] ELSE hist[s][d]

\* daily_rt_stats_for_month: the live histograms only if the month has no
\* stored statistics.
ShownDayTime(s, d) ==
  IF \E e \in DatesOf(MonthOf[d]) : dayTime[s][e] > 0 THEN dayTime[s][d] ELSE hist[s][d]

-----------------------------------------------------------------------------
(* Properties. *)

TableType(t, R) == t \in [Scopes -> [Dates -> R]]

VisitorType ==
  /\ TableType(daily, SUBSET Addresses)
  /\ TableType(dayCount, Nat \cup {NoRow})
  /\ monthly \in [Scopes -> [Months -> SUBSET Addresses]]
  /\ monthCount \in [Scopes -> [Months -> Nat \cup {NoRow}]]
  /\ yearCount \in [Scopes -> [Years -> Nat \cup {NoRow}]]

TimeType == TableType(hist, Nat) /\ TableType(dayTime, Nat) /\ TableType(monthTime, Nat)

RunType ==
  /\ pc \in {"idle", "read", "finalize", "advance"}
  /\ month \in Months \cup {NoMonth}
  /\ TableType(acc, Day)
  /\ pos \in 0..Len(queue)

\* The variables hold values of their types.
TypeOK ==
  /\ VisitorType /\ TimeType /\ RunType
  /\ complete \subseteq Months /\ dbMonth \in Months \cup {NoMonth}
  /\ log \in Seq(Entry) /\ queue \in Seq(Entry)
  /\ TableType(counted, Day)
  /\ crashes \in 0..MaxCrashes

VisitorsOf(s, D) == UNION {counted[s][d].ips : d \in D}

\* The properties about what reports show are about logs in calendar order: a
\* month that is finalized a second time because of late entries shows these
\* only (see the README).

\* The visitors shown for a day are those of its committed entries, while the
\* month lasts and after it was finalized, whatever crashes and rollbacks happen.
DaysRight ==
  InCalendarOrder(log) =>
    \A s \in Scopes, d \in Dates : ShownDay(s, d) = Cardinality(counted[s][d].ips)

\* A month shows its distinct visitors as long as no run crashed: the site's
\* always, a bucket's once the month is finalized.
MonthsRight ==
  InCalendarOrder(log) /\ crashes = 0 =>
    \A s \in Scopes, m \in Months :
      s = Site \/ m \in complete =>
        ShownMonth(s, m) = Cardinality(VisitorsOf(s, DatesOf(m)))

\* A finalized month shows its distinct visitors, also after crashes.
MonthsRightAfterCrash ==
  \A m \in complete : ShownMonth(Site, m) = Cardinality(VisitorsOf(Site, DatesOf(m)))

\* Crashes leave the counts of the buckets and the snapshots as they are: the
\* snapshot of a finalized month holds all its visitors.
SnapshotsRight ==
  InCalendarOrder(log) =>
    \A m \in complete :
      /\ \A s \in Scopes : monthly[s][m] = VisitorsOf(s, DatesOf(m))
      /\ \A b \in Buckets : ShownMonth(b, m) = Cardinality(VisitorsOf(b, DatesOf(m)))

\* A year's count is that of the distinct visitors of its finalized months,
\* also after a rollback into the year.
YearsRight ==
  InCalendarOrder(log) =>
    \A s \in Scopes, y \in Years :
      yearCount[s][y] # NoRow =>
        yearCount[s][y] =
          Cardinality(VisitorsOf(s, {d \in Dates : MonthOf[d] \in complete \cap MonthsOf(y)}))

\* Every committed visitor is among the visitors of all time, and no other.
AllTimeRight == InCalendarOrder(log) => AllTime = VisitorsOf(Site, Dates)

\* The response times shown for days and months are taken from every committed
\* sample, each once.
TimesRight ==
  InCalendarOrder(log) =>
    \A s \in Scopes, d \in Dates :
      ShownMonthTime(s, d) = counted[s][d].timed /\ ShownDayTime(s, d) = counted[s][d].timed

\* Between two runs a month that has entries is finalized, or is the current one.
LeftMonthsFinalized ==
  \A m \in Months :
    (\E d \in DatesOf(m) : counted[Site][d].hits > 0) => m \in complete \cup {dbMonth}

\* The yearly counts always agree with the monthly snapshots.
YearsAgree ==
  \A s \in Scopes, y \in Years :
    yearCount[s][y] # NoRow =>
      yearCount[s][y] = Cardinality(UNION {monthly[s][m] : m \in MonthsOf(y)})

\* What a run in progress relies on: it works on the month the database names,
\* that month is finalized only while nothing is accumulated, and the entry that
\* ended it is the next one to be read.
RunInv ==
  /\ pc # "idle" => month = dbMonth
  /\ pc # "read" => pos = 0
  /\ pc \in {"finalize", "advance"} => queue # <<>> /\ month # NoMonth
  /\ pc = "advance" => month \in complete
  /\ \A d \in Dates : acc[Site][d].hits > 0 => pc = "read" /\ MonthOf[d] = month

\* The inductive invariant for logs in any order.
MonthsInv == TypeOK /\ RunInv /\ LeftMonthsFinalized /\ YearsAgree

\* What is left of a log in calendar order does not go back behind the current
\* month, and not into it once it is finalized.
QueueInv ==
  /\ InCalendarOrder(queue)
  /\ \A i \in 1..Len(queue) :
       /\ MonthOf[queue[i].date] >= dbMonth
       /\ dbMonth \in complete \/ pc = "finalize" => MonthOf[queue[i].date] # dbMonth
  /\ \A m \in complete : m <= dbMonth
  /\ month = NoMonth => pos = 0
  /\ crashes = 0 /\ dbMonth \in complete => pc = "advance"
  /\ \A s \in Scopes, d \in Dates :
       acc[s][d] # NoDay =>
         pc = "read" /\ MonthOf[d] = dbMonth /\ dbMonth \notin complete

\* A day of a month that is not finalized yet is in the rows of the days, a
\* bucket's samples also in those of the month.
OpenDay(s, d) ==
  /\ daily[s][d] = counted[s][d].ips /\ dayCount[s][d] = NoRow
  /\ hist[s][d] = counted[s][d].timed /\ dayTime[s][d] = 0
  /\ monthTime[s][d] = IF s = Site THEN 0 ELSE counted[s][d].timed

\* finalize_month leaves nothing but the counts.
ClosedDay(s, d) ==
  /\ daily[s][d] = {} /\ Cached(s, d) = Cardinality(counted[s][d].ips)
  /\ hist[s][d] = 0 /\ dayTime[s][d] = counted[s][d].timed
  /\ monthTime[s][d] = counted[s][d].timed

OpenMonth(s, m) == monthly[s][m] = {} /\ monthCount[s][m] = NoRow

\* The site's count is lost by a crash that has the month finalized twice.
ClosedMonth(s, m) ==
  /\ monthly[s][m] = VisitorsOf(s, DatesOf(m))
  /\ s = Site /\ crashes = 0 => monthCount[s][m] = Cardinality(monthly[s][m])
  /\ s # Site => monthCount[s][m] = IF monthly[s][m] = {} THEN NoRow
                                                       ELSE Cardinality(monthly[s][m])

TablesInv ==
  \A s \in Scopes :
    /\ \A d \in Dates : IF MonthOf[d] \in complete THEN ClosedDay(s, d) ELSE OpenDay(s, d)
    /\ \A m \in Months : IF m \in complete THEN ClosedMonth(s, m) ELSE OpenMonth(s, m)

\* The inductive invariant.
CalendarInv == MonthsInv /\ (InCalendarOrder(log) => QueueInv /\ TablesInv)

=============================================================================
