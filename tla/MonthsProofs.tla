---------------------------- MODULE MonthsProofs ----------------------------
(***************************************************************************)
(* Proofs about Months, for every calendar, every set of addresses and     *)
(* buckets, every set of logs and every number of crashes.                 *)
(***************************************************************************)
EXTENDS Months, FiniteSetTheorems, SequenceTheorems, TLAPS

-----------------------------------------------------------------------------
(* Constants and helpers. *)

LEMMA CalendarFacts ==
  /\ \A d \in Dates : MonthOf[d] \in Months
  /\ \A m \in Months : m \in Nat \ {NoMonth} /\ YearOf[m] \in Nat /\ YearOf[m] \in Years
  /\ \A m, n \in Months : m <= n => YearOf[m] <= YearOf[n]
  /\ RollbackTo \subseteq Months
  /\ NoMonth = 0 /\ NoRow = -1
BY CalendarAssumption DEF Months, Years, NoMonth, NoRow

LEMMA SiteIsScope == Site \in Scopes
BY DEF Scopes

\* Sets of addresses can be counted.
LEMMA CountOfAddresses == \A S \in SUBSET Addresses : Cardinality(S) \in Nat
BY LogsAssumption, FS_Subset, FS_CardinalityType

LEMMA PlusType == \A x, y \in Day : Plus(x, y) \in Day /\ Plus(x, y).hits = x.hits + y.hits
BY DEF Day, Plus

LEMMA NothingType ==
  /\ TableType(Nothing, Day)
  /\ \A s \in Scopes, d \in Dates : Nothing[s][d].hits = 0
BY DEF Nothing, NoDay, Day, TableType

LEMMA HitType == \A e \in Entry : Hit(e) \in Day /\ Hit(e).hits = 1
BY DEF Entry, Hit, Day

\* What a finalized month's rows become holds addresses.
LEMMA SnapshotType ==
  ASSUME TypeOK, NEW s \in Scopes, NEW m
  PROVE  Snapshot(s, m) \in SUBSET Addresses
BY DEF TypeOK, VisitorType, TableType, Snapshot, DatesOf

LEMMA ReplaceType ==
  \A old, new \in SUBSET Addresses : Replace(old, new) \in SUBSET Addresses
BY DEF Replace

LEMMA ReplaceByNothing == \A old : Replace(old, {}) = old
BY DEF Replace

\* The rest of a sequence is a sequence, and begins with the next element.
LEMMA RestOfSeq ==
  ASSUME NEW s \in Seq(Entry), NEW k \in Nat
  PROVE  LET r == SubSeq(s, k + 1, Len(s))
         IN r \in Seq(Entry) /\ (k < Len(s) => r # <<>>)
<1> DEFINE r == SubSeq(s, k + 1, Len(s))
<1>1. Len(s) \in Nat /\ \A i \in k + 1..Len(s) : s[i] \in Entry
  OBVIOUS
<1>2. r \in Seq(Entry) /\ Len(r) = IF k + 1 <= Len(s) THEN Len(s) - (k + 1) + 1 ELSE 0
  BY <1>1, SubSeqProperties
<1> HIDE DEF r
<1>3. k < Len(s) => r # <<>>
  BY <1>1, <1>2
<1> QED
  BY <1>2, <1>3 DEF r

LEMMA FromType == ASSUME TypeOK, NEW t PROVE From(t) \in Seq(Entry)
<1> DEFINE before == {i \in 1..Len(log) : MonthOf[log[i].date] < t}
<1>1. log \in Seq(Entry) /\ Len(log) \in Nat
  BY DEF TypeOK
<1>2. IsFiniteSet(1..Len(log)) /\ before \in SUBSET (1..Len(log))
  BY <1>1, FS_Interval
<1>3. Cardinality(before) \in Nat
  BY <1>2, FS_Subset, FS_CardinalityType
<1> HIDE DEF before
<1>4. SubSeq(log, Cardinality(before) + 1, Len(log)) \in Seq(Entry)
  BY <1>1, <1>3, RestOfSeq
<1> QED
  BY <1>4 DEF From, before

-----------------------------------------------------------------------------
(* The initial state. *)

LEMMA InitInv == Init => MonthsInv
<1> SUFFICES ASSUME Init PROVE MonthsInv
  OBVIOUS
<1>1. log \in Seq(Entry) /\ queue = log
  BY LogsAssumption DEF Init
<1>2. VisitorType /\ TimeType
  BY DEF Init, VisitorType, TimeType, TableType
<1>3. TableType(acc, Day) /\ TableType(counted, Day)
  BY NothingType DEF Init
<1>4. RunType
  BY <1>1, <1>3 DEF Init, RunType
<1>5. TypeOK
  BY <1>1, <1>2, <1>3, <1>4, LogsAssumption DEF Init, TypeOK
<1>6. RunInv
  BY NothingType, SiteIsScope DEF Init, RunInv
<1>7. LeftMonthsFinalized
  BY NothingType, SiteIsScope DEF Init, LeftMonthsFinalized, DatesOf
<1>8. YearsAgree
  BY DEF Init, YearsAgree
<1> QED
  BY <1>5, <1>6, <1>7, <1>8 DEF MonthsInv

-----------------------------------------------------------------------------
(* Frames: what a step that leaves a part alone keeps. *)

LEMMA YearsFrame ==
  ASSUME YearsAgree, UNCHANGED <<monthly, yearCount>>
  PROVE  YearsAgree'
BY DEF YearsAgree

LEMMA LeftFrame ==
  ASSUME LeftMonthsFinalized, UNCHANGED counted,
         complete \cup {dbMonth} \subseteq (complete \cup {dbMonth})'
  PROVE  LeftMonthsFinalized'
BY DEF LeftMonthsFinalized

LEMMA VisitorFrame == ASSUME TypeOK, UNCHANGED visitorVars PROVE VisitorType'
BY DEF TypeOK, visitorVars, VisitorType, TableType

LEMMA TimeFrame == ASSUME TypeOK, UNCHANGED timeVars PROVE TimeType'
BY DEF TypeOK, timeVars, TimeType, TableType

LEMMA Stutter == ASSUME MonthsInv, UNCHANGED vars PROVE MonthsInv'
<1> USE DEF MonthsInv, vars, dbVars, runVars
<1>1. TypeOK'
  BY VisitorFrame, TimeFrame DEF TypeOK, RunType, TableType
<1>2. RunInv'
  BY DEF RunInv
<1> QED
  BY <1>1, <1>2, YearsFrame, LeftFrame DEF visitorVars

-----------------------------------------------------------------------------
(* Reading. *)

LEMMA StartRunInv == ASSUME MonthsInv, StartRun PROVE MonthsInv'
<1> USE DEF MonthsInv, StartRun, dbVars
<1>1. TypeOK'
  BY VisitorFrame, TimeFrame DEF TypeOK, RunType, TableType
<1>2. RunInv'
  BY DEF RunInv
<1> QED
  BY <1>1, <1>2, YearsFrame, LeftFrame DEF visitorVars

LEMMA AggregateEntryInv == ASSUME MonthsInv, AggregateEntry PROVE MonthsInv'
<1> DEFINE e == Upcoming
<1>1. e \in Entry /\ pos \in Nat /\ Len(queue) \in Nat
  BY DEF MonthsInv, TypeOK, RunType, AggregateEntry, Upcoming
<1>2. e.date \in Dates /\ MonthOf[e.date] \in Months
  BY <1>1, CalendarFacts DEF Entry
<1>3. Hit(e) \in Day
  BY <1>1, HitType
<1> HIDE DEF e
<1>4. TableType(acc, Day)
  BY DEF MonthsInv, TypeOK, RunType
<1>5. acc' = [s \in Scopes |-> IF s \in {Site, e.bucket}
                               THEN [acc[s] EXCEPT ![e.date] = Plus(@, Hit(e))] ELSE acc[s]]
  BY DEF AggregateEntry, e
<1>6. TableType(acc', Day)
  <2> SUFFICES ASSUME NEW s \in Scopes PROVE acc'[s] \in [Dates -> Day]
    BY <1>5 DEF TableType
  <2>1. acc[s] \in [Dates -> Day] /\ Plus(acc[s][e.date], Hit(e)) \in Day
    BY <1>2, <1>3, <1>4, PlusType DEF TableType
  <2> QED
    BY <1>5, <2>1
<1>7. \A d \in Dates : d # e.date => acc'[Site][d] = acc[Site][d]
  BY <1>4, <1>5, SiteIsScope DEF TableType
<1>8. TypeOK'
  <2>1. VisitorType' /\ TimeType'
    BY VisitorFrame, TimeFrame DEF MonthsInv, AggregateEntry
  <2>2. RunType'
    BY <1>1, <1>2, <1>6 DEF MonthsInv, TypeOK, RunType, AggregateEntry, e
  <2>3. dbMonth' \in Months \cup {NoMonth}
    BY <1>2 DEF MonthsInv, TypeOK, AggregateEntry, e
  <2> QED
    BY <2>1, <2>2, <2>3 DEF MonthsInv, TypeOK, AggregateEntry, TableType
<1>9. RunInv'
  <2>1. month \in {NoMonth, MonthOf[e.date]} /\ month' = MonthOf[e.date]
    BY DEF AggregateEntry, e
  <2>2. pc = "read" /\ pc' = "read" /\ month' = dbMonth'
    BY <2>1 DEF MonthsInv, RunInv, AggregateEntry, e
  <2>3. ASSUME NEW d \in Dates, acc'[Site][d].hits > 0 PROVE MonthOf[d] = month'
    <3>1. CASE d = e.date
      BY <2>1, <3>1
    <3>2. CASE d # e.date
      <4>1. MonthOf[d] = month
        BY <1>7, <2>3, <3>2 DEF MonthsInv, RunInv
      <4> QED
        BY <2>1, <4>1, CalendarFacts
    <3> QED
      BY <3>1, <3>2
  <2> QED
    BY <2>2, <2>3 DEF RunInv
<1>10. LeftMonthsFinalized'
  BY CalendarFacts DEF MonthsInv, RunInv, LeftMonthsFinalized, AggregateEntry
<1>11. YearsAgree'
  BY YearsFrame DEF MonthsInv, AggregateEntry, visitorVars
<1> QED
  BY <1>8, <1>9, <1>10, <1>11 DEF MonthsInv

\* A flush commits entries of the current month only, and leaves nothing to add.
LEMMA FlushFacts ==
  ASSUME MonthsInv, Flush, pc = "read"
  PROVE  /\ VisitorType' /\ TimeType' /\ TableType(counted', Day)
         /\ TableType(acc', Day) /\ \A d \in Dates : acc'[Site][d].hits = 0
         /\ queue' \in Seq(Entry) /\ (pos < Len(queue) => queue' # <<>>)
         /\ LeftMonthsFinalized' /\ YearsAgree'
<1>1. TypeOK
  BY DEF MonthsInv
<1>2. /\ TableType(acc, Day) /\ TableType(counted, Day) /\ TableType(daily, SUBSET Addresses)
      /\ TableType(hist, Nat) /\ TableType(monthTime, Nat)
  BY <1>1 DEF TypeOK, RunType, VisitorType, TimeType
<1>3. \A s \in Scopes, d \in Dates :
         /\ acc[s][d] \in Day /\ acc[s][d].ips \in SUBSET Addresses /\ acc[s][d].timed \in Nat
         /\ counted[s][d] \in Day /\ daily[s][d] \in SUBSET Addresses
         /\ hist[s][d] \in Nat /\ monthTime[s][d] \in Nat
  BY <1>2 DEF TableType, Day
<1>4. VisitorType'
  BY <1>1, <1>3 DEF Flush, TypeOK, VisitorType, TableType
<1>5. TimeType'
  <2>1. TableType(hist', Nat)
    BY <1>3 DEF Flush, TableType
  <2>2. TableType(monthTime', Nat)
    BY <1>3 DEF Flush, TableType
  <2>3. TableType(dayTime', Nat)
    BY <1>1 DEF Flush, TypeOK, TimeType, TableType
  <2> QED
    BY <2>1, <2>2, <2>3 DEF TimeType, TableType
<1>6. TableType(counted', Day)
  BY <1>3, PlusType DEF Flush, TableType
<1>7. TableType(acc', Day) /\ \A d \in Dates : acc'[Site][d].hits = 0
  BY NothingType, SiteIsScope DEF Flush
<1>8. queue' \in Seq(Entry) /\ (pos < Len(queue) => queue' # <<>>)
  BY <1>1, RestOfSeq DEF Flush, TypeOK, RunType
<1>9. LeftMonthsFinalized'
  <2> SUFFICES ASSUME NEW m \in Months, NEW d \in DatesOf(m), counted'[Site][d].hits > 0
               PROVE  m \in complete \cup {dbMonth}
    BY DEF LeftMonthsFinalized, Flush
  <2>1. d \in Dates /\ MonthOf[d] = m
    BY DEF DatesOf
  <2>2. counted'[Site][d].hits = counted[Site][d].hits + acc[Site][d].hits
    BY <1>3, <2>1, PlusType, SiteIsScope DEF Flush
  <2>3. counted[Site][d].hits \in Nat /\ acc[Site][d].hits \in Nat
    BY <1>3, <2>1, SiteIsScope DEF Day
  <2>4. CASE counted[Site][d].hits > 0
    BY <2>4 DEF MonthsInv, LeftMonthsFinalized
  <2>5. CASE acc[Site][d].hits > 0
    BY <2>1, <2>5 DEF MonthsInv, RunInv
  <2> QED
    BY <2>2, <2>3, <2>4, <2>5
<1>10. YearsAgree'
  BY YearsFrame DEF MonthsInv, Flush
<1> QED
  BY <1>4, <1>5, <1>6, <1>7, <1>8, <1>9, <1>10

\* The steps that flush: they differ in where the run goes on.
LEMMA FlushingInv ==
  ASSUME MonthsInv, pc = "read", Flush,
         \/ pc' = "finalize" /\ month' = month /\ month # NoMonth /\ pos < Len(queue)
         \/ pc' = "read" /\ month' = month
         \/ pc' = "idle" /\ month' = NoMonth
  PROVE  MonthsInv'
<1>1. TypeOK'
  BY FlushFacts DEF MonthsInv, TypeOK, RunType, Flush
<1>2. RunInv'
  BY FlushFacts DEF MonthsInv, RunInv, Flush
<1> QED
  BY <1>1, <1>2, FlushFacts DEF MonthsInv

-----------------------------------------------------------------------------
(* The end of a month. *)

LEMMA FinalizeVisitorsType ==
  ASSUME TypeOK, NEW m \in Months, FinalizeVisitors(m)
  PROVE  VisitorType'
<1>1. \A s \in Scopes : Snapshot(s, m) \in SUBSET Addresses
  BY SnapshotType
<1>2. /\ TableType(daily, SUBSET Addresses) /\ TableType(dayCount, Nat \cup {NoRow})
      /\ monthly \in [Scopes -> [Months -> SUBSET Addresses]]
      /\ monthCount \in [Scopes -> [Months -> Nat \cup {NoRow}]]
      /\ yearCount \in [Scopes -> [Years -> Nat \cup {NoRow}]]
  BY DEF TypeOK, VisitorType
<1>3. monthly' \in [Scopes -> [Months -> SUBSET Addresses]]
  BY <1>1, <1>2, ReplaceType DEF FinalizeVisitors
<1>4. monthCount' \in [Scopes -> [Months -> Nat \cup {NoRow}]]
  BY <1>1, <1>2, CountOfAddresses DEF FinalizeVisitors
<1>5. \A s \in Scopes :
         Cardinality(UNION {monthly'[s][n] : n \in MonthsOf(YearOf[m])}) \in Nat
  <2> SUFFICES ASSUME NEW s \in Scopes
               PROVE  UNION {monthly'[s][n] : n \in MonthsOf(YearOf[m])} \in SUBSET Addresses
    BY CountOfAddresses
  <2> QED
    BY <1>3 DEF MonthsOf
<1>6. yearCount' \in [Scopes -> [Years -> Nat \cup {NoRow}]]
  BY <1>2, <1>5 DEF FinalizeVisitors
<1>7. TableType(dayCount', Nat \cup {NoRow})
  BY <1>2, CountOfAddresses DEF FinalizeVisitors, TableType
<1>8. TableType(daily', SUBSET Addresses)
  BY <1>2 DEF FinalizeVisitors, TableType
<1> QED
  BY <1>3, <1>4, <1>6, <1>7, <1>8 DEF VisitorType, TableType

LEMMA FinalizeTimesType ==
  ASSUME TypeOK, NEW m, FinalizeTimes(m)
  PROVE  TimeType'
<1>1. TableType(hist, Nat) /\ TableType(dayTime, Nat) /\ TableType(monthTime, Nat)
  BY DEF TypeOK, TimeType
<1>2. TableType(hist', Nat) /\ TableType(dayTime', Nat)
  BY <1>1 DEF FinalizeTimes, TableType
<1>3. TableType(monthTime', Nat)
  BY <1>1, SiteIsScope DEF FinalizeTimes, TableType
<1> QED
  BY <1>2, <1>3 DEF TimeType, TableType

\* A scope whose year is not counted again keeps its snapshots.
LEMMA FinalizeVisitorsYears ==
  ASSUME TypeOK, YearsAgree, NEW m \in Months, FinalizeVisitors(m)
  PROVE  YearsAgree'
<1> DEFINE Seen(table, s, y) == UNION {table[s][n] : n \in MonthsOf(y)}
<1>1. /\ monthly \in [Scopes -> [Months -> SUBSET Addresses]]
      /\ yearCount \in [Scopes -> [Years -> Nat \cup {NoRow}]]
      /\ YearOf[m] \in Years
  BY CalendarFacts DEF TypeOK, VisitorType
<1> SUFFICES ASSUME NEW s \in Scopes, NEW y \in Years, yearCount'[s][y] # NoRow
             PROVE  yearCount'[s][y] = Cardinality(Seen(monthly', s, y))
  BY DEF YearsAgree
<1>2. \A n \in Months : n # m => monthly'[s][n] = monthly[s][n]
  BY <1>1 DEF FinalizeVisitors
<1>3. CASE y # YearOf[m]
  <2>1. yearCount'[s][y] = yearCount[s][y]
    BY <1>1, <1>3 DEF FinalizeVisitors
  <2>2. Seen(monthly', s, y) = Seen(monthly, s, y)
    BY <1>2, <1>3 DEF MonthsOf
  <2> QED
    BY <2>1, <2>2 DEF YearsAgree
<1>4. CASE y = YearOf[m] /\ s \in Finalized(m)
  BY <1>1, <1>4 DEF FinalizeVisitors
<1>5. CASE s \notin Finalized(m)
  <2>1. Snapshot(s, m) = {}
    BY <1>5 DEF Finalized, Scopes
  <2>2. monthly'[s][m] = monthly[s][m]
    BY <1>1, <2>1, ReplaceByNothing DEF FinalizeVisitors
  <2>3. Seen(monthly', s, y) = Seen(monthly, s, y)
    BY <1>2, <2>2 DEF MonthsOf
  <2>4. yearCount'[s][y] = yearCount[s][y]
    BY <1>5 DEF FinalizeVisitors
  <2> QED
    BY <2>3, <2>4 DEF YearsAgree
<1> QED
  BY <1>3, <1>4, <1>5

LEMMA FinalizeMonthInv == ASSUME MonthsInv, FinalizeMonth PROVE MonthsInv'
<1>1. month \in Months
  BY CalendarFacts DEF MonthsInv, TypeOK, RunType, RunInv, FinalizeMonth
<1>2. VisitorType'
  BY <1>1, FinalizeVisitorsType DEF MonthsInv, FinalizeMonth
<1>3. TimeType'
  BY FinalizeTimesType DEF MonthsInv, FinalizeMonth
<1>4. TypeOK'
  BY <1>1, <1>2, <1>3 DEF MonthsInv, TypeOK, RunType, FinalizeMonth, TableType
<1>5. RunInv'
  BY DEF MonthsInv, RunInv, FinalizeMonth
<1>6. LeftMonthsFinalized'
  BY LeftFrame DEF MonthsInv, FinalizeMonth
<1>7. YearsAgree'
  BY <1>1, FinalizeVisitorsYears DEF MonthsInv, FinalizeMonth
<1> QED
  BY <1>4, <1>5, <1>6, <1>7 DEF MonthsInv

\* The month that is left was finalized, so that naming another one is safe.
LEMMA AdvanceMonthInv == ASSUME MonthsInv, AdvanceMonth PROVE MonthsInv'
<1>1. Head(queue) \in Entry
  BY DEF MonthsInv, TypeOK, RunInv, AdvanceMonth
<1>2. MonthOf[Head(queue).date] \in Months
  BY <1>1, CalendarFacts DEF Entry
<1>3. TypeOK'
  BY <1>2, VisitorFrame, TimeFrame DEF MonthsInv, TypeOK, RunType, AdvanceMonth, TableType
<1>4. RunInv'
  BY DEF MonthsInv, RunInv, AdvanceMonth
<1>5. LeftMonthsFinalized'
  BY LeftFrame DEF MonthsInv, RunInv, AdvanceMonth
<1>6. YearsAgree'
  BY YearsFrame DEF MonthsInv, AdvanceMonth, visitorVars
<1> QED
  BY <1>3, <1>4, <1>5, <1>6 DEF MonthsInv

LEMMA CrashInv == ASSUME MonthsInv, Crash PROVE MonthsInv'
<1> USE DEF MonthsInv, Crash, dbVars
<1>1. RunType'
  BY NothingType DEF TypeOK, RunType
<1>2. TypeOK'
  BY <1>1, LogsAssumption, VisitorFrame, TimeFrame DEF TypeOK, TableType
<1>3. RunInv'
  BY NothingType, SiteIsScope DEF RunInv
<1> QED
  BY <1>2, <1>3, YearsFrame, LeftFrame DEF visitorVars

-----------------------------------------------------------------------------
(* Rolling back. *)

LEMMA RollbackVisitorsType ==
  ASSUME TypeOK, NEW t \in Months, RollbackVisitors(t)
  PROVE  VisitorType' /\ (YearsAgree => YearsAgree')
<1> DEFINE kept == [s \in Scopes |-> [m \in Months |-> IF m >= t THEN {} ELSE monthly[s][m]]]
           left(s) == UNION {kept[s][m] : m \in MonthsOf(YearOf[t])}
<1>1. /\ TableType(daily, SUBSET Addresses) /\ TableType(dayCount, Nat \cup {NoRow})
      /\ monthly \in [Scopes -> [Months -> SUBSET Addresses]]
      /\ monthCount \in [Scopes -> [Months -> Nat \cup {NoRow}]]
      /\ yearCount \in [Scopes -> [Years -> Nat \cup {NoRow}]]
  BY DEF TypeOK, VisitorType
<1>2. kept \in [Scopes -> [Months -> SUBSET Addresses]]
  BY <1>1
<1>3. \A s \in Scopes : left(s) \in SUBSET Addresses
  BY <1>2 DEF MonthsOf
<1>4. \A s \in Scopes : Cardinality(left(s)) \in Nat
  BY <1>3, CountOfAddresses
<1>5. /\ monthly' = kept
      /\ yearCount' = [s \in Scopes |-> [y \in Years |->
                        CASE y = YearOf[t] /\ left(s) # {} -> Cardinality(left(s))
                          [] y < YearOf[t] -> yearCount[s][y]
                          [] OTHER -> NoRow]]
  BY DEF RollbackVisitors
<1>6. VisitorType'
  <2>1. TableType(daily', SUBSET Addresses) /\ TableType(dayCount', Nat \cup {NoRow})
    BY <1>1 DEF RollbackVisitors, TableType
  <2>2. monthCount' \in [Scopes -> [Months -> Nat \cup {NoRow}]]
    BY <1>1 DEF RollbackVisitors
  <2>3. yearCount' \in [Scopes -> [Years -> Nat \cup {NoRow}]]
    <3> HIDE DEF left, kept
    <3> QED
      BY <1>1, <1>4, <1>5
  <2> QED
    BY <1>2, <1>5, <2>1, <2>2, <2>3 DEF VisitorType, TableType
<1>7. ASSUME YearsAgree PROVE YearsAgree'
  <2> SUFFICES ASSUME NEW s \in Scopes, NEW y \in Years, yearCount'[s][y] # NoRow
               PROVE  yearCount'[s][y] = Cardinality(UNION {monthly'[s][m] : m \in MonthsOf(y)})
    BY DEF YearsAgree
  <2> SUFFICES yearCount'[s][y] = Cardinality(UNION {kept[s][m] : m \in MonthsOf(y)})
    <3> HIDE DEF left, kept
    <3> QED
      BY <1>5
  <2>0. yearCount'[s][y] = CASE y = YearOf[t] /\ left(s) # {} -> Cardinality(left(s))
                             [] y < YearOf[t] -> yearCount[s][y]
                             [] OTHER -> NoRow
    <3> HIDE DEF left, kept
    <3> QED
      BY <1>5
  <2>1. CASE y = YearOf[t] /\ left(s) # {}
    <3>1. yearCount'[s][y] = Cardinality(left(s))
      <4> HIDE DEF left, kept
      <4>1. ~(y < YearOf[t])
        BY <2>1, CalendarFacts
      <4> QED
        BY <2>0, <2>1, <4>1
    <3> QED
      BY <2>1, <3>1
  <2>2. CASE y < YearOf[t] /\ y # YearOf[t]
    <3>1. \A m \in MonthsOf(y) : m \in Months /\ kept[s][m] = monthly[s][m]
      <4> SUFFICES ASSUME NEW m \in MonthsOf(y) PROVE m \in Months /\ ~(m >= t)
        OBVIOUS
      <4>1. m \in Months /\ YearOf[m] = y
        BY DEF MonthsOf
      <4>2. m \in Nat /\ t \in Nat /\ YearOf[m] \in Nat /\ YearOf[t] \in Nat
        BY <4>1, CalendarFacts
      <4>3. t <= m => YearOf[t] <= YearOf[m]
        BY <4>1, CalendarFacts
      <4> QED
        BY <2>2, <4>1, <4>2, <4>3
    <3>2. UNION {kept[s][m] : m \in MonthsOf(y)} = UNION {monthly[s][m] : m \in MonthsOf(y)}
      BY <3>1
    <3>3. yearCount'[s][y] = yearCount[s][y]
      BY <1>5, <2>2
    <3> QED
      BY <1>7, <3>2, <3>3 DEF YearsAgree
  <2>3. CASE ~(y = YearOf[t] /\ left(s) # {}) /\ ~(y < YearOf[t])
    BY <1>5, <2>3
  <2>4. y < YearOf[t] => y # YearOf[t]
    BY CalendarFacts
  <2> HIDE DEF left, kept
  <2> QED
    BY <2>1, <2>2, <2>3, <2>4
<1> QED
  BY <1>6, <1>7

LEMMA RollbackTimesType ==
  ASSUME TypeOK, NEW t, RollbackTimes(t)
  PROVE  TimeType'
BY DEF TypeOK, TimeType, TableType, RollbackTimes

\* A month before the target that has entries was left, hence finalized.
LEMMA RollbackInv ==
  ASSUME MonthsInv, NEW t \in RollbackTo, t <= dbMonth, Rollback(t)
  PROVE  MonthsInv'
<1>1. t \in Months /\ t \in Nat /\ dbMonth \in Nat
  BY CalendarFacts DEF MonthsInv, TypeOK
<1>2. VisitorType' /\ YearsAgree'
  BY <1>1, RollbackVisitorsType DEF MonthsInv, Rollback
<1>3. TimeType'
  BY RollbackTimesType DEF MonthsInv, Rollback
<1>4. TableType(counted, Day) /\ NoDay \in Day /\ NoDay.hits = 0
  BY DEF MonthsInv, TypeOK, NoDay, Day
<1>5. TableType(counted', Day)
  BY <1>4 DEF Rollback, TableType
<1>6. RunInv'
  BY DEF MonthsInv, RunInv, Rollback, runVars
<1>7. From(t) \in Seq(Entry)
  BY FromType DEF MonthsInv
<1>8. RunType'
  <2>1. pos = 0
    BY DEF MonthsInv, RunInv, Rollback
  <2> QED
    BY <1>7, <2>1 DEF MonthsInv, TypeOK, RunType, Rollback, runVars, TableType
<1>9. TypeOK'
  BY <1>1, <1>2, <1>3, <1>5, <1>7, <1>8 DEF MonthsInv, TypeOK, Rollback, TableType
<1>10. LeftMonthsFinalized'
  <2> SUFFICES ASSUME NEW m \in Months, NEW d \in DatesOf(m), counted'[Site][d].hits > 0
               PROVE  m \in complete' \cup {dbMonth'}
    BY DEF LeftMonthsFinalized
  <2>1. d \in Dates /\ MonthOf[d] = m /\ m \in Nat
    BY CalendarFacts DEF DatesOf
  <2>2. counted'[Site][d] = IF m >= t THEN NoDay ELSE counted[Site][d]
    BY <2>1, SiteIsScope DEF Rollback
  <2>3. m < t /\ counted[Site][d].hits > 0
    BY <1>1, <1>4, <2>1, <2>2
  <2>4. m \in complete \cup {dbMonth}
    BY <2>3 DEF MonthsInv, LeftMonthsFinalized
  <2> QED
    BY <1>1, <2>1, <2>3, <2>4 DEF Rollback
<1> QED
  BY <1>2, <1>6, <1>9, <1>10 DEF MonthsInv

-----------------------------------------------------------------------------
(* Theorems. *)

\* Every step keeps the invariant.
LEMMA StepInv == MonthsInv /\ [Next]_vars => MonthsInv'
<1> SUFFICES ASSUME MonthsInv, [Next]_vars PROVE MonthsInv'
  OBVIOUS
<1>1. CASE StartRun
  BY <1>1, StartRunInv
<1>2. CASE AggregateEntry
  BY <1>2, AggregateEntryInv
<1>3. CASE MonthBoundary
  BY <1>3, FlushingInv DEF MonthBoundary
<1>4. CASE FinalizeMonth
  BY <1>4, FinalizeMonthInv
<1>5. CASE AdvanceMonth
  BY <1>5, AdvanceMonthInv
<1>6. CASE Checkpoint
  BY <1>6, FlushingInv DEF Checkpoint
<1>7. CASE EndRun
  BY <1>7, FlushingInv DEF EndRun
<1>8. CASE Crash
  BY <1>8, CrashInv
<1>9. ASSUME NEW t \in RollbackTo, t <= dbMonth, Rollback(t) PROVE MonthsInv'
  BY <1>9, RollbackInv
<1>10. CASE UNCHANGED vars
  BY <1>10, Stutter
<1> QED
  BY <1>1, <1>2, <1>3, <1>4, <1>5, <1>6, <1>7, <1>8, <1>9, <1>10 DEF Next

\* The inductive invariant: a run works on the month that meta.current_month
\* names, and finalizes it with nothing left in the accumulators.
THEOREM MonthsInvariant == Spec => []MonthsInv
BY InitInv, StepInv, PTL DEF Spec

\* Every month that committed entries is marked complete or is the current
\* month, whatever the order of the entries, crashes and rollbacks: no month is
\* left without finalize_month having run.
THEOREM NoMonthForgotten == Spec => []LeftMonthsFinalized
<1>1. MonthsInv => LeftMonthsFinalized
  BY DEF MonthsInv
<1> QED
  BY <1>1, MonthsInvariant, PTL

\* Each yearly visitor count is that of the monthly snapshots of its year, also
\* when a month is finalized twice and after a rollback into the year.
THEOREM YearlyCountsAgree == Spec => []YearsAgree
<1>1. MonthsInv => YearsAgree
  BY DEF MonthsInv
<1> QED
  BY <1>1, MonthsInvariant, PTL

\* Type correctness.
THEOREM MonthsTypeCorrect == Spec => []TypeOK
<1>1. MonthsInv => TypeOK
  BY DEF MonthsInv
<1> QED
  BY <1>1, MonthsInvariant, PTL

-----------------------------------------------------------------------------
(* Logs in calendar order: helpers. *)

LEMMA StateFacts ==
  ASSUME MonthsInv
  PROVE  /\ dbMonth \in Nat /\ month \in Nat /\ pos \in Nat /\ Len(queue) \in Nat
         /\ pos <= Len(queue) /\ queue \in Seq(Entry) /\ crashes \in Nat
         /\ \A i \in 1..Len(queue) :
              /\ queue[i] \in Entry /\ queue[i].date \in Dates
              /\ MonthOf[queue[i].date] \in Months /\ MonthOf[queue[i].date] \in Nat
         /\ complete \subseteq Months
<1>1. /\ TypeOK /\ Len(queue) \in Nat
  BY DEF MonthsInv, TypeOK
<1>2. \A i \in 1..Len(queue) : queue[i] \in Entry
  BY <1>1 DEF TypeOK
<1>3. \A i \in 1..Len(queue) : queue[i].date \in Dates
  BY <1>2 DEF Entry
<1>4. dbMonth \in Nat /\ month \in Nat
  BY <1>1, CalendarFacts DEF TypeOK, RunType
<1>5. pos \in 0..Len(queue) /\ queue \in Seq(Entry) /\ complete \subseteq Months
  BY <1>1 DEF TypeOK, RunType
<1>6. crashes \in Nat
  BY <1>1, LogsAssumption DEF TypeOK
<1>7. \A i \in 1..Len(queue) :
        MonthOf[queue[i].date] \in Months /\ MonthOf[queue[i].date] \in Nat
  BY <1>3, CalendarFacts
<1> QED
  BY <1>1, <1>2, <1>3, <1>4, <1>5, <1>6, <1>7

LEMMA TableFacts ==
  ASSUME MonthsInv
  PROVE  \A s \in Scopes, d \in Dates :
           /\ acc[s][d] \in Day /\ acc[s][d].timed \in Nat
           /\ counted[s][d] \in Day /\ counted[s][d].timed \in Nat
           /\ counted[s][d].ips \in SUBSET Addresses
           /\ Cardinality(counted[s][d].ips) \in Nat
           /\ daily[s][d] \in SUBSET Addresses /\ dayCount[s][d] \in Nat \cup {NoRow}
           /\ hist[s][d] \in Nat /\ dayTime[s][d] \in Nat /\ monthTime[s][d] \in Nat
<1>1. /\ TableType(acc, Day) /\ TableType(counted, Day) /\ TableType(daily, SUBSET Addresses)
      /\ TableType(dayCount, Nat \cup {NoRow})
      /\ TableType(hist, Nat) /\ TableType(dayTime, Nat) /\ TableType(monthTime, Nat)
  BY DEF MonthsInv, TypeOK, RunType, VisitorType, TimeType
<1>2. \A s \in Scopes, d \in Dates :
         counted[s][d] \in Day /\ counted[s][d].ips \in SUBSET Addresses
         /\ counted[s][d].timed \in Nat /\ acc[s][d] \in Day /\ acc[s][d].timed \in Nat
  BY <1>1 DEF TableType, Day
<1> QED
  BY <1>1, <1>2, CountOfAddresses DEF TableType

LEMMA DateFacts ==
  /\ \A d \in Dates : d \in Nat /\ MonthOf[d] \in Months /\ MonthOf[d] \in Nat
  /\ \A d, e \in Dates : d <= e => MonthOf[d] <= MonthOf[e]
BY CalendarAssumption, CalendarFacts

\* The rest of a log in calendar order.
LEMMA RestInOrder ==
  ASSUME NEW q \in Seq(Entry), InCalendarOrder(q), NEW k \in Nat, k <= Len(q)
  PROVE  LET r == SubSeq(q, k + 1, Len(q))
         IN /\ InCalendarOrder(r) /\ Len(r) \in Nat
            /\ \A i \in 1..Len(r) : i + k \in 1..Len(q) /\ r[i] = q[i + k]
<1> DEFINE r == SubSeq(q, k + 1, Len(q))
<1>1. Len(q) \in Nat /\ \A i \in k + 1..Len(q) : q[i] \in Entry
  OBVIOUS
<1>2. /\ r \in Seq(Entry)
      /\ Len(r) = IF k + 1 <= Len(q) THEN Len(q) - (k + 1) + 1 ELSE 0
      /\ \A i \in 1..Len(q) - (k + 1) + 1 : r[i] = q[k + 1 + i - 1]
  BY <1>1, SubSeqProperties
<1> HIDE DEF r
<1>3. Len(r) = Len(q) - k
  BY <1>1, <1>2
<1>4. \A i \in 1..Len(r) : i + k \in 1..Len(q) /\ r[i] = q[i + k]
  <2> SUFFICES ASSUME NEW i \in 1..Len(r) PROVE i + k \in 1..Len(q) /\ r[i] = q[i + k]
    OBVIOUS
  <2>1. i \in 1..Len(q) - (k + 1) + 1 /\ k + 1 + i - 1 = i + k /\ i + k \in 1..Len(q)
    BY <1>1, <1>3
  <2> QED
    BY <1>2, <2>1
<1>5. InCalendarOrder(r)
  <2> SUFFICES ASSUME NEW i \in 1..Len(r), NEW j \in 1..Len(r), i < j
               PROVE  r[i].date <= r[j].date
    BY DEF InCalendarOrder
  <2>1. i + k < j + k
    BY <1>1, <1>3
  <2> QED
    BY <1>4, <2>1 DEF InCalendarOrder
<1> QED
  BY <1>1, <1>3, <1>4, <1>5 DEF r

\* The first entries of the queue are of the earliest month.
LEMMA MonthsInOrder ==
  ASSUME MonthsInv, QueueInv, NEW i \in 1..Len(queue), NEW j \in 1..Len(queue), i <= j
  PROVE  MonthOf[queue[i].date] <= MonthOf[queue[j].date]
<1>1. CASE i = j
  BY <1>1, StateFacts
<1>2. CASE i < j
  <2>1. queue[i].date <= queue[j].date
    BY <1>2 DEF QueueInv, InCalendarOrder
  <2> QED
    BY <2>1, DateFacts, StateFacts
<1> QED
  BY <1>1, <1>2, StateFacts

LEMMA NothingIsNoDay == \A s \in Scopes, d \in Dates : Nothing[s][d] = NoDay
BY DEF Nothing

LEMMA PlusNothing == \A x \in Day : Plus(x, NoDay) = x
BY DEF Plus, NoDay, Day

LEMMA TablesFrame ==
  ASSUME TablesInv, UNCHANGED <<visitorVars, timeVars, complete, counted>>,
         crashes' = crashes \/ crashes' # 0
  PROVE  TablesInv'
<1>1. UNCHANGED <<daily, dayCount, monthly, monthCount, hist, dayTime, monthTime>>
  BY DEF visitorVars, timeVars
<1>2. \A s \in Scopes, d \in Dates : ClosedDay(s, d)' = ClosedDay(s, d)
  BY <1>1 DEF ClosedDay, Cached
<1>3. \A s \in Scopes, d \in Dates : OpenDay(s, d)' = OpenDay(s, d)
  BY <1>1 DEF OpenDay
<1>4. \A s \in Scopes, m \in Months : ClosedMonth(s, m) => ClosedMonth(s, m)'
  BY <1>1 DEF ClosedMonth, VisitorsOf
<1>5. \A s \in Scopes, m \in Months : OpenMonth(s, m) => OpenMonth(s, m)'
  BY <1>1 DEF OpenMonth
<1> QED
  BY <1>2, <1>3, <1>4, <1>5 DEF TablesInv

-----------------------------------------------------------------------------
(* Reading. *)

LEMMA ShownInit == Init => CalendarInv
<1> SUFFICES ASSUME Init, InCalendarOrder(log) PROVE QueueInv /\ TablesInv
  BY InitInv DEF CalendarInv
<1>1. MonthsInv
  BY InitInv
<1>2. QueueInv
  <2>1. \A i \in 1..Len(queue) : MonthOf[queue[i].date] >= dbMonth
    BY <1>1, StateFacts, CalendarFacts DEF Init
  <2> QED
    BY <2>1, NothingIsNoDay DEF Init, QueueInv
<1>3. \A s \in Scopes, d \in Dates : OpenDay(s, d)
  BY NothingIsNoDay DEF Init, OpenDay, NoDay
<1>4. \A s \in Scopes, m \in Months : OpenMonth(s, m)
  BY DEF Init, OpenMonth
<1> QED
  BY <1>2, <1>3, <1>4 DEF TablesInv, Init

LEMMA ShownStartRun ==
  ASSUME MonthsInv, QueueInv, TablesInv, StartRun
  PROVE  QueueInv' /\ TablesInv'
<1>1. QueueInv'
  BY DEF MonthsInv, RunInv, QueueInv, StartRun, dbVars
<1> QED
  BY <1>1, TablesFrame DEF StartRun, dbVars

LEMMA ShownAggregateEntry ==
  ASSUME MonthsInv, QueueInv, TablesInv, AggregateEntry
  PROVE  QueueInv' /\ TablesInv'
<1> DEFINE e == Upcoming
           m == MonthOf[e.date]
<1>1. /\ pos + 1 \in 1..Len(queue) /\ e = queue[pos + 1] /\ pc = "read" /\ pc' = "read"
      /\ month \in {NoMonth, m} /\ month = dbMonth /\ month' = m
      /\ e.date \in Dates /\ m \in Nat /\ m # 0
  BY StateFacts, CalendarFacts DEF AggregateEntry, Upcoming, MonthsInv, RunInv
<1>2. dbMonth' = m
  BY <1>1 DEF AggregateEntry
<1>3. m \notin complete
  <2>1. CASE dbMonth = NoMonth
    <3>1. \A n \in complete : n <= 0 /\ n \in Nat \ {0}
      BY <2>1, StateFacts, CalendarFacts DEF QueueInv, NoMonth
    <3> QED
      BY <3>1
  <2>2. CASE dbMonth = m
    BY <1>1, <2>2 DEF QueueInv
  <2> QED
    BY <1>1, <2>1, <2>2
<1>4. \A i \in 1..Len(queue) : MonthOf[queue[i].date] >= m
  <2>1. CASE dbMonth = NoMonth
    <3>1. pos = 0
      BY <1>1, <2>1 DEF QueueInv
    <3> QED
      BY <1>1, <3>1, MonthsInOrder, StateFacts
  <2>2. CASE dbMonth = m
    BY <2>2 DEF QueueInv
  <2> QED
    BY <1>1, <2>1, <2>2
<1>5. \A n \in complete : n <= m
  BY <1>1, <1>3, StateFacts, CalendarFacts DEF QueueInv, NoMonth
<1>6. \A s \in Scopes, d \in Dates : acc'[s][d] # NoDay => MonthOf[d] = m
  <2> SUFFICES ASSUME NEW s \in Scopes, NEW d \in Dates, acc'[s][d] # NoDay
               PROVE  MonthOf[d] = m
    OBVIOUS
  <2>1. CASE d = e.date
    BY <2>1
  <2>2. CASE d # e.date
    <3>1. acc'[s][d] = acc[s][d]
      <4>1. TableType(acc, Day)
        BY DEF MonthsInv, TypeOK, RunType
      <4>2. acc[s] \in [Dates -> Day]
        BY <4>1 DEF TableType
      <4>3. acc'[s] = IF s \in {Site, e.bucket} THEN [acc[s] EXCEPT ![e.date] = Plus(@, Hit(e))]
                                                ELSE acc[s]
        BY DEF AggregateEntry
      <4> HIDE DEF e
      <4> QED
        BY <2>2, <4>2, <4>3
    <3>2. MonthOf[d] = dbMonth
      BY <3>1 DEF QueueInv
    <3> QED
      BY <1>1, <3>2, DateFacts, CalendarFacts DEF NoMonth
  <2> QED
    BY <2>1, <2>2
<1>7. complete' = complete /\ queue' = queue /\ crashes' = crashes
  BY DEF AggregateEntry
<1>8. QueueInv'
  <2> HIDE DEF m, e
  <2>1. month' # NoMonth
    BY <1>1 DEF NoMonth
  <2> QED
    BY <1>1, <1>2, <1>3, <1>4, <1>5, <1>6, <1>7, <2>1 DEF QueueInv
<1> QED
  BY <1>8, TablesFrame DEF AggregateEntry

\* A flush adds to days of the current month only, and only before that month
\* is finalized.
LEMMA FlushTables ==
  ASSUME MonthsInv, QueueInv, TablesInv, Flush
  PROVE  TablesInv'
<1>1. /\ daily' = [s \in Scopes |-> [d \in Dates |-> daily[s][d] \cup acc[s][d].ips]]
      /\ hist' = [s \in Scopes |-> [d \in Dates |-> hist[s][d] + acc[s][d].timed]]
      /\ monthTime' = [s \in Scopes |-> [d \in Dates |->
                         IF s = Site THEN monthTime[s][d] ELSE monthTime[s][d] + acc[s][d].timed]]
      /\ counted' = [s \in Scopes |-> [d \in Dates |-> Plus(counted[s][d], acc[s][d])]]
      /\ UNCHANGED <<dayCount, monthly, monthCount, dayTime, complete, crashes>>
  BY DEF Flush
<1>2. ASSUME NEW s \in Scopes, NEW d \in Dates, acc[s][d] = NoDay
      PROVE  /\ daily'[s][d] = daily[s][d] /\ hist'[s][d] = hist[s][d]
             /\ monthTime'[s][d] = monthTime[s][d] /\ counted'[s][d] = counted[s][d]
  <2>1. counted'[s][d] = counted[s][d]
    BY <1>1, <1>2, TableFacts, PlusNothing
  <2>2. daily'[s][d] = daily[s][d] \cup {}
    BY <1>1, <1>2 DEF NoDay
  <2>3. hist'[s][d] = hist[s][d] + 0
    BY <1>1, <1>2 DEF NoDay
  <2>4. monthTime'[s][d] = monthTime[s][d] + 0 \/ monthTime'[s][d] = monthTime[s][d]
    BY <1>1, <1>2 DEF NoDay
  <2> QED
    BY <2>1, <2>2, <2>3, <2>4, TableFacts
<1>3. ASSUME NEW s \in Scopes, NEW d \in Dates, MonthOf[d] \in complete
      PROVE  ClosedDay(s, d)'
  <2>1. acc[s][d] = NoDay
    BY <1>3 DEF QueueInv
  <2>2. ClosedDay(s, d)
    BY <1>3 DEF TablesInv
  <2> QED
    BY <1>1, <1>2, <2>1, <2>2 DEF ClosedDay, Cached
<1>4. ASSUME NEW s \in Scopes, NEW d \in Dates, MonthOf[d] \notin complete
      PROVE  OpenDay(s, d)'
  <2>1. OpenDay(s, d)
    BY <1>4 DEF TablesInv
  <2>2. /\ counted'[s][d].ips = counted[s][d].ips \cup acc[s][d].ips
        /\ counted'[s][d].timed = counted[s][d].timed + acc[s][d].timed
    BY <1>1 DEF Plus
  <2> QED
    BY <1>1, <2>1, <2>2 DEF OpenDay
<1>5. ASSUME NEW s \in Scopes, NEW m \in Months
      PROVE  IF m \in complete THEN ClosedMonth(s, m)' ELSE OpenMonth(s, m)'
  <2>1. CASE m \in complete
    <3>1. ClosedMonth(s, m)
      BY <2>1 DEF TablesInv
    <3>2. \A d \in DatesOf(m) : counted'[s][d] = counted[s][d]
      <4> SUFFICES ASSUME NEW d \in DatesOf(m) PROVE counted'[s][d] = counted[s][d]
        OBVIOUS
      <4>1. d \in Dates /\ MonthOf[d] \in complete
        BY <2>1 DEF DatesOf
      <4> QED
        BY <1>2, <4>1 DEF QueueInv
    <3>3. VisitorsOf(s, DatesOf(m))' = VisitorsOf(s, DatesOf(m))
      BY <3>2 DEF VisitorsOf
    <3> QED
      BY <1>1, <2>1, <3>1, <3>3 DEF ClosedMonth
  <2>2. CASE m \notin complete
    BY <1>1, <2>2 DEF TablesInv, OpenMonth
  <2> QED
    BY <2>1, <2>2
<1> QED
  BY <1>1, <1>3, <1>4, <1>5 DEF TablesInv

\* The steps that flush.  The queue goes on with the entry that was not
\* aggregated, at a month's end the first one of a later month.
LEMMA ShownFlushing ==
  ASSUME MonthsInv, QueueInv, TablesInv, pc = "read", Flush,
         \/ /\ pc' = "finalize" /\ month' = month
            /\ pos < Len(queue) /\ month # MonthOf[Upcoming.date]
         \/ pc' = "read" /\ month' = month
         \/ pc' = "idle" /\ month' = NoMonth
  PROVE  QueueInv' /\ TablesInv'
<1>1. /\ queue' = SubSeq(queue, pos + 1, Len(queue)) /\ pos' = 0 /\ acc' = Nothing
      /\ UNCHANGED <<complete, dbMonth, crashes>>
  BY DEF Flush
<1>2. /\ InCalendarOrder(queue') /\ Len(queue') \in Nat
      /\ \A i \in 1..Len(queue') : i + pos \in 1..Len(queue) /\ queue'[i] = queue[i + pos]
  BY <1>1, StateFacts, RestInOrder DEF QueueInv
<1>3. \A i \in 1..Len(queue') :
         /\ MonthOf[queue'[i].date] >= dbMonth
         /\ dbMonth \in complete => MonthOf[queue'[i].date] # dbMonth
  BY <1>2 DEF QueueInv
<1>4. ASSUME pc' = "finalize", NEW i \in 1..Len(queue')
      PROVE  MonthOf[queue'[i].date] # dbMonth
  <2>1. month = dbMonth /\ pos + 1 \in 1..Len(queue) /\ month # MonthOf[queue[pos + 1].date]
    BY <1>4, StateFacts DEF MonthsInv, RunInv, Upcoming
  <2>2. i + pos \in 1..Len(queue) /\ pos + 1 <= i + pos /\ queue'[i] = queue[i + pos]
    BY <1>2, StateFacts
  <2>3. MonthOf[queue[pos + 1].date] <= MonthOf[queue'[i].date]
    BY <2>1, <2>2, MonthsInOrder
  <2>4. MonthOf[queue[pos + 1].date] >= dbMonth
    BY <2>1 DEF QueueInv
  <2>5. MonthOf[queue[pos + 1].date] \in Nat /\ MonthOf[queue'[i].date] \in Nat /\ dbMonth \in Nat
    BY <2>1, <2>2, StateFacts
  <2> QED
    BY <2>1, <2>3, <2>4, <2>5
<1>5. QueueInv'
  <2>1. crashes' = 0 /\ dbMonth' \in complete' => FALSE
    BY <1>1 DEF QueueInv
  <2> QED
    BY <1>1, <1>2, <1>3, <1>4, <2>1, NothingIsNoDay DEF QueueInv
<1> QED
  BY <1>5, FlushTables

-----------------------------------------------------------------------------
(* The end of a month. *)

LEMMA FinalizeDays ==
  ASSUME MonthsInv, QueueInv, TablesInv, FinalizeMonth, NEW s \in Scopes, NEW d \in Dates
  PROVE  IF MonthOf[d] \in complete' THEN ClosedDay(s, d)' ELSE OpenDay(s, d)'
<1>1. /\ counted' = counted /\ complete' = complete \cup {month}
      /\ daily' = [x \in Scopes |-> [e \in Dates |-> IF MonthOf[e] = month THEN {} ELSE daily[x][e]]]
      /\ dayCount' = [x \in Scopes |-> [e \in Dates |->
           IF MonthOf[e] = month /\ daily[x][e] # {} THEN Cardinality(daily[x][e])
                                                    ELSE dayCount[x][e]]]
      /\ dayTime' = [x \in Scopes |-> [e \in Dates |->
           IF MonthOf[e] = month /\ hist[x][e] > 0 THEN hist[x][e] ELSE dayTime[x][e]]]
      /\ monthTime' = [monthTime EXCEPT ![Site] = [e \in Dates |->
           IF MonthOf[e] = month /\ HasSamples(Site, month) THEN hist[Site][e]
                                                           ELSE monthTime[Site][e]]]
      /\ hist' = [x \in Scopes |-> [e \in Dates |-> IF MonthOf[e] = month THEN 0 ELSE hist[x][e]]]
  BY DEF FinalizeMonth, FinalizeVisitors, FinalizeTimes
<1>2. /\ counted[s][d].timed \in Nat /\ Cardinality(counted[s][d].ips) \in Nat
      /\ hist[s][d] \in Nat /\ dayCount[s][d] \in Nat \cup {NoRow} /\ dayTime[s][d] \in Nat
  BY TableFacts
<1>3. monthTime'[s][d] = IF s = Site /\ MonthOf[d] = month /\ HasSamples(Site, month)
                         THEN hist[s][d] ELSE monthTime[s][d]
  <2>1. monthTime \in [Scopes -> [Dates -> Nat]]
    BY DEF MonthsInv, TypeOK, TimeType, TableType
  <2> QED
    BY <1>1, <2>1, SiteIsScope
<1>4. CASE MonthOf[d] # month
  <2>1. /\ daily'[s][d] = daily[s][d] /\ dayCount'[s][d] = dayCount[s][d]
        /\ hist'[s][d] = hist[s][d] /\ dayTime'[s][d] = dayTime[s][d]
        /\ monthTime'[s][d] = monthTime[s][d] /\ counted' = counted
    BY <1>1, <1>3, <1>4
  <2>2. MonthOf[d] \in complete' <=> MonthOf[d] \in complete
    BY <1>1, <1>4
  <2>3. ClosedDay(s, d) => ClosedDay(s, d)'
    BY <2>1 DEF ClosedDay, Cached
  <2>4. OpenDay(s, d) => OpenDay(s, d)'
    BY <2>1 DEF OpenDay
  <2> QED
    BY <2>2, <2>3, <2>4 DEF TablesInv
<1>5. CASE MonthOf[d] = month /\ month \in complete
  <2>1. ClosedDay(s, d)
    BY <1>5 DEF TablesInv
  <2>2. ~HasSamples(Site, month)
    <3>1. \A e \in DatesOf(month) : ClosedDay(Site, e)
      BY <1>5, SiteIsScope DEF TablesInv, DatesOf
    <3> QED
      BY <3>1 DEF HasSamples, ClosedDay
  <2>3. /\ daily'[s][d] = {} /\ dayCount'[s][d] = dayCount[s][d] /\ hist'[s][d] = 0
        /\ dayTime'[s][d] = dayTime[s][d] /\ monthTime'[s][d] = monthTime[s][d]
    BY <1>1, <1>3, <1>5, <2>1, <2>2 DEF ClosedDay
  <2>4. ClosedDay(s, d)'
    BY <1>1, <2>1, <2>3 DEF ClosedDay, Cached
  <2> QED
    BY <1>1, <1>5, <2>4
<1>6. CASE MonthOf[d] = month /\ month \notin complete
  <2>1. OpenDay(s, d)
    BY <1>6 DEF TablesInv
  <2>2. daily'[s][d] = {} /\ hist'[s][d] = 0
    BY <1>1, <1>6
  <2>3. Cached(s, d)' = Cardinality(counted[s][d].ips)
    <3>1. CASE daily[s][d] = {}
      <4>1. dayCount'[s][d] = NoRow
        BY <1>1, <1>6, <2>1, <3>1 DEF OpenDay
      <4>2. Cardinality(counted[s][d].ips) = 0
        BY <2>1, <3>1, FS_EmptySet DEF OpenDay
      <4> QED
        BY <4>1, <4>2 DEF Cached
    <3>2. CASE daily[s][d] # {}
      <4>1. dayCount'[s][d] = Cardinality(counted[s][d].ips)
        BY <1>1, <1>6, <2>1, <3>2 DEF OpenDay
      <4> QED
        BY <1>2, <4>1, CalendarFacts DEF Cached
    <3> QED
      BY <3>1, <3>2
  <2>4. dayTime'[s][d] = counted[s][d].timed
    BY <1>1, <1>2, <1>6, <2>1 DEF OpenDay
  <2>5. monthTime'[s][d] = counted[s][d].timed
    <3>1. CASE s = Site /\ ~HasSamples(Site, month)
      <4>1. d \in DatesOf(month)
        BY <1>6 DEF DatesOf
      <4>2. ~(hist[s][d] > 0)
        BY <3>1, <4>1 DEF HasSamples
      <4> QED
        BY <1>2, <1>3, <2>1, <3>1, <4>2 DEF OpenDay
    <3>2. CASE s = Site /\ HasSamples(Site, month)
      BY <1>3, <1>6, <2>1, <3>2 DEF OpenDay
    <3>3. CASE s # Site
      BY <1>3, <2>1, <3>3 DEF OpenDay
    <3> QED
      BY <3>1, <3>2, <3>3
  <2> QED
    BY <1>1, <1>6, <2>2, <2>3, <2>4, <2>5 DEF ClosedDay
<1> QED
  BY <1>4, <1>5, <1>6

LEMMA FinalizeMonths ==
  ASSUME MonthsInv, QueueInv, TablesInv, FinalizeMonth, NEW s \in Scopes, NEW m \in Months
  PROVE  IF m \in complete' THEN ClosedMonth(s, m)' ELSE OpenMonth(s, m)'
<1>1. /\ counted' = counted /\ complete' = complete \cup {month} /\ crashes' = crashes
      /\ monthly' = [x \in Scopes |->
                        [monthly[x] EXCEPT ![month] = Replace(@, Snapshot(x, month))]]
      /\ monthCount' = [x \in Scopes |->
           IF x \in Finalized(month)
           THEN [monthCount[x] EXCEPT ![month] = Cardinality(Snapshot(x, month))]
           ELSE monthCount[x]]
  BY DEF FinalizeMonth, FinalizeVisitors
<1>2. /\ monthly[s] \in [Months -> SUBSET Addresses]
      /\ monthCount[s] \in [Months -> Nat \cup {NoRow}]
  BY DEF MonthsInv, TypeOK, VisitorType
<1>3. month = dbMonth /\ pc = "finalize"
  BY DEF FinalizeMonth, MonthsInv, RunInv
<1>4. VisitorsOf(s, DatesOf(m))' = VisitorsOf(s, DatesOf(m))
  BY <1>1 DEF VisitorsOf
<1>5. CASE m # month
  <2>1. monthly'[s][m] = monthly[s][m] /\ monthCount'[s][m] = monthCount[s][m]
    BY <1>1, <1>2, <1>5
  <2> QED
    BY <1>1, <1>4, <1>5, <2>1 DEF TablesInv, ClosedMonth, OpenMonth
<1>6. CASE m = month /\ m \in complete
  <2>1. ClosedMonth(s, m)
    BY <1>6 DEF TablesInv
  <2>2. Snapshot(s, m) = {}
    <3>1. \A d \in DatesOf(m) : daily[s][d] = {}
      BY <1>6 DEF TablesInv, ClosedDay, DatesOf
    <3> QED
      BY <3>1 DEF Snapshot
  <2>3. monthly'[s][m] = monthly[s][m]
    BY <1>1, <1>2, <1>6, <2>2, ReplaceByNothing
  <2>4. s # Site => monthCount'[s][m] = monthCount[s][m]
    BY <1>1, <1>6, <2>2 DEF Finalized
  <2>5. crashes # 0
    BY <1>3, <1>6 DEF QueueInv
  <2> QED
    BY <1>1, <1>4, <1>6, <2>1, <2>3, <2>4, <2>5 DEF ClosedMonth
<1>7. CASE m = month /\ m \notin complete
  <2>1. monthly[s][m] = {} /\ monthCount[s][m] = NoRow
    BY <1>7 DEF TablesInv, OpenMonth
  <2>2. Snapshot(s, m) = VisitorsOf(s, DatesOf(m))
    <3>1. \A d \in DatesOf(m) : daily[s][d] = counted[s][d].ips
      BY <1>7 DEF TablesInv, OpenDay, DatesOf
    <3> QED
      BY <3>1 DEF Snapshot, VisitorsOf
  <2>3. monthly'[s][m] = Snapshot(s, m)
    <3>1. Replace({}, Snapshot(s, m)) = Snapshot(s, m)
      BY DEF Replace
    <3> QED
      BY <1>1, <1>2, <1>7, <2>1, <3>1
  <2>4. s = Site => monthCount'[s][m] = Cardinality(monthly'[s][m])
    BY <1>1, <1>2, <1>7, <2>3 DEF Finalized
  <2>5. s # Site => monthCount'[s][m] = IF monthly'[s][m] = {} THEN NoRow
                                        ELSE Cardinality(monthly'[s][m])
    <3>1. s # Site => (s \in Finalized(month) <=> Snapshot(s, m) # {})
      BY <1>7 DEF Finalized, Scopes
    <3> QED
      BY <1>1, <1>2, <1>7, <2>1, <2>3, <3>1
  <2> QED
    BY <1>1, <1>4, <1>7, <2>2, <2>3, <2>4, <2>5 DEF ClosedMonth
<1> QED
  BY <1>5, <1>6, <1>7

LEMMA ShownFinalizeMonth ==
  ASSUME MonthsInv, QueueInv, TablesInv, FinalizeMonth
  PROVE  QueueInv' /\ TablesInv'
<1>1. /\ complete' = complete \cup {month} /\ pc = "finalize" /\ pc' = "advance"
      /\ UNCHANGED <<dbMonth, queue, month, acc, pos, crashes>> /\ month = dbMonth
  BY DEF FinalizeMonth, MonthsInv, RunInv
<1>2. \A n \in complete' : n <= dbMonth
  BY <1>1, StateFacts DEF QueueInv
<1>3. ASSUME NEW s \in Scopes, NEW d \in Dates PROVE acc[s][d] = NoDay
  BY <1>1 DEF QueueInv
<1>4. QueueInv'
  BY <1>1, <1>2, <1>3 DEF QueueInv
<1> QED
  BY <1>4, FinalizeDays, FinalizeMonths DEF TablesInv

\* The next entry is of a later month, which is not finalized.
LEMMA ShownAdvanceMonth ==
  ASSUME MonthsInv, QueueInv, TablesInv, AdvanceMonth
  PROVE  QueueInv' /\ TablesInv'
<1> DEFINE m == MonthOf[Head(queue).date]
<1>1. /\ pc = "advance" /\ pc' = "read" /\ month = dbMonth /\ month \in complete
      /\ pos = 0 /\ queue # <<>>
      /\ dbMonth' = m /\ month' = m
      /\ UNCHANGED <<complete, queue, acc, pos, crashes>>
  BY DEF AdvanceMonth, MonthsInv, RunInv
<1>2. 1 \in 1..Len(queue) /\ Head(queue) = queue[1]
  BY <1>1, StateFacts
<1>3. m > dbMonth /\ m \in Nat /\ dbMonth \in Nat
  BY <1>1, <1>2, StateFacts DEF QueueInv
<1> HIDE DEF m
<1>4. \A i \in 1..Len(queue) : MonthOf[queue[i].date] >= m
  <2> SUFFICES ASSUME NEW i \in 1..Len(queue) PROVE MonthOf[queue[i].date] >= m
    OBVIOUS
  <2>1. MonthOf[queue[1].date] <= MonthOf[queue[i].date]
    BY <1>2, MonthsInOrder
  <2> QED
    BY <1>2, <2>1, StateFacts DEF m
<1>5. \A n \in complete : n \in Nat /\ n <= dbMonth
  BY StateFacts, CalendarFacts DEF QueueInv
<1>6. m \notin complete /\ \A n \in complete : n <= m
  BY <1>3, <1>5
<1>7. \A s \in Scopes, d \in Dates : acc[s][d] = NoDay
  BY <1>1 DEF QueueInv
<1>8. QueueInv'
  BY <1>1, <1>4, <1>6, <1>7 DEF QueueInv
<1> QED
  BY <1>8, TablesFrame DEF AdvanceMonth

LEMMA ShownCrash ==
  ASSUME MonthsInv, QueueInv, TablesInv, Crash
  PROVE  QueueInv' /\ TablesInv'
<1>1. crashes' # 0
  BY StateFacts DEF Crash
<1>2. QueueInv'
  BY <1>1, NothingIsNoDay DEF QueueInv, Crash, dbVars
<1> QED
  BY <1>1, <1>2, TablesFrame DEF Crash, dbVars

-----------------------------------------------------------------------------
(* Rolling back. *)

\* The entries of earlier months are the first ones, so that what is read again
\* holds none of them.
LEMMA FromOrder ==
  ASSUME MonthsInv, InCalendarOrder(log), NEW t \in Nat
  PROVE  /\ InCalendarOrder(From(t))
         /\ \A i \in 1..Len(From(t)) : MonthOf[From(t)[i].date] >= t
<1> DEFINE before == {i \in 1..Len(log) : MonthOf[log[i].date] < t}
           k == Cardinality(before)
<1>1. log \in Seq(Entry) /\ Len(log) \in Nat
  BY DEF MonthsInv, TypeOK
<1>2. \A i \in 1..Len(log) : log[i].date \in Dates /\ MonthOf[log[i].date] \in Nat
  <2>1. \A i \in 1..Len(log) : log[i] \in Entry
    BY <1>1
  <2>2. \A i \in 1..Len(log) : log[i].date \in Dates
    BY <2>1 DEF Entry
  <2> QED
    BY <2>2, DateFacts
<1>3. IsFiniteSet(1..Len(log)) /\ Cardinality(1..Len(log)) = Len(log)
  BY <1>1, FS_Interval
<1>4. IsFiniteSet(before) /\ k \in Nat /\ k <= Len(log)
  BY <1>3, FS_Subset, FS_CardinalityType
<1>5. ASSUME NEW i \in 1..Len(log), i > k PROVE MonthOf[log[i].date] >= t
  <2> SUFFICES ASSUME MonthOf[log[i].date] < t PROVE FALSE
    BY <1>2
  <2>1. 1..i \subseteq before
    <3> SUFFICES ASSUME NEW j \in 1..i PROVE j \in before
      OBVIOUS
    <3>1. j \in 1..Len(log)
      BY <1>1
    <3>2. log[j].date <= log[i].date
      <4>1. CASE j = i
        BY <1>2, <4>1, DateFacts
      <4>2. CASE j < i
        BY <3>1, <4>2 DEF InCalendarOrder
      <4> QED
        BY <4>1, <4>2
    <3>3. MonthOf[log[j].date] <= MonthOf[log[i].date]
      BY <1>2, <3>1, <3>2, DateFacts
    <3> QED
      BY <1>2, <3>1, <3>3
  <2>2. IsFiniteSet(1..i) /\ Cardinality(1..i) = i
    BY FS_Interval
  <2>3. Cardinality(1..i) <= k
    BY <1>4, <2>1, FS_Subset
  <2> QED
    BY <1>4, <1>5, <2>2, <2>3
<1> HIDE DEF k
<1> DEFINE r == SubSeq(log, k + 1, Len(log))
<1>6. /\ InCalendarOrder(r) /\ Len(r) \in Nat
      /\ \A i \in 1..Len(r) : i + k \in 1..Len(log) /\ r[i] = log[i + k]
  BY <1>1, <1>4, RestInOrder
<1>7. From(t) = r
  BY DEF From, k
<1> HIDE DEF r
<1>8. \A i \in 1..Len(r) : MonthOf[r[i].date] >= t
  <2> SUFFICES ASSUME NEW i \in 1..Len(r) PROVE MonthOf[r[i].date] >= t
    OBVIOUS
  <2>1. i + k \in 1..Len(log) /\ i + k > k /\ r[i] = log[i + k]
    BY <1>4, <1>6
  <2> QED
    BY <1>5, <2>1
<1> QED
  BY <1>6, <1>7, <1>8

LEMMA ShownRollback ==
  ASSUME MonthsInv, QueueInv, TablesInv, InCalendarOrder(log),
         NEW t \in RollbackTo, t <= dbMonth, Rollback(t)
  PROVE  QueueInv' /\ TablesInv'
<1>1. /\ pc = "idle" /\ UNCHANGED <<pc, month, acc, pos, crashes>> /\ pos = 0
      /\ complete' = {m \in complete : m < t} /\ dbMonth' = t /\ queue' = From(t)
      /\ t \in Nat
  BY CalendarFacts DEF Rollback, runVars, MonthsInv, RunInv
<1>2. \A n \in complete : n \in Nat
  BY StateFacts, CalendarFacts
<1>3. QueueInv'
  <2>1. t \notin complete' /\ \A n \in complete' : n <= t
    BY <1>1, <1>2
  <2>2. \A s \in Scopes, d \in Dates : acc[s][d] = NoDay
    BY <1>1 DEF QueueInv
  <2> QED
    BY <1>1, <2>1, <2>2, FromOrder DEF QueueInv
<1>4. /\ daily' = [s \in Scopes |-> [d \in Dates |->
                      IF MonthOf[d] >= t THEN {} ELSE daily[s][d]]]
      /\ dayCount' = [s \in Scopes |-> [d \in Dates |->
                         IF MonthOf[d] >= t THEN NoRow ELSE dayCount[s][d]]]
      /\ monthly' = [s \in Scopes |-> [m \in Months |->
                        IF m >= t THEN {} ELSE monthly[s][m]]]
      /\ monthCount' = [s \in Scopes |-> [m \in Months |->
                           IF m >= t THEN NoRow ELSE monthCount[s][m]]]
      /\ counted' = [s \in Scopes |-> [d \in Dates |->
                        IF MonthOf[d] >= t THEN NoDay ELSE counted[s][d]]]
  BY DEF Rollback, RollbackVisitors
<1>5. /\ hist' = [s \in Scopes |-> [d \in Dates |->
                     IF MonthOf[d] >= t THEN 0 ELSE hist[s][d]]]
      /\ dayTime' = [s \in Scopes |-> [d \in Dates |->
                        IF MonthOf[d] >= t THEN 0 ELSE dayTime[s][d]]]
      /\ monthTime' = [s \in Scopes |-> [d \in Dates |->
                          IF MonthOf[d] >= t THEN 0 ELSE monthTime[s][d]]]
  BY DEF Rollback, RollbackTimes
<1>6. ASSUME NEW s \in Scopes, NEW d \in Dates
      PROVE  IF MonthOf[d] \in complete' THEN ClosedDay(s, d)' ELSE OpenDay(s, d)'
  <2>1. CASE MonthOf[d] >= t
    <3>1. MonthOf[d] \notin complete'
      BY <1>1, <1>2, <2>1
    <3>2. OpenDay(s, d)'
      BY <1>4, <1>5, <2>1 DEF OpenDay, NoDay
    <3> QED
      BY <3>1, <3>2
  <2>2. CASE MonthOf[d] < t /\ ~(MonthOf[d] >= t)
    <3>1. MonthOf[d] \in complete' <=> MonthOf[d] \in complete
      BY <1>1, <2>2
    <3>2. /\ daily'[s][d] = daily[s][d] /\ dayCount'[s][d] = dayCount[s][d]
          /\ hist'[s][d] = hist[s][d] /\ dayTime'[s][d] = dayTime[s][d]
          /\ monthTime'[s][d] = monthTime[s][d] /\ counted'[s][d] = counted[s][d]
      BY <1>4, <1>5, <2>2
    <3>3. ClosedDay(s, d) => ClosedDay(s, d)'
      BY <3>2 DEF ClosedDay, Cached
    <3>4. OpenDay(s, d) => OpenDay(s, d)'
      BY <3>2 DEF OpenDay
    <3> QED
      BY <3>1, <3>3, <3>4 DEF TablesInv
  <2>3. MonthOf[d] \in Nat
    BY DateFacts
  <2> QED
    BY <1>1, <2>1, <2>2, <2>3
<1>7. ASSUME NEW s \in Scopes, NEW m \in Months
      PROVE  IF m \in complete' THEN ClosedMonth(s, m)' ELSE OpenMonth(s, m)'
  <2>1. CASE m >= t
    <3>1. m \notin complete'
      BY <1>1, <1>2, <2>1
    <3>2. OpenMonth(s, m)'
      BY <1>4, <2>1 DEF OpenMonth
    <3> QED
      BY <3>1, <3>2
  <2>2. CASE m < t /\ ~(m >= t)
    <3>1. m \in complete' <=> m \in complete
      BY <1>1, <2>2
    <3>2. monthly'[s][m] = monthly[s][m] /\ monthCount'[s][m] = monthCount[s][m]
      BY <1>4, <2>2
    <3>3. VisitorsOf(s, DatesOf(m))' = VisitorsOf(s, DatesOf(m))
      <4>1. \A d \in DatesOf(m) : counted'[s][d] = counted[s][d]
        BY <1>4, <2>2 DEF DatesOf
      <4> QED
        BY <4>1 DEF VisitorsOf
    <3>4. ClosedMonth(s, m) => ClosedMonth(s, m)'
      BY <1>1, <3>2, <3>3 DEF ClosedMonth
    <3>5. OpenMonth(s, m) => OpenMonth(s, m)'
      BY <3>2 DEF OpenMonth
    <3> QED
      BY <3>1, <3>4, <3>5 DEF TablesInv
  <2>3. m \in Nat
    BY CalendarFacts
  <2> QED
    BY <1>1, <2>1, <2>2, <2>3
<1> QED
  BY <1>3, <1>6, <1>7 DEF TablesInv

-----------------------------------------------------------------------------
(* The invariant. *)

LEMMA ShownStep == CalendarInv /\ [Next]_vars => CalendarInv'
<1> SUFFICES ASSUME CalendarInv, [Next]_vars PROVE CalendarInv'
  OBVIOUS
<1>1. MonthsInv /\ MonthsInv'
  BY StepInv DEF CalendarInv
<1>2. log' = log
  BY DEF Next, StartRun, AggregateEntry, MonthBoundary, FinalizeMonth, AdvanceMonth, Checkpoint,
     EndRun, Crash, Flush, Rollback, vars
<1> SUFFICES ASSUME InCalendarOrder(log) PROVE QueueInv' /\ TablesInv'
  BY <1>1, <1>2 DEF CalendarInv
<1>3. QueueInv /\ TablesInv
  BY DEF CalendarInv
<1>4. CASE StartRun
  BY <1>1, <1>3, <1>4, ShownStartRun
<1>5. CASE AggregateEntry
  BY <1>1, <1>3, <1>5, ShownAggregateEntry
<1>6. CASE MonthBoundary
  BY <1>1, <1>3, <1>6, ShownFlushing DEF MonthBoundary
<1>7. CASE FinalizeMonth
  BY <1>1, <1>3, <1>7, ShownFinalizeMonth
<1>8. CASE AdvanceMonth
  BY <1>1, <1>3, <1>8, ShownAdvanceMonth
<1>9. CASE Checkpoint
  BY <1>1, <1>3, <1>9, ShownFlushing DEF Checkpoint
<1>10. CASE EndRun
  BY <1>1, <1>3, <1>10, ShownFlushing DEF EndRun
<1>11. CASE Crash
  BY <1>1, <1>3, <1>11, ShownCrash
<1>12. ASSUME NEW t \in RollbackTo, t <= dbMonth, Rollback(t) PROVE QueueInv' /\ TablesInv'
  BY <1>1, <1>3, <1>12, ShownRollback
<1>13. CASE UNCHANGED vars
  <2>1. QueueInv'
    BY <1>3, <1>13 DEF vars, dbVars, runVars, QueueInv
  <2> QED
    BY <1>3, <1>13, <2>1, TablesFrame DEF vars, dbVars, runVars
<1> QED
  BY <1>4, <1>5, <1>6, <1>7, <1>8, <1>9, <1>10, <1>11, <1>12, <1>13 DEF Next

\* The invariant holds in every reachable state: until a month is finalized its
\* days are in the rows of the days, afterwards in the snapshot and the counts,
\* and no flush comes back to it.
THEOREM CalendarInvariant == Spec => []CalendarInv
BY ShownInit, ShownStep, PTL DEF Spec

-----------------------------------------------------------------------------
(* What the reports show. *)

LEMMA VisitorsFinite ==
  ASSUME MonthsInv, NEW s \in Scopes, NEW D \in SUBSET Dates
  PROVE  VisitorsOf(s, D) \in SUBSET Addresses /\ Cardinality(VisitorsOf(s, D)) \in Nat
<1>1. VisitorsOf(s, D) \in SUBSET Addresses
  BY TableFacts DEF VisitorsOf
<1> QED
  BY <1>1, CountOfAddresses

LEMMA VisitorIn ==
  ASSUME NEW s, NEW D, NEW a
  PROVE  a \in VisitorsOf(s, D) <=> \E d \in D : a \in counted[s][d].ips
BY DEF VisitorsOf

LEMMA AllTimeIn ==
  ASSUME NEW a
  PROVE  a \in AllTime <=> \/ \E m \in Months : a \in monthly[Site][m]
                          \/ \E d \in Dates : a \in daily[Site][d]
BY DEF AllTime

\* The daily table of a page shows the distinct visitors of each day's
\* committed entries: from the live row, or from the count that finalize_month
\* left, and never from both.
THEOREM DailyVisitorsShown == Spec => []DaysRight
<1>1. CalendarInv => DaysRight
  <2> SUFFICES ASSUME CalendarInv, InCalendarOrder(log), NEW s \in Scopes, NEW d \in Dates
               PROVE  ShownDay(s, d) = Cardinality(counted[s][d].ips)
    BY DEF DaysRight
  <2>1. MonthsInv /\ TablesInv
    BY DEF CalendarInv
  <2>2. Cardinality(counted[s][d].ips) \in Nat
    BY <2>1, TableFacts
  <2>3. Cardinality({}) = 0
    BY FS_EmptySet
  <2>4. CASE MonthOf[d] \in complete
    <3>1. daily[s][d] = {} /\ Cached(s, d) = Cardinality(counted[s][d].ips)
      BY <2>1, <2>4 DEF TablesInv, ClosedDay
    <3>2. CASE s = Site
      BY <3>1, <3>2 DEF ShownDay
    <3>3. CASE s # Site
      <4>1. ShownDay(s, d) = Cached(s, d) + 0
        BY <2>3, <3>1, <3>3 DEF ShownDay
      <4> QED
        BY <2>2, <3>1, <4>1
    <3> QED
      BY <3>2, <3>3
  <2>5. CASE MonthOf[d] \notin complete
    <3>1. daily[s][d] = counted[s][d].ips /\ Cached(s, d) = 0
      BY <2>1, <2>5 DEF TablesInv, OpenDay, Cached
    <3>2. CASE s = Site /\ daily[s][d] # {}
      BY <3>1, <3>2 DEF ShownDay
    <3>3. CASE s = Site /\ daily[s][d] = {}
      BY <2>3, <3>1, <3>3 DEF ShownDay
    <3>4. CASE s # Site
      <4>1. ShownDay(s, d) = 0 + Cardinality(daily[s][d])
        BY <3>1, <3>4 DEF ShownDay
      <4> QED
        BY <2>2, <3>1, <4>1
    <3> QED
      BY <3>2, <3>3, <3>4
  <2> QED
    BY <2>4, <2>5
<1> QED
  BY <1>1, CalendarInvariant, PTL

\* The snapshot that finalize_month leaves of a month holds all of its visitors,
\* and the count of a bucket is that of its visitors, also after a crash
\* that has the month finalized a second time from rows that are gone.
THEOREM SnapshotsSurviveCrashes == Spec => []SnapshotsRight
<1>1. CalendarInv => SnapshotsRight
  <2> SUFFICES ASSUME CalendarInv, InCalendarOrder(log), NEW m \in complete
               PROVE  /\ \A s \in Scopes : monthly[s][m] = VisitorsOf(s, DatesOf(m))
                      /\ \A b \in Buckets :
                           ShownMonth(b, m) = Cardinality(VisitorsOf(b, DatesOf(m)))
    BY DEF SnapshotsRight
  <2>1. MonthsInv /\ TablesInv /\ m \in Months
    BY StateFacts DEF CalendarInv
  <2>2. \A s \in Scopes : ClosedMonth(s, m)
    BY <2>1 DEF TablesInv
  <2>3. \A s \in Scopes : monthly[s][m] = VisitorsOf(s, DatesOf(m))
    BY <2>2 DEF ClosedMonth
  <2>4. ASSUME NEW b \in Buckets
        PROVE  ShownMonth(b, m) = Cardinality(VisitorsOf(b, DatesOf(m)))
    <3>1. b \in Scopes /\ b # Site
      BY LogsAssumption DEF Scopes
    <3>2. monthCount[b][m] = IF monthly[b][m] = {} THEN NoRow ELSE Cardinality(monthly[b][m])
      BY <2>2, <3>1 DEF ClosedMonth
    <3>3. CASE monthly[b][m] # {}
      <4>1. Cardinality(VisitorsOf(b, DatesOf(m))) \in Nat
        BY <2>1, <3>1, VisitorsFinite DEF DatesOf
      <4> QED
        BY <2>3, <3>1, <3>2, <3>3, <4>1, CalendarFacts DEF ShownMonth
    <3>4. CASE monthly[b][m] = {}
      <4>1. \A d \in DatesOf(m) : daily[b][d] = {}
        BY <2>1, <3>1 DEF TablesInv, ClosedDay, DatesOf
      <4>2. UNION {{d} \X daily[b][d] : d \in DatesOf(m)} = {}
        BY <4>1
      <4>3. ShownMonth(b, m) = Cardinality({})
        BY <3>1, <3>2, <3>4, <4>2 DEF ShownMonth
      <4> QED
        BY <2>3, <3>1, <3>4, <4>3
    <3> QED
      BY <3>3, <3>4
  <2> QED
    BY <2>3, <2>4
<1> QED
  BY <1>1, CalendarInvariant, PTL

\* As long as no run crashed the page of a month shows its distinct visitors,
\* before and after it is finalized.
THEOREM MonthlyVisitorsShown == Spec => []MonthsRight
<1>1. CalendarInv /\ SnapshotsRight => MonthsRight
  <2> SUFFICES ASSUME CalendarInv, SnapshotsRight, InCalendarOrder(log), crashes = 0,
                      NEW s \in Scopes, NEW m \in Months, s = Site \/ m \in complete
               PROVE  ShownMonth(s, m) = Cardinality(VisitorsOf(s, DatesOf(m)))
    BY DEF MonthsRight
  <2>1. MonthsInv /\ TablesInv
    BY DEF CalendarInv
  <2>2. CASE s # Site
    BY <2>2 DEF SnapshotsRight, Scopes
  <2>3. CASE s = Site /\ m \in complete
    <3>1. monthCount[s][m] = Cardinality(VisitorsOf(s, DatesOf(m)))
      BY <2>1, <2>3 DEF TablesInv, ClosedMonth
    <3>2. Cardinality(VisitorsOf(s, DatesOf(m))) \in Nat
      BY <2>1, VisitorsFinite DEF DatesOf
    <3>3. monthCount[s][m] # NoRow
      BY <3>1, <3>2, CalendarFacts
    <3> QED
      BY <2>3, <3>1, <3>3 DEF ShownMonth
  <2>4. CASE s = Site /\ m \notin complete
    <3>1. monthCount[s][m] = NoRow
      BY <2>1, <2>4 DEF TablesInv, OpenMonth
    <3>2. \A d \in DatesOf(m) : daily[s][d] = counted[s][d].ips
      BY <2>1, <2>4 DEF TablesInv, OpenDay, DatesOf
    <3>3. Snapshot(s, m) = VisitorsOf(s, DatesOf(m))
      BY <3>2 DEF Snapshot, VisitorsOf
    <3> QED
      BY <2>4, <3>1, <3>3 DEF ShownMonth
  <2> QED
    BY <2>2, <2>3, <2>4
<1> QED
  BY <1>1, CalendarInvariant, SnapshotsSurviveCrashes, PTL

\* A year's count is that of the distinct visitors of its finalized months, also
\* when a crash has a month finalized twice and after a rollback.
THEOREM YearlyVisitorsShown == Spec => []YearsRight
<1>1. CalendarInv => YearsRight
  <2> SUFFICES ASSUME CalendarInv, InCalendarOrder(log), NEW s \in Scopes, NEW y \in Years,
                      yearCount[s][y] # NoRow
               PROVE  yearCount[s][y] =
                        Cardinality(VisitorsOf(s, {d \in Dates : MonthOf[d] \in complete \cap MonthsOf(y)}))
    BY DEF YearsRight
  <2>1. TablesInv /\ YearsAgree
    BY DEF CalendarInv, MonthsInv
  <2>2. \A m \in Months :
          monthly[s][m] = IF m \in complete THEN VisitorsOf(s, DatesOf(m)) ELSE {}
    BY <2>1 DEF TablesInv, ClosedMonth, OpenMonth
  <2>3. UNION {monthly[s][m] : m \in MonthsOf(y)}
          = VisitorsOf(s, {d \in Dates : MonthOf[d] \in complete \cap MonthsOf(y)})
    <3>1. ASSUME NEW a, NEW m \in MonthsOf(y), a \in monthly[s][m]
          PROVE  a \in VisitorsOf(s, {d \in Dates : MonthOf[d] \in complete \cap MonthsOf(y)})
      <4>1. m \in Months /\ m \in complete /\ a \in VisitorsOf(s, DatesOf(m))
        BY <2>2, <3>1 DEF MonthsOf
      <4>2. PICK d \in DatesOf(m) : a \in counted[s][d].ips
        BY <4>1 DEF VisitorsOf
      <4>3. d \in Dates /\ MonthOf[d] \in complete \cap MonthsOf(y)
        BY <4>1 DEF DatesOf
      <4> QED
        BY <4>2, <4>3 DEF VisitorsOf
    <3>2. ASSUME NEW d \in Dates, MonthOf[d] \in complete \cap MonthsOf(y),
                 NEW a \in counted[s][d].ips
          PROVE  a \in UNION {monthly[s][m] : m \in MonthsOf(y)}
      <4>1. d \in DatesOf(MonthOf[d]) /\ MonthOf[d] \in Months
        BY CalendarFacts DEF DatesOf
      <4>2. a \in monthly[s][MonthOf[d]]
        <5>1. a \in VisitorsOf(s, DatesOf(MonthOf[d]))
          BY <4>1, VisitorIn
        <5> QED
          BY <2>2, <3>2, <4>1, <5>1
      <4> QED
        BY <3>2, <4>2
    <3>3. ASSUME NEW a \in VisitorsOf(s, {d \in Dates : MonthOf[d] \in complete \cap MonthsOf(y)})
          PROVE  a \in UNION {monthly[s][m] : m \in MonthsOf(y)}
      BY <3>2, <3>3, VisitorIn
    <3> QED
      BY <3>1, <3>3
  <2> QED
    BY <2>1, <2>3 DEF YearsAgree
<1> QED
  BY <1>1, CalendarInvariant, PTL

\* The visitors of all time are those of the committed entries: every one is in
\* a snapshot or in a live row, and nobody stays behind after a rollback.
THEOREM AllTimeVisitorsShown == Spec => []AllTimeRight
<1>1. CalendarInv => AllTimeRight
  <2> SUFFICES ASSUME CalendarInv, InCalendarOrder(log) PROVE AllTime = VisitorsOf(Site, Dates)
    BY DEF AllTimeRight
  <2>1. \A d \in Dates :
          daily[Site][d] = IF MonthOf[d] \in complete THEN {} ELSE counted[Site][d].ips
    BY SiteIsScope DEF CalendarInv, TablesInv, ClosedDay, OpenDay
  <2>2. \A m \in Months :
          monthly[Site][m] = IF m \in complete THEN VisitorsOf(Site, DatesOf(m)) ELSE {}
    BY SiteIsScope DEF CalendarInv, TablesInv, ClosedMonth, OpenMonth
  <2>3. ASSUME NEW a \in AllTime PROVE a \in VisitorsOf(Site, Dates)
    <3>1. CASE \E m \in Months : a \in monthly[Site][m]
      <4>1. PICK m \in Months : a \in VisitorsOf(Site, DatesOf(m))
        BY <2>2, <3>1
      <4> QED
        BY <4>1 DEF VisitorsOf, DatesOf
    <3>2. CASE \E d \in Dates : a \in daily[Site][d]
      BY <2>1, <3>2, VisitorIn
    <3> QED
      BY <2>3, <3>1, <3>2, AllTimeIn
  <2>4. ASSUME NEW d \in Dates, NEW a \in counted[Site][d].ips PROVE a \in AllTime
    <3>1. CASE MonthOf[d] \in complete
      <4>1. d \in DatesOf(MonthOf[d]) /\ MonthOf[d] \in Months
        BY CalendarFacts DEF DatesOf
      <4>2. a \in monthly[Site][MonthOf[d]]
        <5>1. a \in VisitorsOf(Site, DatesOf(MonthOf[d]))
          BY <4>1, VisitorIn
        <5> QED
          BY <2>2, <3>1, <4>1, <5>1
      <4> QED
        BY <4>1, <4>2, AllTimeIn
    <3>2. CASE MonthOf[d] \notin complete
      BY <2>1, <3>2, AllTimeIn
    <3> QED
      BY <3>1, <3>2
  <2> QED
    BY <2>3, <2>4, VisitorIn
<1> QED
  BY <1>1, CalendarInvariant, PTL

\* The response times shown for a day and for a month are taken from every
\* committed sample, each once, whether they come from live histograms or from
\* what finalize_month stored.
THEOREM EverySampleShownOnce == Spec => []TimesRight
<1>1. CalendarInv => TimesRight
  <2> SUFFICES ASSUME CalendarInv, InCalendarOrder(log), NEW s \in Scopes, NEW d \in Dates
               PROVE  /\ ShownMonthTime(s, d) = counted[s][d].timed
                      /\ ShownDayTime(s, d) = counted[s][d].timed
    BY DEF TimesRight
  <2>1. MonthsInv /\ TablesInv /\ d \in DatesOf(MonthOf[d])
    BY DEF CalendarInv, DatesOf
  <2>2. counted[s][d].timed \in Nat
    BY <2>1, TableFacts
  <2>3. CASE MonthOf[d] \in complete
    <3>1. ClosedDay(s, d)
      BY <2>1, <2>3 DEF TablesInv
    <3>2. ShownDayTime(s, d) = counted[s][d].timed
      BY <2>1, <2>2, <3>1 DEF ClosedDay, ShownDayTime
    <3>3. ShownMonthTime(s, d) = counted[s][d].timed
      BY <2>1, <2>2, <3>1 DEF ClosedDay, ShownMonthTime
    <3> QED
      BY <3>2, <3>3
  <2>4. CASE MonthOf[d] \notin complete
    <3>1. \A e \in DatesOf(MonthOf[d]) : OpenDay(s, e)
      BY <2>1, <2>4 DEF TablesInv, DatesOf
    <3> QED
      BY <2>1, <3>1 DEF OpenDay, ShownDayTime, ShownMonthTime
  <2> QED
    BY <2>3, <2>4
<1> QED
  BY <1>1, CalendarInvariant, PTL

=============================================================================
