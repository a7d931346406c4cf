---------------------------- MODULE ReportsProofs ----------------------------
(***************************************************************************)
(* What `webstat generate` leaves alone is fresh, proved for every         *)
(* calendar, any number of buckets, commits, interruptions and rollbacks.  *)
(***************************************************************************)
EXTENDS Reports, WellFoundedInduction, TLAPS

\* A bounded set of numbers has a greatest one.
LEMMA GreatestExists ==
  ASSUME NEW n \in Nat, NEW S \in SUBSET (0..n), S # {}
  PROVE  Greatest(S) \in S /\ \A y \in S : y <= Greatest(S)
<1> DEFINE T == {n - x : x \in S}
<1>1. T \subseteq Nat /\ T # {}
  <2>1. \A x \in S : n - x \in Nat
    OBVIOUS
  <2> QED
    BY <2>1
<1> HIDE DEF T
<1>2. PICK t \in T : \A u \in T : <<u, t>> \notin OpToRel(<, Nat)
  BY <1>1, NatLessThanWellFounded, WFMin
<1>3. \A u \in T : t <= u
  <2>1. \A a, b \in Nat : a < b => <<a, b>> \in OpToRel(<, Nat)
    BY DEF OpToRel
  <2>2. \A u \in T : ~(u < t)
    BY <1>1, <1>2, <2>1, Zenon
  <2> QED
    BY <1>1, <2>2
<1>4. PICK x \in S : t = n - x
  BY DEF T
<1>5. \A y \in S : x >= y
  <2>1. TAKE y \in S
  <2>2. n - y \in T
    BY DEF T
  <2> QED
    BY <1>3, <1>4, <2>2
<1> QED
  BY <1>5 DEF Greatest
LEMMA PeriodFacts ==
  /\ \A m \in Months : m \in Nat /\ m # Overview /\ m \notin Years /\ YearOf[m] \in Years
  /\ \A y \in Years : y \in Nat /\ y # Overview /\ y \notin Months
  /\ Overview \notin Months /\ Overview \notin Years
  /\ \A m, n \in Months : m <= n => YearOf[m] <= YearOf[n]
BY ReportsAssumption DEF Overview

LEMMA MonthsOfPeriods ==
  /\ \A m \in Months : MonthsOf(m) = AvailableMonths \cap {m}
  /\ \A y \in Years : MonthsOf(y) = {m \in AvailableMonths : YearOf[m] = y}
  /\ MonthsOf(Overview) = AvailableMonths
<1>1. AvailableMonths \subseteq Months
  BY DEF AvailableMonths
<1>2. \A m \in Months : MonthsOf(m) = AvailableMonths \cap {m}
  BY <1>1, PeriodFacts DEF MonthsOf
<1>3. \A y \in Years : MonthsOf(y) = {m \in AvailableMonths : YearOf[m] = y}
  BY <1>1, PeriodFacts DEF MonthsOf
<1>4. MonthsOf(Overview) = AvailableMonths
  BY <1>1, PeriodFacts DEF MonthsOf
<1> QED
  BY <1>2, <1>3, <1>4

LEMMA ShownPeriods ==
  /\ AvailableMonths \subseteq Months
  /\ Shown \subseteq Periods /\ Overview \in Shown
  /\ \A period \in Shown \ {Overview} : MonthsOf(period) # {}
  /\ \A period \in Shown \ {Overview} : period \in Months \cup Years
  /\ \A period \in Months \cup Years : MonthsOf(period) # {} => period \in Shown
  /\ \A m \in Months : m \in Shown <=> m \in AvailableMonths
BY PeriodFacts, MonthsOfPeriods DEF Shown, YearsOf, AvailableMonths, Periods

\* What is read of a period depends on the rows of its months only.
LEMMA SameRows ==
  ASSUME NEW period \in Shown \ {Overview}, MonthsOf(period)' = MonthsOf(period),
         \A m \in MonthsOf(period) :
           stats'[m] = stats[m] /\ (m \in complete' <=> m \in complete)
  PROVE  /\ Summary(period)' = Summary(period)
         /\ BucketIndexRows(period)' = BucketIndexRows(period)
         /\ \A b : BucketPageData(period, b)' = BucketPageData(period, b)
<1> DEFINE M == MonthsOf(period)
<1>1. \A s : [m \in M' |-> stats'[m][s]] = [m \in M |-> stats[m][s]]
  OBVIOUS
<1>2. BucketIndexRows(period)' = BucketIndexRows(period)
  <2>1. {c \in Buckets : \E m \in M' : stats'[m][c] > 0}
          = {c \in Buckets : \E m \in M : stats[m][c] > 0}
    OBVIOUS
  <2> QED
    BY <1>1, <2>1 DEF BucketIndexRows, Hits
<1>3. \A m \in M : \A s : MonthRow(m, s)' = MonthRow(m, s)
  BY DEF MonthRow
<1>4. \A b : BucketPageData(period, b)' = BucketPageData(period, b)
  <2>1. TAKE b
  <2>2. {n \in M' : stats'[n][b] > 0} = {n \in M : stats[n][b] > 0}
    OBVIOUS
  <2>3. BucketRows(period, b)' = BucketRows(period, b)
    BY <1>3, <2>2 DEF BucketRows
  <2> QED
    BY <1>1, <2>3 DEF BucketPageData, Hits
<1>5. CASE period \in Months
  <2>1. period \in M
    BY <1>5, ShownPeriods, MonthsOfPeriods
  <2>2. MonthRow(period, Site)' = MonthRow(period, Site)
    BY <1>3, <2>1
  <2> QED
    BY <1>2, <1>4, <1>5, <2>2, PeriodFacts DEF Summary, MonthlySummary
<1>6. CASE period \in Years
  <2>1. [m \in M' |-> MonthRow(m, Site)'] = [m \in M |-> MonthRow(m, Site)]
    BY <1>3
  <2>2. YearlySummary(period)' = YearlySummary(period)
    BY <1>1, <1>2, <2>1 DEF YearlySummary, Hits
  <2>3. period \notin Months
    BY <1>6, PeriodFacts
  <2>4. Summary(period) = YearlySummary(period) /\ Summary(period)' = YearlySummary(period)'
    BY <1>6, <2>3 DEF Summary
  <2> QED
    BY <1>2, <1>4, <2>2, <2>4
<1> QED
  BY <1>5, <1>6, ShownPeriods

\* Nothing is read anew while the tables stay as they are.
LEMMA SameTables ==
  ASSUME UNCHANGED <<stats, complete>>
  PROVE  /\ AvailableMonths' = AvailableMonths /\ Shown' = Shown
         /\ \A period : /\ MonthsOf(period)' = MonthsOf(period)
                        /\ Summary(period)' = Summary(period)
                        /\ BucketIndexRows(period)' = BucketIndexRows(period)
                        /\ \A b : BucketPageData(period, b)' = BucketPageData(period, b)
BY DEF AvailableMonths, Shown, YearsOf, MonthsOf, Summary, MonthlySummary, YearlySummary,
       OverallSummary, YearRow, MonthRow, Hits, BucketIndexRows, BucketPageData, BucketRows


-----------------------------------------------------------------------------
(* Types, and the stamps of months with data. *)

LEMMA Summaries ==
  ASSUME NEW period \in Periods
  PROVE  /\ Summary(period) # Blank
         /\ period # Overview =>
              /\ DOMAIN Summary(period).buckets = DOMAIN BucketIndexRows(period)
              /\ DOMAIN BucketIndexRows(period) \subseteq Buckets
<1>1. DOMAIN BucketIndexRows(period) \subseteq Buckets
  BY DEF BucketIndexRows
<1>2. CASE period \in Months
  <2>1. Summary(period) = MonthlySummary(period)
    BY <1>2, PeriodFacts DEF Summary
  <2> QED
    BY <1>1, <2>1 DEF MonthlySummary, Blank
<1>3. CASE period \in Years
  <2>1. Summary(period) = YearlySummary(period)
    BY <1>3, PeriodFacts DEF Summary
  <2> QED
    BY <1>1, <2>1 DEF YearlySummary, Blank
<1>4. CASE period = Overview
  <2>1. Summary(period) = OverallSummary
    BY <1>4, PeriodFacts DEF Summary
  <2> QED
    BY <1>4, <2>1 DEF OverallSummary, Blank
<1> QED
  BY <1>2, <1>3, <1>4 DEF Periods

LEMMA CommitsFact ==
  ASSUME TypeOK
  PROVE  /\ commits \in Nat /\ MaxCommits \in Nat
         /\ \A m \in Months : stats[m] \in [Buckets \cup {Site} -> 0..commits]
         /\ stats \in [Months -> [Buckets \cup {Site} -> 0..commits]]
<1>1. MaxCommits \in Nat
  BY ReportsAssumption
<1>2. stats \in [Months -> [Buckets \cup {Site} -> 0..commits]]
  BY DEF TypeOK
<1>3. commits \in 0..MaxCommits
  BY DEF TypeOK
<1>4. commits \in Nat
  BY <1>1, <1>3
<1>5. \A m \in Months : stats[m] \in [Buckets \cup {Site} -> 0..commits]
  BY <1>2
<1> QED
  BY <1>1, <1>2, <1>4, <1>5

LEMMA CommitTypes ==
  ASSUME TypeOK, StampsInv, NEW m \in Months, NEW b \in Buckets \cup {Site},
         Flush(m, b) \/ FinalizeMonth(m)
  PROVE  TypeOK' /\ StampsInv' /\ AvailableMonths' = AvailableMonths \cup {m}
<1>1. commits' \in 0..MaxCommits /\ commits' = commits + 1 /\ commits \in Nat
  <2>1. commits < MaxCommits /\ commits' = commits + 1
    BY DEF Flush, FinalizeMonth, MayCommit
  <2> QED
    BY <2>1, CommitsFact
<1>2. updated' = [updated EXCEPT ![m] = now] /\ UNCHANGED <<page, gen, now, damaged>>
  BY DEF Flush, FinalizeMonth
<1>3. updated' \in [Months -> 0..now'] /\ settled' \in BOOLEAN
  <2>1. settled' = FALSE
    BY DEF Flush, FinalizeMonth
  <2>2. now \in 0..now /\ updated \in [Months -> 0..now]
    BY DEF TypeOK
  <2> QED
    BY <1>2, <2>1, <2>2
<1>4. /\ stats' \in [Months -> [Buckets \cup {Site} -> 0..commits']]
      /\ \A n \in Months : n # m => stats'[n] = stats[n]
      /\ stats'[m][Site] > 0 /\ stats'[m][Site] >= stats[m][Site]
  <2>1. CASE Flush(m, b)
    <3> DEFINE row == [s \in DOMAIN stats[m] |-> IF s \in {b, Site} THEN stats[m][s] + 1 ELSE stats[m][s]]
    <3>1. stats' = [stats EXCEPT ![m] = row]
      BY <2>1 DEF Flush
    <3>2. /\ \A k \in 0..commits : k \in 0..commits' /\ k + 1 \in 0..commits'
          /\ stats \in [Months -> [Buckets \cup {Site} -> 0..commits]]
      <4>1. commits \in Nat /\ commits' = commits + 1
        BY <1>1
      <4>2. \A k \in 0..commits : k \in 0..commits' /\ k + 1 \in 0..commits'
        BY <4>1
      <4> QED
        BY <4>2, CommitsFact
    <3>3. row \in [Buckets \cup {Site} -> 0..commits'] /\ row[Site] = stats[m][Site] + 1
      BY <3>2
    <3>4. \A n \in Months : stats[n] \in [Buckets \cup {Site} -> 0..commits']
      BY <3>2
    <3> HIDE DEF row
    <3>5. stats[m][Site] \in Nat
      BY <3>2
    <3> QED
      BY <3>1, <3>3, <3>4, <3>2, <3>5
  <2>2. CASE FinalizeMonth(m)
    <3>1. UNCHANGED stats /\ stats[m][Site] > 0
      BY <2>2 DEF FinalizeMonth
    <3>2. /\ \A k \in 0..commits : k \in 0..commits'
          /\ stats \in [Months -> [Buckets \cup {Site} -> 0..commits]]
      BY <1>1, CommitsFact
    <3> QED
      BY <3>1, <3>2
  <2> QED
    BY <2>1, <2>2
<1>5. AvailableMonths' = AvailableMonths \cup {m}
  BY <1>4 DEF AvailableMonths
<1>6. complete' \subseteq AvailableMonths'
  BY <1>5 DEF Flush, FinalizeMonth, TypeOK
<1>7. StampsInv'
  BY <1>2, <1>5, ShownPeriods DEF TypeOK, StampsInv
<1>8. /\ page' = [p \in Page |-> [time |-> page[p].time, shows |-> page[p].shows]]'
      /\ (\A p \in Page : page[p].time \in 0..now /\ ((page[p].time = 0) <=> (page[p].shows = Blank)))'
  BY <1>2 DEF TypeOK
<1> QED
  BY <1>1, <1>2, <1>3, <1>4, <1>5, <1>6, <1>7, <1>8 DEF TypeOK

LEMMA RollbackTypes ==
  ASSUME TypeOK, StampsInv, NEW t \in Months, Rollback(t)
  PROVE  TypeOK' /\ StampsInv' /\ AvailableMonths' = {m \in AvailableMonths : m < t}
<1>1. /\ stats' = [m \in Months |-> IF m >= t THEN [s \in DOMAIN stats[m] |-> 0] ELSE stats[m]]
      /\ complete' = {m \in complete : m < t} /\ damaged' = damaged \cup {YearOf[t]}
      /\ settled' = FALSE /\ UNCHANGED <<updated, page, gen, now, commits>>
  BY DEF Rollback
<1>2. stats' \in [Months -> [Buckets \cup {Site} -> 0..commits']]
  <2>1. \A m \in Months : stats[m] \in [Buckets \cup {Site} -> 0..commits] /\ 0 \in 0..commits
    <3>1. commits \in Nat
      BY CommitsFact
    <3>2. 0 \in 0..commits
      BY <3>1
    <3> QED
      BY <3>2, CommitsFact, Zenon
  <2> QED
    BY <1>1, <2>1
<1>3. AvailableMonths' = {m \in AvailableMonths : m < t}
  <2>1. \A m \in Months : stats'[m][Site] = IF m >= t THEN 0 ELSE stats[m][Site]
    <3>1. \A m \in Months : DOMAIN stats[m] = Buckets \cup {Site}
      BY DEF TypeOK
    <3>2. TAKE m \in Months
    <3>3. CASE m >= t
      <4>1. stats'[m] = [s \in DOMAIN stats[m] |-> 0]
        BY <1>1, <3>3
      <4> QED
        BY <3>1, <3>3, <4>1
    <3>4. CASE ~(m >= t)
      BY <1>1, <3>4
    <3> QED
      BY <3>3, <3>4
  <2> QED
    BY <2>1, PeriodFacts DEF AvailableMonths
<1>4. complete' \subseteq AvailableMonths' /\ StampsInv'
  BY <1>1, <1>3 DEF TypeOK, StampsInv
<1>5. damaged' \subseteq Periods
  BY <1>1, PeriodFacts DEF TypeOK, Periods
<1>6. /\ page' = [p \in Page |-> [time |-> page[p].time, shows |-> page[p].shows]]'
      /\ (\A p \in Page : page[p].time \in 0..now /\ ((page[p].time = 0) <=> (page[p].shows = Blank)))'
  BY <1>1 DEF TypeOK
<1> QED
  BY <1>1, <1>2, <1>3, <1>4, <1>5, <1>6 DEF TypeOK


\* What gen' has to be in the types.
GenStep ==
  /\ gen' = [pc |-> gen'.pc, queue |-> gen'.queue, period |-> gen'.period,
             months |-> gen'.months, stamps |-> gen'.stamps, stale |-> gen'.stale,
             summary |-> gen'.summary, todo |-> gen'.todo]
  /\ gen'.pc \in {"idle", "next", "write", "buckets"}
  /\ gen'.queue \subseteq Periods /\ gen'.period \in Periods
  /\ gen'.todo \subseteq Buckets /\ gen'.stale \subseteq Years
  /\ gen'.pc = "write" =>
       /\ gen'.summary # Blank
       /\ gen'.period # Overview => DOMAIN gen'.summary.buckets \subseteq Buckets

\* A step of a generation, or the clock.
LEMMA GenerateTypes ==
  ASSUME TypeOK, StampsInv, UNCHANGED <<dbVars, commits>>,
         now' = now \/ now' = now + 1, settled' \in BOOLEAN, damaged' \subseteq Periods,
         \/ UNCHANGED page
         \/ \E p \in Page : \E shown : shown # Blank /\ page' = Written(p, shown),
         gen' = Idle \/ GenStep
  PROVE  TypeOK' /\ StampsInv'
<1>1. AvailableMonths' = AvailableMonths
  BY SameTables DEF dbVars
<1>2. StampsInv'
  BY <1>1 DEF StampsInv, dbVars
<1>3. now' \in Nat \ {0} /\ updated' \in [Months -> 0..now'] /\ \A k \in 0..now : k \in 0..now'
  <2>1. now' \in Nat \ {0} /\ \A k \in 0..now : k \in 0..now'
    BY DEF TypeOK
  <2> QED
    BY <2>1 DEF TypeOK, dbVars
<1>4. /\ (page = [p \in Page |-> [time |-> page[p].time, shows |-> page[p].shows]])'
      /\ (\A p \in Page : page[p].time \in 0..now /\ ((page[p].time = 0) <=> (page[p].shows = Blank)))'
  <2>1. CASE UNCHANGED page
    BY <1>3, <2>1 DEF TypeOK
  <2>2. CASE \E p \in Page : \E shown : shown # Blank /\ page' = Written(p, shown)
    <3>0. PICK p \in Page : \E shown : shown # Blank /\ page' = Written(p, shown)
      BY <2>2
    <3>1. PICK shown : shown # Blank /\ page' = [page EXCEPT ![p] = [time |-> now, shows |-> shown]]
      BY <3>0 DEF Written
    <3>2. page'[p] = [time |-> now, shows |-> shown] /\ \A q \in Page : q # p => page'[q] = page[q]
      BY <3>1 DEF TypeOK
    <3>3. page' = [q \in Page |-> page'[q]]
      BY <3>1 DEF TypeOK
    <3>4. \A q \in Page : page'[q] = [time |-> page'[q].time, shows |-> page'[q].shows]
      BY <3>2 DEF TypeOK
    <3>5. now # 0 /\ now \in 0..now'
      BY <1>3 DEF TypeOK
    <3>6. \A q \in Page : page'[q].time \in 0..now' /\ ((page'[q].time = 0) <=> (page'[q].shows = Blank))
      BY <1>3, <3>1, <3>2, <3>5 DEF TypeOK
    <3> QED
      BY <3>3, <3>4, <3>6
  <2> QED
    BY <2>1, <2>2
<1>5. /\ (gen = [pc |-> gen.pc, queue |-> gen.queue, period |-> gen.period, months |-> gen.months,
            stamps |-> gen.stamps, stale |-> gen.stale, summary |-> gen.summary, todo |-> gen.todo])'
      /\ gen'.pc \in {"idle", "next", "write", "buckets"}
      /\ gen'.queue \subseteq Periods /\ gen'.period \in Periods
      /\ gen'.todo \subseteq Buckets /\ gen'.stale \subseteq Years
      /\ gen'.pc = "write" =>
           /\ gen'.summary # Blank
           /\ gen'.period # Overview => DOMAIN gen'.summary.buckets \subseteq Buckets
  <2>1. CASE gen' = Idle
    BY <2>1 DEF Idle, Periods
  <2>2. CASE gen' # Idle
    BY <2>2 DEF GenStep
  <2> QED
    BY <2>1, <2>2
<1> QED
  BY <1>1, <1>2, <1>3, <1>4, <1>5 DEF TypeOK, dbVars


LEMMA TypesPreserved ==
  ASSUME TypeOK, StampsInv, [Next]_vars
  PROVE  TypeOK' /\ StampsInv'
<1> DEFINE Kept == UNCHANGED <<dbVars, commits>>
           OldPage == UNCHANGED page
           NewPage == \E p \in Page : \E shown : shown # Blank /\ page' = Written(p, shown)
<1> USE DEF dbVars, histVars
<1>1. ASSUME NEW m \in Months, NEW b \in Buckets \cup {Site}, Flush(m, b) \/ FinalizeMonth(m)
      PROVE  TypeOK' /\ StampsInv'
  BY <1>1, CommitTypes
<1>2. ASSUME NEW t \in Months, Rollback(t)
      PROVE  TypeOK' /\ StampsInv'
  BY <1>2, RollbackTypes
<1>3. CASE StartGenerate
  <2>1. GenStep
    BY <1>3, ShownPeriods DEF StartGenerate, Idle, GenStep, Periods
  <2>2. Kept /\ OldPage /\ now' = now /\ settled' \in BOOLEAN /\ damaged' \subseteq Periods
    BY <1>3 DEF StartGenerate, TypeOK
  <2> QED
    BY <2>1, <2>2, GenerateTypes
<1>4. ASSUME NEW period \in Periods, Skip(period)
      PROVE  TypeOK' /\ StampsInv'
  <2>1. GenStep
    BY <1>4 DEF Skip, TypeOK, GenStep
  <2>2. Kept /\ OldPage /\ now' = now /\ settled' \in BOOLEAN /\ damaged' \subseteq Periods
    BY <1>4 DEF Skip, TypeOK
  <2> QED
    BY <2>1, <2>2, GenerateTypes
<1>5. ASSUME NEW period \in Periods, Summarize(period)
      PROVE  TypeOK' /\ StampsInv'
  <2>1. Summary(period) # Blank
        /\ (period # Overview => DOMAIN Summary(period).buckets \subseteq Buckets)
    BY Summaries
  <2>2. gen' = [gen EXCEPT !.pc = "write", !.queue = @ \ {period}, !.period = period,
                           !.summary = Summary(period),
                           !.stale = IF period \in Months THEN @ \cup {YearOf[period]} ELSE @]
    BY <1>5 DEF Summarize
  <2>3. gen'.stale \subseteq Years
    BY <2>2, PeriodFacts DEF TypeOK
  <2>4. GenStep
    BY <2>1, <2>2, <2>3 DEF TypeOK, GenStep
  <2>5. Kept /\ OldPage /\ now' = now /\ settled' \in BOOLEAN /\ damaged' \subseteq Periods
    BY <1>5 DEF Summarize, TypeOK
  <2> QED
    BY <2>4, <2>5, GenerateTypes
<1>6. CASE RenderMonthPage \/ RenderYearPage \/ RenderIndexPage
  <2>1. /\ gen.pc = "write" /\ page' = Written(<<gen.period, Site>>, gen.summary)
        /\ gen' = [gen EXCEPT !.pc = "buckets", !.todo = gen'.todo]
        /\ gen'.todo \subseteq Buckets
    <3>1. CASE RenderMonthPage
      BY <3>1, PeriodFacts DEF RenderMonthPage, TypeOK
    <3>2. CASE RenderYearPage
      BY <3>2, PeriodFacts DEF RenderYearPage, TypeOK
    <3>3. CASE RenderIndexPage
      BY <3>3 DEF RenderIndexPage, TypeOK
    <3> QED
      BY <1>6, <3>1, <3>2, <3>3
  <2>2. GenStep
    BY <2>1 DEF TypeOK, GenStep
  <2>3. <<gen.period, Site>> \in Page /\ gen.summary # Blank
    BY <2>1 DEF TypeOK, Page
  <2>4. NewPage
    BY <2>1, <2>3
  <2>5. Kept /\ now' = now /\ settled' \in BOOLEAN /\ damaged' \subseteq Periods
    BY <1>6 DEF RenderMonthPage, RenderYearPage, RenderIndexPage, TypeOK
  <2> QED
    BY <2>2, <2>4, <2>5, GenerateTypes
<1>7. ASSUME NEW b \in Buckets, RenderBucketPage(b)
      PROVE  TypeOK' /\ StampsInv'
  <2>1. GenStep
    BY <1>7 DEF RenderBucketPage, TypeOK, GenStep
  <2>2. <<gen.period, b>> \in Page /\ BucketPageData(gen.period, b) # Blank
    BY DEF TypeOK, Page, BucketPageData, Blank
  <2>3. NewPage
    BY <1>7, <2>2 DEF RenderBucketPage
  <2>4. Kept /\ now' = now /\ settled' \in BOOLEAN /\ damaged' \subseteq Periods
    BY <1>7 DEF RenderBucketPage, TypeOK
  <2> QED
    BY <2>1, <2>3, <2>4, GenerateTypes
<1>8. CASE NextPeriod
  <2>1. gen' = Idle \/ GenStep
    BY <1>8 DEF NextPeriod, TypeOK, GenStep
  <2>2. Kept /\ OldPage /\ now' = now /\ settled' \in BOOLEAN /\ damaged' \subseteq Periods
    BY <1>8 DEF NextPeriod, TypeOK
  <2> QED
    BY <2>1, <2>2, GenerateTypes
<1>9. CASE Interrupt
  <2>1. OldPage \/ NewPage
    <3>1. Torn # Blank
      BY DEF Torn, Blank
    <3>2. \A b \in Buckets \cup {Site} : <<gen.period, b>> \in Page
      BY DEF TypeOK, Page
    <3>3. gen.todo \subseteq Buckets
      BY DEF TypeOK
    <3> QED
      BY <1>9, <3>1, <3>2, <3>3 DEF Interrupt
  <2>2. damaged' \subseteq Periods
    BY <1>9 DEF Interrupt, TypeOK
  <2>3. Kept /\ now' = now /\ settled' \in BOOLEAN /\ gen' = Idle
    BY <1>9 DEF Interrupt, TypeOK
  <2> QED
    BY <2>1, <2>2, <2>3, GenerateTypes
<1>10. CASE Tick \/ UNCHANGED vars
  <2>1. Kept /\ OldPage /\ (now' = now \/ now' = now + 1) /\ gen' = gen
        /\ settled' \in BOOLEAN /\ damaged' \subseteq Periods
    BY <1>10 DEF Tick, vars, TypeOK
  <2>2. GenStep
    BY <2>1 DEF TypeOK, GenStep
  <2> QED
    BY <2>1, <2>2, GenerateTypes
<1> QED
  BY <1>1, <1>2, <1>3, <1>4, <1>5, <1>6, <1>7, <1>8, <1>9, <1>10 DEF Next, Generate


-----------------------------------------------------------------------------
(* Which pages can be trusted. *)

LEMMA FreshKept ==
  ASSUME NEW period \in Shown \ {Overview}, MonthsOf(period)' = MonthsOf(period),
         \A m \in MonthsOf(period) :
           stats'[m] = stats[m] /\ (m \in complete' <=> m \in complete),
         UNCHANGED page
  PROVE  Fresh(period)' <=> Fresh(period)
<1>1. /\ Summary(period)' = Summary(period)
      /\ BucketIndexRows(period)' = BucketIndexRows(period)
      /\ \A b : BucketPageData(period, b)' = BucketPageData(period, b)
  BY SameRows
<1> QED
  BY <1>1 DEF Fresh

\* A period none of whose pages is written.
LEMMA PagesKept ==
  ASSUME UNCHANGED <<stats, complete, updated>>, NEW period \in Periods,
         \A s \in Buckets \cup {Site} : page'[<<period, s>>] = page[<<period, s>>]
  PROVE  (Fresh(period)' <=> Fresh(period)) /\ (Current(period)' <=> Current(period))
<1>1. /\ MonthsOf(period)' = MonthsOf(period)
      /\ Summary(period)' = Summary(period)
      /\ BucketIndexRows(period)' = BucketIndexRows(period)
      /\ \A b : BucketPageData(period, b)' = BucketPageData(period, b)
  BY SameTables
<1>2. Current(period)' <=> Current(period)
  BY <1>1 DEF Current
<1>3. period # Overview => DOMAIN BucketIndexRows(period) \subseteq Buckets
  BY Summaries
<1> HIDE DEF Fresh
<1>4. Fresh(period)' <=> Fresh(period)
  <2>1. CASE period = Overview
    BY <1>1, <2>1 DEF Fresh
  <2>2. CASE period # Overview
    <3>1. \A b \in DOMAIN BucketIndexRows(period) : page'[<<period, b>>] = page[<<period, b>>]
      BY <1>3, <2>2
    <3> QED
      BY <1>1, <2>2, <3>1 DEF Fresh
  <2> QED
    BY <2>1, <2>2
<1> QED
  BY <1>2, <1>4

\* A commit comes when nothing is generated, after the last page was written.
LEMMA CommitTime ==
  ASSUME TypeOK, Trouble = {}, MayCommit
  PROVE  gen.pc = "idle" /\ \A p \in Page : page[p].time < now
<1>1. gen.pc = "idle" /\ now > Newest
  BY DEF MayCommit
<1> DEFINE times == {page[p].time : p \in Page}
<1>2. times \in SUBSET (0..now) /\ now \in Nat
  BY DEF TypeOK
<1>3. times # {}
  <2>1. <<Overview, Site>> \in Page
    BY DEF Page, Periods
  <2> QED
    BY <2>1
<1>4. \A t \in times : t <= Newest /\ Newest \in times
  <2> HIDE DEF times
  <2>1. \A t \in times : t <= Greatest(times) /\ Greatest(times) \in times
    BY <1>2, <1>3, GreatestExists
  <2> QED
    BY <2>1 DEF Newest, times
<1>5. \A t \in times : t < now
  <2> HIDE DEF times
  <2>1. TAKE t \in times
  <2>2. \A k \in times : k \in Nat
    BY <1>2
  <2> QED
    <3>1. t <= Newest /\ Newest \in times /\ Newest < now
      BY <1>1, <1>4
    <3>2. t \in Nat /\ Newest \in Nat /\ now \in Nat
      BY <1>2, <2>2, <3>1
    <3> QED
      BY <3>1, <3>2
<1> QED
  BY <1>1, <1>5

\* ShownPeriods of the next state.
LEMMA NextShown == (
  /\ AvailableMonths \subseteq Months
  /\ Shown \subseteq Periods /\ Overview \in Shown
  /\ \A period \in Shown \ {Overview} : MonthsOf(period) # {}
  /\ \A period \in Shown \ {Overview} : period \in Months \cup Years
  /\ \A period \in Months \cup Years : MonthsOf(period) # {} => period \in Shown
  /\ \A m \in Months : m \in Shown <=> m \in AvailableMonths)'
BY ShownPeriods, PTL

LEMMA CommitTrust ==
  ASSUME TypeOK, StampsInv, Trouble = {}, TrustInv,
         NEW m \in Months, NEW b \in Buckets \cup {Site}, Flush(m, b) \/ FinalizeMonth(m)
  PROVE  TrustInv' /\ InHandInv' /\ DoneInv'
<1>1. /\ gen.pc = "idle" /\ gen' = gen /\ settled' = FALSE
      /\ \A p \in Page : page[p].time < now
      /\ updated' = [updated EXCEPT ![m] = now] /\ UNCHANGED <<page, damaged>>
  BY CommitTime DEF Flush, FinalizeMonth
<1>2. /\ \A n \in Months : n # m => stats'[n] = stats[n]
      /\ \A n \in Months : n # m => (n \in complete' <=> n \in complete)
  BY DEF TypeOK, Flush, FinalizeMonth
<1>3. ASSUME NEW period \in (Shown' \ {Overview}) \ damaged, Current(period)'
      PROVE  Fresh(period)'
  <2>0. period \in Months \cup Years /\ MonthsOf(period)' # {}
    BY NextShown
  <2>1. m \notin MonthsOf(period)'
    <3>1. <<period, Site>> \in Page
      BY <2>0 DEF Page, Periods
    <3>2. page[<<period, Site>>].time < now
      BY <1>1, <3>1
    <3>3. updated'[m] = now
      BY <1>1 DEF TypeOK
    <3>4. page[<<period, Site>>].time \in Nat /\ now \in Nat
      BY <3>1 DEF TypeOK
    <3>5. m \in MonthsOf(period)' => now <= page[<<period, Site>>].time
      BY <1>1, <1>3, <3>3 DEF Current
    <3> QED
      BY <3>2, <3>4, <3>5
  <2>2. MonthsOf(period)' = MonthsOf(period)
    BY <2>1, CommitTypes DEF MonthsOf
  <2>3. period \in Shown \ {Overview}
    BY <2>0, <2>2, ShownPeriods, PeriodFacts
  <2>4. Current(period)
    BY <1>1, <1>3, <2>1, <2>2 DEF Current
  <2> QED
    <3>1. \A n \in MonthsOf(period) : n \in Months /\ n # m
      BY <2>1, <2>2 DEF MonthsOf, AvailableMonths
    <3>2. Fresh(period)
      BY <1>1, <1>3, <2>3, <2>4 DEF TrustInv
    <3> QED
      BY <1>1, <1>2, <2>2, <2>3, <3>1, <3>2, FreshKept
<1> QED
  BY <1>1, <1>3 DEF TrustInv, InHandInv, DoneInv


LEMMA RollbackTrust ==
  ASSUME TypeOK, StampsInv, TrustInv, NEW t \in Months, Rollback(t)
  PROVE  TrustInv' /\ InHandInv' /\ DoneInv'
<1>1. /\ stats' = [m \in Months |-> IF m >= t THEN [s \in DOMAIN stats[m] |-> 0] ELSE stats[m]]
      /\ complete' = {m \in complete : m < t} /\ damaged' = damaged \cup {YearOf[t]}
      /\ gen.pc = "idle" /\ gen' = gen /\ settled' = FALSE /\ UNCHANGED <<updated, page>>
  BY DEF Rollback
<1>2. AvailableMonths' = {m \in AvailableMonths : m < t}
  BY RollbackTypes
<1>3. ASSUME NEW period \in (Shown' \ {Overview}) \ damaged', Current(period)'
      PROVE  Fresh(period)'
  <2>1. period \in Months \cup Years /\ MonthsOf(period)' # {} /\ period # YearOf[t]
    BY <1>1, NextShown
  <2>2. MonthsOf(period)' \subseteq MonthsOf(period)
    BY <1>2 DEF MonthsOf
  <2>3. \A m \in MonthsOf(period) : m < t
    <3>1. PICK n \in MonthsOf(period)' : n \in Months /\ n < t
      BY <1>2, <2>1, ShownPeriods DEF MonthsOf
    <3>2. TAKE m \in MonthsOf(period)
    <3>3. m \in Months /\ n \in MonthsOf(period)
      BY <2>2, <3>1, ShownPeriods DEF MonthsOf
    <3>4. CASE period \in Months
      BY <3>1, <3>3, <3>4, MonthsOfPeriods
    <3>5. CASE period \in Years
      <4>1. YearOf[m] = period /\ YearOf[n] = period
        BY <3>3, <3>5, MonthsOfPeriods
      <4>2. n <= t => YearOf[n] <= YearOf[t]
        BY <3>1, PeriodFacts
      <4>3. t <= m => YearOf[t] <= YearOf[m]
        BY <3>3, PeriodFacts
      <4>4. n \in Nat /\ m \in Nat /\ t \in Nat /\ YearOf[t] \in Nat /\ period \in Nat
        BY <3>1, <3>3, <3>5, PeriodFacts
      <4> QED
        BY <2>1, <3>1, <4>1, <4>2, <4>3, <4>4
    <3> QED
      BY <2>1, <3>4, <3>5
  <2>4. MonthsOf(period)' = MonthsOf(period)
    BY <1>2, <2>3 DEF MonthsOf
  <2>5. \A m \in MonthsOf(period) : stats'[m] = stats[m] /\ (m \in complete' <=> m \in complete)
    <3>1. TAKE m \in MonthsOf(period)
    <3>2. m < t /\ m \in Months /\ t \in Nat /\ m \in Nat
      BY <2>3, ShownPeriods, PeriodFacts DEF MonthsOf
    <3> QED
      BY <1>1, <3>2
  <2>6. period \in Shown \ {Overview}
    BY <2>1, <2>4, ShownPeriods, PeriodFacts
  <2>7. Current(period)
    BY <1>1, <1>3, <2>4 DEF Current
  <2>8. Fresh(period)
    BY <1>1, <2>6, <2>7 DEF TrustInv
  <2> QED
    BY <1>1, <2>4, <2>5, <2>6, <2>8, FreshKept
<1> QED
  BY <1>1, <1>3 DEF TrustInv, InHandInv, DoneInv

\* A page of a month or a year that is left alone is current.
LEMMA UpToDateCurrent ==
  ASSUME TypeOK, NEW period \in Periods, UpToDate(period),
         gen.months = AvailableMonths, gen.stamps = updated
  PROVE  period # Overview /\ Current(period)
<1>1. period # Overview
  BY PeriodFacts DEF UpToDate
<1>2. page[<<period, Site>>].time \in Nat
  <2>1. <<period, Site>> \in Page
    BY DEF Page
  <2>2. page[<<period, Site>>].time \in 0..now /\ now \in Nat
    BY <2>1 DEF TypeOK
  <2> QED
    BY <2>2
<1>3. CASE period \in Months
  <2>1. FileIsCurrent(<<period, Site>>, updated[period])
    BY <1>3, PeriodFacts DEF UpToDate
  <2>2. updated[period] \in Nat
    BY <1>3 DEF TypeOK
  <2>3. MonthsOf(period) \subseteq {period}
    BY <1>3, MonthsOfPeriods
  <2> QED
    BY <1>1, <1>2, <2>1, <2>2, <2>3 DEF FileIsCurrent, Current
<1>4. CASE period \in Years
  <2> DEFINE stamps == {updated[m] : m \in {n \in AvailableMonths : YearOf[n] = period}}
  <2>1. FileIsCurrent(<<period, Site>>, Greatest(stamps))
    BY <1>4, PeriodFacts DEF UpToDate, YearDbTs
  <2>2. stamps \in SUBSET (0..now) /\ now \in Nat
    BY ShownPeriods DEF TypeOK
  <2>3. \A m \in MonthsOf(period) : updated[m] \in stamps
    BY <1>4, MonthsOfPeriods
  <2> HIDE DEF stamps
  <2>4. stamps # {} => Greatest(stamps) \in stamps /\ \A y \in stamps : y <= Greatest(stamps)
    BY <2>2, GreatestExists
  <2>5. \A y \in stamps : y <= page[<<period, Site>>].time
    <3>1. TAKE y \in stamps
    <3>2. y <= Greatest(stamps) /\ Greatest(stamps) \in 0..now /\ y \in 0..now
      BY <2>2, <2>4
    <3>3. page[<<period, Site>>].time >= Greatest(stamps)
      BY <2>1 DEF FileIsCurrent
    <3> QED
      BY <1>2, <2>2, <3>2, <3>3
  <2> QED
    BY <1>1, <2>1, <2>3, <2>5 DEF FileIsCurrent, Current
<1> QED
  BY <1>1, <1>3, <1>4 DEF Periods


\* The invariants of an unfinished generation, and the steps that preserve them.
GenInv == TrustInv /\ InHandInv /\ DoneInv

LEMMA StartGenerateTrust ==
  ASSUME TypeOK, GenInv, StartGenerate
  PROVE  GenInv'
<1>1. /\ gen.pc = "idle" /\ UNCHANGED <<stats, complete, updated, page, damaged>> /\ ~settled'
      /\ gen'.pc = "next" /\ gen'.queue = Shown /\ gen'.months = AvailableMonths
      /\ gen'.stamps = updated
  BY DEF StartGenerate, Idle, dbVars
<1>2. AvailableMonths' = AvailableMonths /\ Shown' = Shown
  BY <1>1, SameTables
<1>3. \A period \in Periods : (Fresh(period)' <=> Fresh(period)) /\ (Current(period)' <=> Current(period))
  BY <1>1, PagesKept
<1>4. TrustInv'
  BY <1>1, <1>2, <1>3, ShownPeriods DEF GenInv, TrustInv
<1> QED
  BY <1>1, <1>2, <1>4, ShownPeriods DEF GenInv, InHandInv, DoneInv

LEMMA SkipTrust ==
  ASSUME TypeOK, GenInv, NEW p \in Periods, Skip(p)
  PROVE  GenInv'
<1>1. /\ gen.pc = "next" /\ UNCHANGED <<stats, complete, updated, page, damaged, settled>>
      /\ UpToDate(p) /\ gen' = [gen EXCEPT !.queue = gen.queue \ {p}]
  BY DEF Skip, dbVars, histVars
<1>2. /\ gen'.pc = "next" /\ gen'.queue = gen.queue \ {p} /\ gen'.months = gen.months
      /\ gen'.stamps = gen.stamps
  BY <1>1 DEF TypeOK
<1>3. AvailableMonths' = AvailableMonths /\ Shown' = Shown
  BY <1>1, SameTables
<1>4. \A period \in Periods : (Fresh(period)' <=> Fresh(period)) /\ (Current(period)' <=> Current(period))
  BY <1>1, PagesKept
<1>5. p # Overview /\ Current(p)
  BY <1>1, UpToDateCurrent DEF GenInv, InHandInv
<1>6. TrustInv'
  BY <1>1, <1>2, <1>3, <1>4, ShownPeriods DEF GenInv, TrustInv
<1>7. InHandInv'
  BY <1>1, <1>2, <1>3, <1>5 DEF GenInv, InHandInv
<1>8. DoneInv'
  BY <1>1, <1>2, <1>3, <1>4, <1>5, ShownPeriods DEF GenInv, DoneInv, InHandInv
<1> QED
  BY <1>6, <1>7, <1>8 DEF GenInv

LEMMA SummarizeTrust ==
  ASSUME TypeOK, GenInv, NEW p \in Periods, Summarize(p)
  PROVE  GenInv'
<1>1. /\ gen.pc = "next" /\ UNCHANGED <<stats, complete, updated, page, damaged, settled>>
      /\ IsNext(p)
      /\ gen' = [gen EXCEPT !.pc = "write", !.queue = gen.queue \ {p}, !.period = p,
                            !.summary = Summary(p), !.stale = gen'.stale]
  BY DEF Summarize, dbVars, histVars, TypeOK
<1>2. /\ gen'.pc = "write" /\ gen'.queue = gen.queue \ {p} /\ gen'.period = p
      /\ gen'.months = gen.months /\ gen'.stamps = gen.stamps /\ gen'.summary = Summary(p)
  BY <1>1 DEF TypeOK
<1>3. AvailableMonths' = AvailableMonths /\ Shown' = Shown /\ Summary(p)' = Summary(p)
  BY <1>1, SameTables
<1>4. \A period \in Periods : (Fresh(period)' <=> Fresh(period)) /\ (Current(period)' <=> Current(period))
  BY <1>1, PagesKept
<1>5. p \in gen.queue /\ p \in Shown
  BY <1>1 DEF IsNext, GenInv, InHandInv
<1>6. p = Overview => gen'.queue = {}
  <2>1. ASSUME p = Overview, NEW q \in gen.queue \ {p} PROVE FALSE
    <3>1. Precedes(Overview, q) /\ q \in Months \cup Years
      BY <1>1, <2>1 DEF IsNext, TypeOK, Periods
    <3>2. YearIn(Overview) = 0 /\ YearIn(q) \in Nat \ {0}
      BY <3>1, PeriodFacts DEF YearIn, Overview
    <3> QED
      BY <3>1, <3>2, PeriodFacts DEF Precedes
  <2> QED
    BY <1>2, <2>1
<1>7. TrustInv'
  BY <1>1, <1>2, <1>3, <1>4, ShownPeriods DEF GenInv, TrustInv
<1>8. InHandInv'
  BY <1>1, <1>2, <1>3, <1>5, <1>6 DEF GenInv, InHandInv
<1>9. DoneInv'
  BY <1>1, <1>2, <1>3, <1>4, ShownPeriods DEF GenInv, DoneInv, InHandInv
<1> QED
  BY <1>7, <1>8, <1>9 DEF GenInv


LEMMA RenderTrust ==
  ASSUME TypeOK, StampsInv, GenInv, RenderMonthPage \/ RenderYearPage \/ RenderIndexPage
  PROVE  GenInv'
<1> DEFINE p == gen.period
<1>1. /\ gen.pc = "write" /\ UNCHANGED <<stats, complete, updated, damaged, settled>>
      /\ page' = [page EXCEPT ![<<p, Site>>] = [time |-> now, shows |-> gen.summary]]
      /\ gen' = [gen EXCEPT !.pc = "buckets", !.todo = gen'.todo]
      /\ p # Overview => gen'.todo = DOMAIN gen.summary.buckets
  <2>1. CASE RenderMonthPage
    BY <2>1 DEF RenderMonthPage, Written, dbVars, histVars, TypeOK
  <2>2. CASE RenderYearPage
    BY <2>2 DEF RenderYearPage, Written, dbVars, histVars, TypeOK
  <2>3. CASE RenderIndexPage
    BY <2>3 DEF RenderIndexPage, Written, dbVars, histVars, TypeOK
  <2> QED
    BY <2>1, <2>2, <2>3
<1>2. /\ gen'.pc = "buckets" /\ gen'.queue = gen.queue /\ gen'.period = p
      /\ gen'.months = gen.months /\ gen'.stamps = gen.stamps
  BY <1>1 DEF TypeOK
<1>3. /\ AvailableMonths' = AvailableMonths /\ Shown' = Shown /\ Summary(p)' = Summary(p)
      /\ MonthsOf(p)' = MonthsOf(p) /\ BucketIndexRows(p)' = BucketIndexRows(p)
  BY <1>1, <1>2, SameTables
<1>4. /\ p \in Shown /\ p \in Periods /\ gen.summary = Summary(p) /\ ~settled
      /\ IF p = Overview THEN gen.queue = {} ELSE Overview \in gen.queue
  BY <1>1 DEF GenInv, InHandInv, TypeOK
<1>5. page'[<<p, Site>>] = [time |-> now, shows |-> Summary(p)]
  <2>1. <<p, Site>> \in Page
    BY <1>4 DEF Page
  <2> QED
    BY <1>1, <1>4, <2>1 DEF TypeOK
<1>6. Current(p)'
  <2>1. \A m \in MonthsOf(p) : updated[m] <= now
    <3>1. now \in Nat /\ \A m \in Months : updated[m] \in 0..now
      BY DEF TypeOK
    <3>2. MonthsOf(p) \subseteq Months
      BY ShownPeriods DEF MonthsOf
    <3>3. TAKE m \in MonthsOf(p)
    <3>4. updated[m] \in 0..now
      BY <3>1, <3>2
    <3> QED
      BY <3>1, <3>4
  <2>2. now # 0
    BY DEF TypeOK
  <2> QED
    BY <1>1, <1>2, <1>3, <1>5, <2>1, <2>2 DEF Current
<1>7. ASSUME NEW period \in Periods, period # p
      PROVE  (Fresh(period)' <=> Fresh(period)) /\ (Current(period)' <=> Current(period))
  <2>1. \A s \in Buckets \cup {Site} : page'[<<period, s>>] = page[<<period, s>>]
    BY <1>1, <1>7 DEF Page, TypeOK
  <2> QED
    BY <1>1, <2>1, PagesKept
<1>8. p # Overview => DOMAIN BucketIndexRows(p)' \ gen'.todo = {}
  BY <1>1, <1>3, <1>4, Summaries
<1>9. TrustInv'
  BY <1>1, <1>2, <1>3, <1>7, ShownPeriods DEF GenInv, TrustInv
<1>10. InHandInv'
  BY <1>1, <1>2, <1>3, <1>4, <1>5, <1>6, <1>8 DEF GenInv, InHandInv
<1>11. DoneInv'
  BY <1>1, <1>2, <1>3, <1>4, <1>7, ShownPeriods DEF GenInv, DoneInv
<1> QED
  BY <1>9, <1>10, <1>11 DEF GenInv

LEMMA RenderBucketTrust ==
  ASSUME TypeOK, GenInv, NEW b \in Buckets, RenderBucketPage(b)
  PROVE  GenInv'
<1> DEFINE p == gen.period
<1>1. /\ gen.pc = "buckets" /\ UNCHANGED <<stats, complete, updated, damaged, settled>>
      /\ page' = [page EXCEPT ![<<p, b>>] = [time |-> now, shows |-> BucketPageData(p, b)]]
      /\ gen' = [gen EXCEPT !.todo = gen.todo \ {b}]
  BY DEF RenderBucketPage, Written, dbVars, histVars
<1>2. /\ gen'.pc = "buckets" /\ gen'.queue = gen.queue /\ gen'.period = p
      /\ gen'.months = gen.months /\ gen'.stamps = gen.stamps /\ gen'.todo = gen.todo \ {b}
  BY <1>1 DEF TypeOK
<1>3. /\ AvailableMonths' = AvailableMonths /\ Shown' = Shown /\ Summary(p)' = Summary(p)
      /\ MonthsOf(p)' = MonthsOf(p) /\ BucketIndexRows(p)' = BucketIndexRows(p)
      /\ \A c : BucketPageData(p, c)' = BucketPageData(p, c)
  BY <1>1, SameTables
<1>4. /\ p \in Shown /\ p \in Periods /\ ~settled
  BY <1>1 DEF GenInv, InHandInv, TypeOK
<1>5. /\ page'[<<p, b>>].shows = BucketPageData(p, b)
      /\ \A s \in Buckets \cup {Site} : s # b => page'[<<p, s>>] = page[<<p, s>>]
      /\ b # Site
  <2>1. \A s \in Buckets \cup {Site} : <<p, s>> \in Page
    BY <1>4 DEF Page
  <2> QED
    BY <1>1, <2>1, ReportsAssumption DEF TypeOK
<1>6. Current(p)'
  BY <1>1, <1>2, <1>3, <1>5 DEF Current, GenInv, InHandInv
<1>7. ASSUME NEW period \in Periods, period # p
      PROVE  (Fresh(period)' <=> Fresh(period)) /\ (Current(period)' <=> Current(period))
  <2>1. \A s \in Buckets \cup {Site} : page'[<<period, s>>] = page[<<period, s>>]
    BY <1>1, <1>7 DEF Page, TypeOK
  <2> QED
    BY <1>1, <2>1, PagesKept
<1>8. p # Overview =>
        \A c \in DOMAIN BucketIndexRows(p)' \ gen'.todo :
          page'[<<p, c>>].shows = BucketPageData(p, c)'
  <2>1. ASSUME p # Overview, NEW c \in DOMAIN BucketIndexRows(p), c \notin gen.todo \ {b}
        PROVE  page'[<<p, c>>].shows = BucketPageData(p, c)
    <3>1. CASE c = b
      BY <1>5, <3>1
    <3>2. CASE c # b
      <4>1. c \in Buckets
        BY <1>4, <2>1, Summaries
      <4>2. page[<<p, c>>].shows = BucketPageData(p, c)
        BY <1>1, <2>1, <3>2 DEF GenInv, InHandInv
      <4> QED
        BY <1>5, <3>2, <4>1, <4>2
    <3> QED
      BY <3>1, <3>2
  <2> QED
    BY <1>2, <1>3, <2>1
<1>9. TrustInv'
  BY <1>1, <1>2, <1>3, <1>7, ShownPeriods DEF GenInv, TrustInv
<1>10. InHandInv'
  <2>1. page'[<<p, Site>>].shows = Summary(p)
    BY <1>1, <1>5 DEF GenInv, InHandInv
  <2> QED
    BY <1>1, <1>2, <1>3, <1>4, <1>6, <1>8, <2>1 DEF GenInv, InHandInv
<1>11. DoneInv'
  BY <1>1, <1>2, <1>3, <1>4, <1>7, ShownPeriods DEF GenInv, DoneInv
<1> QED
  BY <1>9, <1>10, <1>11 DEF GenInv

LEMMA NextPeriodTrust ==
  ASSUME TypeOK, GenInv, NextPeriod
  PROVE  GenInv'
<1> DEFINE p == gen.period
<1>1. /\ gen.pc = "buckets" /\ gen.todo = {}
      /\ UNCHANGED <<stats, complete, updated, page>> /\ damaged' = damaged \ {p}
      /\ gen' = IF gen.queue = {} THEN Idle ELSE [gen EXCEPT !.pc = "next"]
      /\ settled' = (gen.queue = {})
  BY DEF NextPeriod, dbVars
<1>2. AvailableMonths' = AvailableMonths /\ Shown' = Shown
  BY <1>1, SameTables
<1>3. /\ p \in Shown /\ p \in Periods /\ Current(p)
      /\ IF p = Overview THEN gen.queue = {} ELSE Overview \in gen.queue
  BY <1>1 DEF GenInv, InHandInv, TypeOK
<1>4. \A period \in Periods : (Fresh(period)' <=> Fresh(period)) /\ (Current(period)' <=> Current(period))
  BY <1>1, PagesKept
<1>5. Fresh(p)
  BY <1>1, <1>3 DEF GenInv, InHandInv, Fresh
<1>6. TrustInv'
  <2>1. ASSUME NEW period \in (Shown \ {Overview}) \ damaged', Current(period)
        PROVE  Fresh(period)
    <3>1. CASE period = p
      BY <1>5, <3>1
    <3>2. CASE period # p
      BY <1>1, <2>1, <3>2 DEF GenInv, TrustInv
    <3> QED
      BY <3>1, <3>2
  <2> QED
    BY <1>2, <1>4, <2>1, ShownPeriods DEF TrustInv
<1>7. \A period \in Shown \ gen.queue : Current(period)'
  BY <1>1, <1>3, <1>4, ShownPeriods DEF GenInv, DoneInv
<1>8. CASE gen.queue = {}
  <2>1. p = Overview /\ gen'.pc = "idle" /\ settled'
    BY <1>1, <1>3, <1>8 DEF Idle
  <2>2. Fresh(Overview)'
    BY <1>3, <1>4, <1>5, <2>1
  <2> QED
    BY <1>2, <1>6, <1>7, <1>8, <2>1, <2>2 DEF GenInv, InHandInv, DoneInv
<1>9. CASE gen.queue # {}
  <2>1. /\ gen'.pc = "next" /\ gen'.queue = gen.queue /\ gen'.months = gen.months
        /\ gen'.stamps = gen.stamps /\ ~settled' /\ Overview \in gen.queue
    BY <1>1, <1>3, <1>9 DEF TypeOK
  <2>2. InHandInv'
    BY <1>1, <1>2, <2>1 DEF GenInv, InHandInv
  <2> QED
    BY <1>2, <1>6, <1>7, <2>1, <2>2 DEF GenInv, DoneInv
<1> QED
  BY <1>8, <1>9

LEMMA InterruptTrust ==
  ASSUME TypeOK, GenInv, Interrupt
  PROVE  GenInv'
<1> DEFINE p == gen.period
<1>1. /\ gen.pc # "idle" /\ gen' = Idle /\ UNCHANGED <<stats, complete, updated, settled>>
      /\ damaged' = IF gen.pc = "buckets" \/ page' # page THEN damaged \cup {p} ELSE damaged
      /\ page' = page \/ \E s \in Buckets \cup {Site} :
                           page' = [page EXCEPT ![<<p, s>>] = [time |-> now, shows |-> Torn]]
  BY DEF Interrupt, Written, dbVars, TypeOK
<1>2. AvailableMonths' = AvailableMonths /\ Shown' = Shown
  BY <1>1, SameTables
<1>3. ~settled /\ gen'.pc = "idle"
  BY <1>1 DEF GenInv, InHandInv, Idle
<1>4. ASSUME NEW period \in (Shown \ {Overview}) \ damaged', Current(period)'
      PROVE  Fresh(period)'
  <2>1. \A s \in Buckets \cup {Site} : page'[<<period, s>>] = page[<<period, s>>]
    <3>1. CASE page' = page
      BY <3>1
    <3>2. CASE page' # page
      <4>1. period # p
        BY <1>1, <1>4, <3>2
      <4>2. PICK s \in Buckets \cup {Site} :
              page' = [page EXCEPT ![<<p, s>>] = [time |-> now, shows |-> Torn]]
        BY <1>1, <3>2
      <4>3. \A r \in Buckets \cup {Site} : <<period, r>> \in Page /\ <<period, r>> # <<p, s>>
        BY <1>4, <4>1, ShownPeriods DEF Page
      <4> QED
        BY <4>2, <4>3 DEF TypeOK
    <3> QED
      BY <3>1, <3>2
  <2>2. (Fresh(period)' <=> Fresh(period)) /\ (Current(period)' <=> Current(period))
    BY <1>1, <1>4, <2>1, PagesKept, ShownPeriods
  <2>3. ~(gen.pc = "buckets" /\ gen.period = period) /\ period \notin damaged
    BY <1>1, <1>4
  <2> QED
    BY <1>4, <2>2, <2>3 DEF GenInv, TrustInv
<1> QED
  BY <1>1, <1>2, <1>3, <1>4 DEF GenInv, TrustInv, InHandInv, DoneInv


-----------------------------------------------------------------------------
(* The theorems. *)

LEMMA InitPages == Init => PagesInv
<1> SUFFICES ASSUME Init PROVE PagesInv
  OBVIOUS
<1>1. AvailableMonths = {} /\ gen.pc = "idle" /\ settled = FALSE
  BY DEF Init, AvailableMonths, Idle
<1>2. MaxCommits \in Nat
  BY ReportsAssumption
<1>3. TypeOK
  <2>1. stats \in [Months -> [Buckets \cup {Site} -> 0..commits]]
    BY DEF Init
  <2>2. page = [p \in Page |-> [time |-> page[p].time, shows |-> page[p].shows]]
        /\ \A p \in Page : page[p].time \in 0..now /\ ((page[p].time = 0) <=> (page[p].shows = Blank))
    BY DEF Init, NoPage
  <2>3. commits \in 0..MaxCommits /\ now \in Nat \ {0} /\ updated \in [Months -> 0..now]
    BY <1>2 DEF Init
  <2> QED
    BY <2>1, <2>2, <2>3 DEF Init, Idle, TypeOK, Periods
<1>4. Shown = {Overview}
  BY <1>1 DEF Shown, YearsOf
<1> QED
  BY <1>1, <1>3, <1>4 DEF PagesInv, StampsInv, TrustInv, InHandInv, DoneInv

LEMMA GenPreserved ==
  ASSUME TypeOK, StampsInv, GenInv, Trouble = {}, [Next]_vars
  PROVE  GenInv'
<1>1. ASSUME NEW m \in Months, NEW b \in Buckets \cup {Site}, Flush(m, b) \/ FinalizeMonth(m)
      PROVE  GenInv'
  BY <1>1, CommitTrust DEF GenInv
<1>2. ASSUME NEW t \in Months, Rollback(t)
      PROVE  GenInv'
  BY <1>2, RollbackTrust DEF GenInv
<1>3. CASE Generate
  BY <1>3, StartGenerateTrust, SkipTrust, SummarizeTrust, RenderTrust, RenderBucketTrust,
     NextPeriodTrust DEF Generate
<1>4. CASE Interrupt
  BY <1>4, InterruptTrust
<1>5. CASE Tick \/ UNCHANGED vars
  <2>1. UNCHANGED <<stats, complete, updated, page, gen, damaged, settled>>
    BY <1>5 DEF Tick, vars, dbVars, histVars
  <2>2. AvailableMonths' = AvailableMonths /\ Shown' = Shown
        /\ \A period : Summary(period)' = Summary(period)
                       /\ BucketIndexRows(period)' = BucketIndexRows(period)
                       /\ \A b : BucketPageData(period, b)' = BucketPageData(period, b)
    BY <2>1, SameTables
  <2>3. \A period \in Periods : (Fresh(period)' <=> Fresh(period)) /\ (Current(period)' <=> Current(period))
    BY <2>1, PagesKept
  <2>4. TrustInv' /\ DoneInv'
    BY <2>1, <2>2, <2>3, ShownPeriods DEF GenInv, TrustInv, DoneInv
  <2>5. InHandInv'
    BY <2>1, <2>2, <2>3, ShownPeriods DEF GenInv, InHandInv
  <2> QED
    BY <2>4, <2>5 DEF GenInv
<1> QED
  BY <1>1, <1>2, <1>3, <1>4, <1>5 DEF Next

\* The inductive invariant holds in every state: types, and, unless one of the
\* Troubles is allowed, which pages can be trusted.
THEOREM PagesInvariant == Spec => []PagesInv
<1>1. PagesInv /\ [Next]_vars => PagesInv'
  BY TypesPreserved, GenPreserved DEF PagesInv, GenInv
<1> QED
  BY <1>1, InitPages, PTL DEF Spec

\* After a generation that went to its end, every page shows what the database
\* holds, those it left alone because of their file times as well, except
\* where one was interrupted or a rollback has removed months.
THEOREM SkippedPagesAreFresh ==
  ASSUME Trouble = {}
  PROVE  Spec => []PagesFresh
<1>1. PagesInv => PagesFresh
  <2> SUFFICES ASSUME PagesInv, settled, NEW period \in Shown \ damaged PROVE Fresh(period)
    BY DEF PagesFresh
  <2>1. TrustInv /\ InHandInv /\ DoneInv
    BY DEF PagesInv
  <2>2. Current(period) /\ gen.pc = "idle" /\ (Overview \notin damaged => Fresh(Overview))
    BY <2>1 DEF InHandInv, DoneInv
  <2> QED
    BY <2>1, <2>2 DEF TrustInv
<1> QED
  BY <1>1, PagesInvariant, PTL

\* The next generation has nothing to do for the pages of months and years.
THEOREM SecondRunWritesNothing ==
  ASSUME Trouble = {}
  PROVE  Spec => []NothingToDo
<1>1. PagesInv => NothingToDo
  <2> SUFFICES ASSUME PagesInv, settled PROVE NothingToDo
    BY DEF NothingToDo
  <2>1. TypeOK /\ StampsInv /\ \A period \in Shown : Current(period)
    BY DEF PagesInv, DoneInv
  <2>2. ASSUME NEW m \in AvailableMonths
        PROVE  FileIsCurrent(<<m, Site>>, updated[m])
    <3>1. m \in Months /\ m \in Shown /\ m \in MonthsOf(m) /\ updated[m] # 0
      BY <2>1, <2>2, ShownPeriods, MonthsOfPeriods DEF StampsInv
    <3>2. page[<<m, Site>>].time # 0 /\ updated[m] <= page[<<m, Site>>].time
      BY <2>1, <3>1 DEF Current
    <3> QED
      BY <3>1, <3>2 DEF FileIsCurrent
  <2>3. ASSUME NEW y \in YearsOf(AvailableMonths)
        PROVE  FileIsCurrent(<<y, Site>>, Greatest({updated[m] : m \in {n \in AvailableMonths : YearOf[n] = y}}))
    <3> DEFINE stamps == {updated[m] : m \in {n \in AvailableMonths : YearOf[n] = y}}
    <3>1. y \in Years /\ y \in Shown /\ page[<<y, Site>>].time # 0
          /\ \A m \in MonthsOf(y) : updated[m] <= page[<<y, Site>>].time
      BY <2>1, <2>3, ShownPeriods, PeriodFacts DEF YearsOf, Shown, Current
    <3>2. \A s \in stamps : s # 0 /\ s <= page[<<y, Site>>].time
      BY <2>1, <3>1, MonthsOfPeriods DEF StampsInv
    <3>3. stamps \in SUBSET (0..now) /\ now \in Nat /\ stamps # {}
      BY <2>1, <2>3, ShownPeriods DEF TypeOK, YearsOf
    <3> HIDE DEF stamps
    <3>4. Greatest(stamps) \in stamps
      BY <3>3, GreatestExists
    <3>5. FileIsCurrent(<<y, Site>>, Greatest(stamps))
      BY <3>1, <3>2, <3>4 DEF FileIsCurrent
    <3> QED
      BY <3>5 DEF stamps
  <2> QED
    BY <2>2, <2>3 DEF NothingToDo
<1> QED
  BY <1>1, PagesInvariant, PTL
=============================================================================
