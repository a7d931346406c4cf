------------------------------- MODULE Reports -------------------------------
(***************************************************************************)
(* Which pages `webstat generate` writes again.  A month's page and those  *)
(* of its buckets are left alone if the file is not older than the last    *)
(* commit that stamped the month; a year's if none of its months was       *)
(* written and its file is not older than the last of their stamps.        *)
(*                                                                         *)
(* Data abstraction.  A page shows of each month of its period how many    *)
(* commits added to it, whether it is finalized, and for which buckets;    *)
(* every table and chart of a page is made from the rows these stand for.  *)
(* What finalize_month and the queries do with visitors is in Months.      *)
(***************************************************************************)
EXTENDS Naturals

CONSTANTS
  Months, Years,  \* periods, as numbers in calendar order
  YearOf,         \* the year of each month
  Buckets,
  Trouble,        \* circumstances under which pages stay stale, see below
  MaxCommits,     \* bound: commits of `webstat process`
  MaxNow,         \* bound: seconds
  MaxInterrupts, MaxRollbacks

Site == "site"
Overview == 0
Periods == Months \cup Years \cup {Overview}
Page == Periods \X (Buckets \cup {Site})

\* Without these the properties below hold.
\*   same second   a commit falls into the second in which a page was written
\*   overlap       webstat processes logs while it generates
Troubles == {"same second", "overlap"}

ASSUME ReportsAssumption ==
  /\ Months \cup Years \subseteq Nat \ {Overview} /\ Months \cap Years = {}
  /\ YearOf \in [Months -> Years]
  /\ \A m, n \in Months : m <= n => YearOf[m] <= YearOf[n]
  /\ Site \notin Buckets
  /\ Trouble \subseteq Troubles
  /\ {MaxCommits, MaxNow, MaxInterrupts, MaxRollbacks} \subseteq Nat

VARIABLES
  \* The database.
  stats,     \* rows of hourly_stats and bucket_period_stats of each month
  complete,  \* finalized months
  updated,   \* table period_last_updated, 0 for no row
  \* The output directory: what each page shows, and its time, 0 for no file.
  page,
  \* generate_html
  gen,
  now,       \* the clock, in seconds
  \* History.
  settled,   \* the last generation went to its end and nothing was committed since
  damaged,   \* periods an interrupted generation or a rollback left behind
  commits, interrupts, rollbacks

dbVars == <<stats, complete, updated>>
histVars == <<settled, damaged, commits, interrupts, rollbacks>>
vars == <<dbVars, page, gen, now, histVars>>

Torn == [torn |-> TRUE]
Blank == [blank |-> TRUE]
NoPage == [time |-> 0, shows |-> Blank]
\* queue: periods still to come; period: the one in hand; months, stamps: as
\* read at the start; todo: bucket pages still to be written
Idle == [pc |-> "idle", queue |-> {}, period |-> Overview,
         months |-> {}, stamps |-> [m \in Months |-> 0],
         stale |-> {}, summary |-> Blank, todo |-> {}]

Init ==
  /\ stats = [m \in Months |-> [s \in Buckets \cup {Site} |-> 0]]
  /\ complete = {}
  /\ updated = [m \in Months |-> 0]
  /\ page = [p \in Page |-> NoPage]
  /\ gen = Idle
  /\ now = 1
  /\ settled = FALSE /\ damaged = {} /\ commits = 0 /\ interrupts = 0 /\ rollbacks = 0

Greatest(S) == CHOOSE x \in S : \A y \in S : x >= y

-----------------------------------------------------------------------------
(* What the queries return. *)

AvailableMonths == {m \in Months : stats[m][Site] > 0}
YearsOf(ms) == {YearOf[m] : m \in ms}

\* A period is matched by its prefix.
MonthsOf(period) == {m \in AvailableMonths : period \in {m, YearOf[m], Overview}}

\* A total is known by what it is the sum of.
Hits(ms, section) == [m \in ms |-> stats[m][section]]

BucketIndexRows(period) ==
  [b \in {c \in Buckets : \E m \in MonthsOf(period) : stats[m][c] > 0} |->
     Hits(MonthsOf(period), b)]

\* Until a month is finalized its visitors are counted from the live tables.
MonthRow(m, section) == [hits |-> stats[m][section], final |-> m \in complete]

MonthlySummary(m) == [row |-> MonthRow(m, Site), buckets |-> BucketIndexRows(m)]

YearlySummary(y) ==
  [rows    |-> [m \in MonthsOf(y) |-> MonthRow(m, Site)],
   total   |-> Hits(MonthsOf(y), Site),
   buckets |-> BucketIndexRows(y)]

YearRow(y) == [hits |-> Hits(MonthsOf(y), Site), final |-> MonthsOf(y) \subseteq complete]

OverallSummary ==
  [rows  |-> [y \in YearsOf(AvailableMonths) |-> YearRow(y)],
   total |-> Hits(AvailableMonths, Site)]

Summary(period) ==
  CASE period \in Months -> MonthlySummary(period)
    [] period \in Years  -> YearlySummary(period)
    [] OTHER             -> OverallSummary

\* Of a month its days, of a year its months.
BucketRows(period, b) == [m \in {n \in MonthsOf(period) : stats[n][b] > 0} |-> MonthRow(m, b)]

BucketPageData(period, b) ==
  [rows |-> BucketRows(period, b), total |-> Hits(MonthsOf(period), b)]

-----------------------------------------------------------------------------
(* Commits of `webstat process` and of a rollback. *)

Newest == Greatest({page[p].time : p \in Page})

MayCommit ==
  /\ gen.pc = "idle" \/ "overlap" \in Trouble
  /\ now > Newest \/ "same second" \in Trouble
  /\ commits < MaxCommits /\ commits' = commits + 1

Flush(m, b) ==
  /\ MayCommit
  /\ stats' = [stats EXCEPT ![m] = [s \in DOMAIN @ |-> IF s \in {b, Site} THEN @[s] + 1 ELSE @[s]]]
  /\ updated' = [updated EXCEPT ![m] = now]
  /\ settled' = FALSE
  /\ UNCHANGED <<complete, page, gen, now, damaged, interrupts, rollbacks>>

\* Mutant: the end of a month is not stamped.
FinalizeUnstamped(m) ==
  /\ MayCommit
  /\ stats[m][Site] > 0 /\ m \notin complete
  /\ complete' = complete \cup {m}
  /\ settled' = FALSE
  /\ UNCHANGED <<stats, updated, page, gen, now, damaged, interrupts, rollbacks>>

FinalizeMonth(m) ==
  /\ MayCommit
  /\ stats[m][Site] > 0 /\ m \notin complete
  /\ complete' = complete \cup {m}
  /\ updated' = [updated EXCEPT ![m] = now]
  /\ settled' = FALSE
  /\ UNCHANGED <<stats, page, gen, now, damaged, interrupts, rollbacks>>

\* Nothing is stamped: the page of the target's year goes on to show it.
Rollback(t) ==
  /\ gen.pc = "idle" /\ rollbacks < MaxRollbacks
  /\ stats' = [m \in Months |-> IF m >= t THEN [s \in DOMAIN stats[m] |-> 0] ELSE stats[m]]
  /\ complete' = {m \in complete : m < t}
  /\ damaged' = damaged \cup {YearOf[t]}
  /\ settled' = FALSE
  /\ rollbacks' = rollbacks + 1
  /\ UNCHANGED <<updated, page, gen, now, commits, interrupts>>

-----------------------------------------------------------------------------
(* generate_html *)

\* Mutant: a page of the second of the commit is not current.
FileIsNewer(p, dbTs) == dbTs # 0 /\ page[p].time # 0 /\ page[p].time > dbTs

FileIsCurrent(p, dbTs) == dbTs # 0 /\ page[p].time # 0 /\ page[p].time >= dbTs

YearIn(period) == IF period \in Months THEN YearOf[period] ELSE period

\* Latest year first, its months in order and then the year; last the overview.
Precedes(p, q) ==
  \/ YearIn(p) > YearIn(q)
  \/ YearIn(p) = YearIn(q) /\ p \in Months /\ (q \in Months => p < q)

IsNext(period) ==
  period \in gen.queue /\ \A q \in gen.queue \ {period} : Precedes(period, q)

Shown == AvailableMonths \cup YearsOf(AvailableMonths) \cup {Overview}

StartGenerate ==
  /\ gen.pc = "idle" /\ AvailableMonths # {}
  /\ gen' = [Idle EXCEPT !.pc = "next", !.queue = Shown,
                         !.months = AvailableMonths, !.stamps = updated]
  /\ settled' = FALSE
  /\ UNCHANGED <<dbVars, page, now, damaged, commits, interrupts, rollbacks>>

YearDbTs(y) == Greatest({gen.stamps[m] : m \in {n \in gen.months : YearOf[n] = y}})

\* Mutant: a year is up to date if its months are.
YearAsItsMonths(period) ==
  CASE period \in Months -> FileIsCurrent(<<period, Site>>, gen.stamps[period])
    [] period \in Years -> period \notin gen.stale
    [] OTHER -> FALSE

UpToDate(period) ==
  CASE period \in Months -> FileIsCurrent(<<period, Site>>, gen.stamps[period])
    [] period \in Years ->
         period \notin gen.stale /\ FileIsCurrent(<<period, Site>>, YearDbTs(period))
    [] OTHER -> FALSE

Skip(period) ==
  /\ gen.pc = "next" /\ IsNext(period) /\ UpToDate(period)
  /\ gen' = [gen EXCEPT !.queue = @ \ {period}]
  /\ UNCHANGED <<dbVars, page, now, histVars>>

Summarize(period) ==
  /\ gen.pc = "next" /\ IsNext(period) /\ ~UpToDate(period)
  /\ gen' = [gen EXCEPT !.pc = "write", !.queue = @ \ {period}, !.period = period,
                        !.summary = Summary(period),
                        !.stale = IF period \in Months THEN @ \cup {YearOf[period]} ELSE @]
  /\ UNCHANGED <<dbVars, page, now, histVars>>

Written(p, shown) == [page EXCEPT ![p] = [time |-> now, shows |-> shown]]

RenderMonthPage ==
  /\ gen.pc = "write" /\ gen.period \in Months
  /\ page' = Written(<<gen.period, Site>>, gen.summary)
  /\ gen' = [gen EXCEPT !.pc = "buckets", !.todo = DOMAIN gen.summary.buckets]
  /\ UNCHANGED <<dbVars, now, histVars>>

RenderYearPage ==
  /\ gen.pc = "write" /\ gen.period \in Years
  /\ page' = Written(<<gen.period, Site>>, gen.summary)
  /\ gen' = [gen EXCEPT !.pc = "buckets", !.todo = DOMAIN gen.summary.buckets]
  /\ UNCHANGED <<dbVars, now, histVars>>

RenderIndexPage ==
  /\ gen.pc = "write" /\ gen.period = Overview
  /\ page' = Written(<<Overview, Site>>, gen.summary)
  /\ gen' = [gen EXCEPT !.pc = "buckets"]
  /\ UNCHANGED <<dbVars, now, histVars>>

RenderBucketPage(b) ==
  /\ gen.pc = "buckets" /\ b \in gen.todo
  /\ page' = Written(<<gen.period, b>>, BucketPageData(gen.period, b))
  /\ gen' = [gen EXCEPT !.todo = @ \ {b}]
  /\ UNCHANGED <<dbVars, now, histVars>>

NextPeriod ==
  /\ gen.pc = "buckets" /\ gen.todo = {}
  /\ gen' = IF gen.queue = {} THEN Idle ELSE [gen EXCEPT !.pc = "next"]
  /\ settled' = (gen.queue = {})
  /\ damaged' = damaged \ {gen.period}
  /\ UNCHANGED <<dbVars, page, now, commits, interrupts, rollbacks>>

\* An error or a kill; fs::write may have written a part of the page.
Interrupt ==
  /\ gen.pc # "idle" /\ interrupts < MaxInterrupts
  /\ interrupts' = interrupts + 1
  /\ \/ UNCHANGED page
     \/ gen.pc = "write" /\ page' = Written(<<gen.period, Site>>, Torn)
     \/ \E b \in gen.todo : page' = Written(<<gen.period, b>>, Torn)
  /\ damaged' = IF gen.pc = "buckets" \/ page' # page THEN damaged \cup {gen.period} ELSE damaged
  /\ gen' = Idle
  /\ UNCHANGED <<dbVars, now, settled, commits, rollbacks>>

-----------------------------------------------------------------------------
\* Only where the next step may look at the clock.
Tick ==
  /\ now < MaxNow
  /\ gen.pc \in {"idle", "write"} \/ gen.todo # {}
  /\ now' = now + 1
  /\ UNCHANGED <<dbVars, page, gen, histVars>>

Generate ==
  \/ StartGenerate
  \/ \E period \in Periods : Skip(period) \/ Summarize(period)
  \/ RenderMonthPage \/ RenderYearPage \/ RenderIndexPage \/ NextPeriod
  \/ \E b \in Buckets : RenderBucketPage(b)

Next ==
  \/ \E m \in Months, b \in Buckets \cup {Site} : Flush(m, b)
  \/ \E m \in Months : FinalizeMonth(m)
  \/ \E m \in Months : Rollback(m)
  \/ Generate
  \/ Interrupt
  \/ Tick

Spec == Init /\ [][Next]_vars

-----------------------------------------------------------------------------
(* Properties. *)

\* The variables hold values of their types, and what a page shows is torn or
\* was read from the database.
TypeOK ==
  /\ stats \in [Months -> [Buckets \cup {Site} -> 0..commits]]
  /\ complete \subseteq AvailableMonths
  /\ now \in Nat \ {0} /\ updated \in [Months -> 0..now]
  /\ page = [p \in Page |-> [time |-> page[p].time, shows |-> page[p].shows]]
  /\ \A p \in Page : page[p].time \in 0..now /\ ((page[p].time = 0) <=> (page[p].shows = Blank))
  /\ gen = [pc |-> gen.pc, queue |-> gen.queue, period |-> gen.period, months |-> gen.months,
            stamps |-> gen.stamps, stale |-> gen.stale, summary |-> gen.summary, todo |-> gen.todo]
  /\ gen.pc \in {"idle", "next", "write", "buckets"}
  /\ gen.queue \subseteq Periods /\ gen.period \in Periods
  /\ gen.todo \subseteq Buckets /\ gen.stale \subseteq Years
  /\ gen.pc = "write" =>
       /\ gen.summary # Blank
       /\ gen.period # Overview => DOMAIN gen.summary.buckets \subseteq Buckets
  /\ damaged \subseteq Periods /\ settled \in BOOLEAN
  /\ commits \in 0..MaxCommits

\* Every page of a period shows what the database holds.
Fresh(period) ==
  /\ page[<<period, Site>>].shows = Summary(period)
  /\ \A b \in IF period = Overview THEN {} ELSE DOMAIN BucketIndexRows(period) :
       page[<<period, b>>].shows = BucketPageData(period, b)

\* When a generation has gone to its end, every page shows what the database
\* holds, though most were skipped: the exceptions are periods a generation
\* was interrupted in and the year of a rollback, until they are written again.
PagesFresh == settled => \A period \in Shown \ damaged : Fresh(period)

\* A generation that finds nothing new leaves every page of a month or a year
\* alone: those pages, the ones it skipped too, are not older than their stamps.
NothingToDo ==
  settled =>
    /\ \A m \in AvailableMonths : FileIsCurrent(<<m, Site>>, updated[m])
    /\ \A y \in YearsOf(AvailableMonths) :
         FileIsCurrent(<<y, Site>>, Greatest({updated[m] : m \in {n \in AvailableMonths : YearOf[n] = y}}))

-----------------------------------------------------------------------------
(* The inductive invariant of the proofs. *)

\* The page of a period is not older than the stamps of its months.
Current(period) ==
  /\ page[<<period, Site>>].time # 0
  /\ \A m \in MonthsOf(period) : updated[m] <= page[<<period, Site>>].time

\* What has data was stamped.
StampsInv == \A m \in AvailableMonths : updated[m] # 0

\* The time of a page can be trusted, unless its buckets are being written.
TrustInv ==
  \A period \in (Shown \ {Overview}) \ damaged :
    Current(period) /\ ~(gen.pc = "buckets" /\ gen.period = period) => Fresh(period)

\* A generation works with what the database still holds.
InHandInv ==
  gen.pc # "idle" =>
    /\ ~settled /\ gen.months = AvailableMonths /\ gen.stamps = updated
    /\ gen.queue \subseteq Shown
    /\ gen.pc = "next" => Overview \in gen.queue
    /\ gen.pc \in {"write", "buckets"} =>
         /\ gen.period \in Shown
         /\ IF gen.period = Overview THEN gen.queue = {} ELSE Overview \in gen.queue
    /\ gen.pc = "write" => gen.summary = Summary(gen.period)
    /\ gen.pc = "buckets" =>
         /\ Current(gen.period)
         /\ page[<<gen.period, Site>>].shows = Summary(gen.period)
         /\ gen.period # Overview =>
              \A b \in DOMAIN BucketIndexRows(gen.period) \ gen.todo :
                page[<<gen.period, b>>].shows = BucketPageData(gen.period, b)

\* The periods it is done with are current.
DoneInv ==
  /\ gen.pc # "idle" =>
       \A period \in Shown \ gen.queue :
         (gen.pc \in {"write", "buckets"} /\ period = gen.period) \/ Current(period)
  /\ settled =>
       /\ \A period \in Shown : Current(period)
       /\ Overview \notin damaged => Fresh(Overview)

PagesInv ==
  /\ TypeOK /\ StampsInv
  /\ Trouble = {} => TrustInv /\ InHandInv /\ DoneInv
=============================================================================
