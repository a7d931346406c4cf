------------------------------ MODULE TopTables ------------------------------
(***************************************************************************)
(* The tables of best URLs, addresses, referrers, agents and countries:    *)
(* accumulated in memory, merged into the month's rows at a checkpoint,    *)
(* culled there, trimmed before and after the merge when the month ends,   *)
(* and queried for the pages of a month and of a year.                     *)
(*                                                                         *)
(* Data abstraction.  A key is a URL, an address, ...; a batch of equal    *)
(* lines is recorded in one step.  "bucket_urls" is the table of one       *)
(* bucket.  ORDER BY ... LIMIT picks any rows among equals.                *)
(***************************************************************************)
EXTENDS Naturals, FiniteSets, SequencesExt

CONSTANTS
  Keys,
  Kinds,         \* the tables looked at, one in a behaviour
  Lines,         \* kind -> batches of lines that may come
  TopNs,         \* values of the setting top_n, one in a behaviour
  CullFactor,    \* CULL_THRESHOLD_FACTOR, 50
  CullFraction,  \* CULL_FRACTION, 10
  LastMonth,     \* bound: months of the year
  MaxBatches, MaxCulls  \* bounds: batches and checkpoints

Sums == {"hits", "bandwidth"}
AllKinds == {"urls", "error_urls", "ips", "referrers", "agents", "bucket_urls", "countries"}

NoRow == [hits |-> 0, bandwidth |-> 0, rtSum |-> 0, rtCount |-> 0, codes |-> {}]
Row == {NoRow} \cup
       [hits : Nat \ {0}, bandwidth : Nat, rtSum : Nat, rtCount : Nat, codes : SUBSET Nat]

ASSUME TopTablesAssumption ==
  /\ IsFiniteSet(Keys)
  /\ Kinds \subseteq AllKinds /\ TopNs \subseteq Nat
  /\ \A k \in Kinds : Lines[k] \subseteq Row \ {NoRow}
  /\ {CullFactor, CullFraction, LastMonth} \subseteq Nat \ {0}
  /\ {MaxBatches, MaxCulls} \subseteq Nat

VARIABLES
  kind, topN,
  month,    \* run_acc.current_month
  acc,      \* the map of RunAccumulators
  table,    \* rows of each month; a row without hits is not there
  \* History.
  truth,    \* what the lines add up to
  batches,
  culls     \* checkpoints of each month

vars == <<kind, topN, month, acc, table, truth, batches, culls>>

Months == 1..LastMonth
NoRows == [k \in Keys |-> NoRow]

Init ==
  /\ kind \in Kinds /\ topN \in TopNs
  /\ month = 1
  /\ acc = NoRows
  /\ table = [m \in Months |-> NoRows]
  /\ truth = [m \in Months |-> NoRows]
  /\ batches = 0
  /\ culls = [m \in Months |-> 0]

-----------------------------------------------------------------------------
(* Rows. *)

Plus(r, s) ==
  [hits |-> r.hits + s.hits, bandwidth |-> r.bandwidth + s.bandwidth,
   rtSum |-> r.rtSum + s.rtSum, rtCount |-> r.rtCount + s.rtCount, codes |-> r.codes \cup s.codes]

\* INSERT ... ON CONFLICT DO UPDATE of every accumulated row
Merged(rows, added) == [k \in Keys |-> Plus(rows[k], added[k])]

Present(rows) == {k \in Keys : rows[k].hits > 0}
Kept(rows, keys) == [k \in Keys |-> IF k \in keys THEN rows[k] ELSE NoRow]

\* The columns a table is trimmed by; "rt" is the average response time, which
\* only rows with response times have.  Countries are never trimmed.
Metrics(t) ==
  CASE t \in {"urls", "bucket_urls"} -> Sums \cup {"rt"}
    [] t \in {"error_urls", "ips", "agents"} -> Sums
    [] t = "referrers" -> {"hits"}
    [] OTHER -> {}

Ranked(rows, x) == {k \in Present(rows) : x = "rt" => rows[k].rtCount > 0}

Beats(r, s, x) ==
  IF x = "rt" THEN r.rtSum * s.rtCount > s.rtSum * r.rtCount ELSE r[x] > s[x]

\* ORDER BY x DESC LIMIT n
TopBy(rows, x, n) ==
  {S \in SUBSET Ranked(rows, x) :
     /\ Cardinality(S) = IF n < Cardinality(Ranked(rows, x)) THEN n ELSE Cardinality(Ranked(rows, x))
     /\ \A k \in S : \A j \in Ranked(rows, x) \ S : ~Beats(rows[j], rows[k], x)}

TopIfMetric(rows, metrics, n, x) == IF x \in metrics THEN TopBy(rows, x, n) ELSE {{}}

\* The union of the best n by every metric.
TopUnions(rows, metrics, n) ==
  {S \cup T \cup U : S \in TopIfMetric(rows, metrics, n, "hits"),
                     T \in TopIfMetric(rows, metrics, n, "bandwidth"),
                     U \in TopIfMetric(rows, metrics, n, "rt")}

-----------------------------------------------------------------------------
(* Recording, checkpoints, the end of a month. *)

Record(k, line) ==
  /\ batches < MaxBatches
  /\ acc' = [acc EXCEPT ![k] = Plus(@, line)]
  /\ truth' = [truth EXCEPT ![month][k] = Plus(@, line)]
  /\ batches' = batches + 1
  /\ UNCHANGED <<kind, topN, month, table, culls>>

\* An error URL has a row for each status.
RowCount(rows) ==
  IF kind = "error_urls"
  THEN Cardinality(UNION {{<<k, c>> : c \in rows[k].codes} : k \in Keys})
  ELSE Cardinality(Present(rows))

\* The N-th best row by x, if there are so many.
NthRow(rows, x) ==
  {rows[k] : k \in {j \in Ranked(rows, x) :
     /\ Cardinality({i \in Ranked(rows, x) : Beats(rows[i], rows[j], x)}) < topN
     /\ Cardinality({i \in Ranked(rows, x) : ~Beats(rows[j], rows[i], x)}) >= topN}}

\* Below a fraction of the N-th best sum; no sum is below that of a missing row.
SumBelow(rows, k, x) ==
  \E n \in NthRow(rows, x) : rows[k][x] < n[x] \div CullFraction

\* Below a fraction of the N-th best average.
AvgBelow(r, n) ==
  IF r.rtCount = 0 THEN n.rtSum > 0
  ELSE CullFraction * r.rtSum * n.rtCount < n.rtSum * r.rtCount

\* If fewer than N rows have response times, top_urls is culled without regard
\* to them and bucket_urls only of rows that have none.
RtBelow(rows, k) ==
  LET nth == NthRow(rows, "rt") IN
  CASE kind = "urls" -> nth # {} => \E n \in nth : AvgBelow(rows[k], n)
    [] kind = "bucket_urls" -> rows[k].rtCount > 0 => \E n \in nth : AvgBelow(rows[k], n)
    [] OTHER -> TRUE

\* Mutant: a row goes when one of its metrics is low.
CullsAny(rows) ==
  {k \in Present(rows) : \E x \in Metrics(kind) \cap Sums : SumBelow(rows, k, x)}

Culls(rows) ==
  {k \in Present(rows) :
     (\A x \in Metrics(kind) \cap Sums : SumBelow(rows, k, x)) /\ RtBelow(rows, k)}

CullPeriod(rows) ==
  IF topN = 0 \/ Metrics(kind) = {} \/ RowCount(rows) <= topN * CullFactor THEN rows
  ELSE Kept(rows, Keys \ Culls(rows))

\* Mutant: the accumulators are not cleared.
CheckpointOnly ==
  /\ FoldFunction(+, 0, culls) < MaxCulls
  /\ table' = [table EXCEPT ![month] = CullPeriod(Merged(@, acc))]
  /\ culls' = [culls EXCEPT ![month] = @ + 1]
  /\ UNCHANGED <<kind, topN, month, acc, truth, batches>>

\* Flush and cull; the end of a run does the same.
Checkpoint ==
  /\ FoldFunction(+, 0, culls) < MaxCulls
  /\ table' = [table EXCEPT ![month] = CullPeriod(Merged(@, acc))]
  /\ acc' = NoRows
  /\ culls' = [culls EXCEPT ![month] = @ + 1]
  /\ UNCHANGED <<kind, topN, month, truth, batches>>

\* Mutant: the rows to keep are looked for by hits alone.
TrimByHits(rows, n) ==
  IF Metrics(kind) = {} THEN {rows}
  ELSE {Kept(rows, S) : S \in TopBy(rows, "hits", n)}

Trim(rows, n) ==
  IF Metrics(kind) = {} THEN {rows}
  ELSE {Kept(rows, S) : S \in TopUnions(rows, Metrics(kind), n)}

\* Before the merge, of what was accumulated since the last checkpoint.
Pretrim ==
  IF topN = 0 \/ Cardinality(Present(acc)) <= topN THEN {acc} ELSE Trim(acc, topN)

\* Only the table of referrers is trimmed when topN is 0, and loses every row.
FinalTrim(rows) ==
  IF topN = 0 /\ kind # "referrers" THEN {rows} ELSE Trim(rows, topN)

FinalizeAndAdvanceMonth ==
  /\ month < LastMonth
  /\ \E added \in Pretrim : \E rows \in FinalTrim(Merged(table[month], added)) :
       table' = [table EXCEPT ![month] = rows]
  /\ month' = month + 1
  /\ acc' = NoRows
  /\ UNCHANGED <<kind, topN, truth, batches, culls>>

Next ==
  \/ \E k \in Keys, line \in Lines[kind] : Record(k, line)
  \/ Checkpoint
  \/ FinalizeAndAdvanceMonth

Spec == Init /\ [][Next]_vars

-----------------------------------------------------------------------------
(* Queries of the pages. *)

\* SUM ... GROUP BY over the months of a period
SumOver(rows, ms) ==
  LET sum[m \in 0..LastMonth] ==
        IF m = 0 THEN NoRows
        ELSE IF m \in ms THEN Merged(sum[m - 1], rows[m]) ELSE sum[m - 1]
  IN sum[LastMonth]

\* ORDER BY names a column that is summed in the result: the rows of a group are
\* ordered by the value in any one of them.  With one month that is the sum.
SortedByOneRow == {"ips", "agents", "countries"}

Columns == IF kind = "countries" THEN Sums ELSE Metrics(kind)

OneRowOfEach(ms) ==
  LET monthsOf(k) == {m \in ms : table[m][k].hits > 0}
  IN {[k \in Keys |-> IF monthsOf(k) = {} THEN NoRow ELSE table[pick[k]][k]] :
        pick \in {p \in [Keys -> ms] : \A k \in Keys : monthsOf(k) # {} => p[k] \in monthsOf(k)}}

\* Mutant: the best by hits alone.
TopByHits(ms) == TopBy(SumOver(table, ms), "hits", topN)

\* The keys the page of a period shows.
TopOf(ms) ==
  IF kind \in SortedByOneRow
  THEN UNION {TopUnions(rows, Columns, topN) : rows \in OneRowOfEach(ms)}
  ELSE TopUnions(SumOver(table, ms), Columns, topN)

-----------------------------------------------------------------------------
(* Properties. *)

\* What is left of the lines of a key, in the database or in memory.
Have(m, k) == Plus(table[m][k], IF m = month THEN acc[k] ELSE NoRow)

\* The variables hold values of their types, a row is never more than its
\* lines add up to, and a finalized month has no more rows than its columns
\* times top_n.
TypeOK ==
  /\ kind \in Kinds /\ topN \in TopNs /\ month \in Months
  /\ acc \in [Keys -> Row] /\ culls \in [Months -> Nat]
  /\ {table, truth} \subseteq [Months -> [Keys -> Row]]
  /\ \A m \in Months, k \in Keys :
       /\ \A x \in Sums \cup {"rtSum", "rtCount"} : Have(m, k)[x] \in 0..truth[m][k][x]
       /\ Have(m, k).codes \subseteq truth[m][k].codes
  /\ \A m \in 1..(month - 1) :
       topN > 0 /\ Metrics(kind) # {} =>
         Cardinality(Present(table[m])) <= Cardinality(Metrics(kind)) * topN

\* The sum x of the N-th best row, 0 if there are not so many.
NthSum(rows, x) ==
  LET nth == NthRow(rows, x) IN IF nth = {} THEN 0 ELSE (CHOOSE r \in nth : TRUE)[x]

\* What culling and trimming take from a key is small beside what the N-th best
\* key really has: a tenth for each checkpoint, and twice it at the month's end,
\* once from the accumulators and once from the table.  A key with more than that
\* is on the page.
ErrorBounded ==
  \A m \in Months, k \in Keys : \A x \in Metrics(kind) \cap Sums :
    LET lost == truth[m][k][x] - Have(m, k)[x]
    IN IF topN = 0 THEN lost > 0 => kind = "referrers" /\ m < month
       ELSE CullFraction * lost <=
              (culls[m] + IF m < month THEN 2 * CullFraction ELSE 0) * NthSum(truth[m], x)

\* A checkpoint deletes no row that is among the N best by one of the columns,
\* except slow URLs while fewer than N URLs have response times.
CullSparesTop ==
  [][Checkpoint =>
       LET rows == Merged(table[month], acc) IN
       \A k \in Present(rows) \ Present(table'[month]) : \A x \in Metrics(kind) :
         k \in Ranked(rows, x) =>
           \/ Cardinality({j \in Ranked(rows, x) : Beats(rows[j], rows[k], x)}) >= topN
           \/ kind = "urls" /\ x = "rt" /\ Cardinality(Ranked(rows, x)) < topN]_vars

\* Every column of a sortable table has its best N keys on the page of a month,
\* and on that of a year, agents, addresses and countries excepted: what they are
\* sorted by is one of their months.  (The rows of the database change only when
\* the accumulators are emptied.)
EveryColumnHasItsTop ==
  acc = NoRows =>
    \A ms \in {{m} : m \in Months} \cup (IF kind \in SortedByOneRow THEN {} ELSE {Months}) :
      LET rows == SumOver(table, ms)
          best(x) == {k \in Ranked(rows, x) :
            Cardinality({j \in Ranked(rows, x) : ~Beats(rows[k], rows[j], x)}) <= topN}
          belongs == UNION {best(x) : x \in Columns}
      IN belongs # {} => \A shown \in TopOf(ms) : belongs \subseteq shown
=============================================================================
