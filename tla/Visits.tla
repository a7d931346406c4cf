------------------------------- MODULE Visits -------------------------------
(***************************************************************************)
(* Counting visits.  An entry starts a visit if its visitor was not seen   *)
(* for Timeout before.  What is remembered of the visitors is pruned at    *)
(* every flush of those who could not continue a visit, stored, and loaded *)
(* by the next run.                                                        *)
(*                                                                         *)
(* The entries stand in one sequence, in the order they are read (module   *)
(* Pipeline); a visit is named by the position of the entry it starts      *)
(* with.  Entries whose time cannot be parsed do not take part.            *)
(***************************************************************************)
EXTENDS Integers, Sequences

CONSTANTS
  Visitors,     \* addresses or, where they do not parse, their text
  Timeout,      \* VISIT_TIMEOUT_SECONDS
  Logs,         \* what the logs may contain
  Ordered,      \* whether these are in the order of time
  RollbackTo,   \* times a user may roll back to
  MaxCrashes    \* bound: crashes in a behaviour

Never == 0      \* no row, no time seen
Entry == [ts : Nat \ {Never}, visitor : Visitors]

InOrder(l) == \A i, j \in 1..Len(l) : i <= j => l[i].ts <= l[j].ts

\* Rolling back is modelled for logs in the order of time: what is read again
\* is then the end of the log.
ASSUME VisitsAssumption ==
  /\ Timeout \in Nat /\ MaxCrashes \in Nat /\ Ordered \in BOOLEAN
  /\ \A l \in Logs : l \in Seq(Entry) /\ (Ordered => InOrder(l))
  /\ RollbackTo \subseteq Nat \ {Never} /\ (RollbackTo # {} => Ordered)

VARIABLES
  log,
  \* The database.
  dbVisits,    \* hourly_stats.visits: the visits that were added
  dbLast,      \* visit_state.last_seen_ts of each visitor
  committed,   \* entries before the resume offset
  \* The run in progress.
  pc,          \* "idle" or "read"
  visits,      \* visits in the accumulators
  last,        \* visit_last_seen
  dirty,       \* visit_state_dirty
  maxSeen,     \* visit_max_seen_ts
  pos,         \* entries read
  \* History.
  targets,     \* times that were rolled back to
  crashes

dbVars  == <<dbVisits, dbLast, committed>>
runVars == <<pc, visits, last, dirty, maxSeen, pos>>
vars    == <<log, dbVars, runVars, targets, crashes>>

NoOne == [v \in Visitors |-> Never]

Forgotten ==
  visits' = {} /\ last' = NoOne /\ dirty' = NoOne /\ maxSeen' = Never /\ pos' = 0

Init ==
  /\ log \in Logs
  /\ dbVisits = {} /\ dbLast = NoOne /\ committed = 0
  /\ pc = "idle" /\ visits = {} /\ last = NoOne /\ dirty = NoOne
  /\ maxSeen = Never /\ pos = 0
  /\ targets = {} /\ crashes = 0

-----------------------------------------------------------------------------
\* load_visit_state_from_db
StartRun ==
  /\ pc = "idle"
  /\ pc' = "read" /\ pos' = committed
  /\ last' = dbLast /\ dirty' = NoOne /\ visits' = {}
  /\ \E m \in {Never} \cup {dbLast[v] : v \in Visitors} :
       (\A v \in Visitors : dbLast[v] <= m) /\ maxSeen' = m
  /\ UNCHANGED <<log, dbVars, targets, crashes>>

Greater(x, y) == IF x > y THEN x ELSE y

IsGap(ts, seen) == seen = Never \/ ts - seen > Timeout

AggregateEntry ==
  /\ pc = "read" /\ pos < Len(log)
  /\ LET e    == log[pos + 1]
         seen == Greater(last[e.visitor], e.ts)
     IN /\ visits' = IF IsGap(e.ts, last[e.visitor]) THEN visits \cup {pos + 1} ELSE visits
        /\ last' = [last EXCEPT ![e.visitor] = seen]
        /\ dirty' = [dirty EXCEPT ![e.visitor] = Greater(@, seen)]
        /\ maxSeen' = Greater(maxSeen, e.ts)
  /\ pos' = pos + 1
  /\ UNCHANGED <<log, dbVars, pc, targets, crashes>>

\* Mutant: everybody but the last one seen is forgotten.
PrunedEarly(table) == [v \in Visitors |-> IF table[v] < maxSeen THEN Never ELSE table[v]]

\* collect_visit_state_flush: who was seen before the timeout is forgotten.
Pruned(table) ==
  [v \in Visitors |-> IF table[v] < maxSeen - Timeout THEN Never ELSE table[v]]

\* Mutant: the row of a visitor is left as it is if there is one.
WriteOnce ==
  /\ dbVisits' = dbVisits \cup visits
  /\ dbLast' = Pruned([v \in Visitors |->
                 IF dbLast[v] # Never THEN dbLast[v] ELSE Pruned(dirty)[v]])
  /\ committed' = pos

\* Mutant: the resume offset is not stored with the visits.
WriteWithoutOffset ==
  /\ dbVisits' = dbVisits \cup visits
  /\ dbLast' = Pruned([v \in Visitors |-> Greater(dbLast[v], Pruned(dirty)[v])])
  /\ committed' = committed

\* Database::flush, one transaction: an upsert that keeps the later time, then
\* the same pruning of the table.
Write ==
  /\ dbVisits' = dbVisits \cup visits
  /\ dbLast' = Pruned([v \in Visitors |-> Greater(dbLast[v], Pruned(dirty)[v])])
  /\ committed' = pos

\* Nothing is written if there is nothing to add and no offset to store.
Flush ==
  /\ last' = Pruned(last) /\ dirty' = NoOne /\ visits' = {}
  /\ Write \/ (pos = committed /\ UNCHANGED dbVars)

Checkpoint ==
  /\ pc = "read" /\ Flush
  /\ UNCHANGED <<log, pc, maxSeen, pos, targets, crashes>>

\* The final flush of process_globs; the processor is then dropped.
EndRun ==
  /\ pc = "read" /\ pc' = "idle"
  /\ Write \/ (pos = committed /\ UNCHANGED dbVars)
  /\ Forgotten
  /\ UNCHANGED <<log, targets, crashes>>

\* The process dies or a statement fails.
Crash ==
  /\ pc = "read" /\ pc' = "idle" /\ crashes < MaxCrashes
  /\ crashes' = crashes + 1
  /\ Forgotten
  /\ UNCHANGED <<log, dbVars, targets>>

\* Mutant: the rows of visitors seen at or after the target are kept.
RollbackKeepsState(t) ==
  /\ pc = "idle"
  /\ dbVisits' = {i \in dbVisits : log[i].ts < t}
  /\ dbLast' = dbLast
  /\ \E k \in 0..committed :
       (\A i \in 1..committed : i <= k <=> log[i].ts < t) /\ committed' = k
  /\ targets' = targets \cup {t}
  /\ UNCHANGED <<log, runVars, crashes>>

\* webstat rollback: what is at or after the target is deleted, and read again.
Rollback(t) ==
  /\ pc = "idle"
  /\ dbVisits' = {i \in dbVisits : log[i].ts < t}
  /\ dbLast' = [v \in Visitors |-> IF dbLast[v] >= t THEN Never ELSE dbLast[v]]
  /\ \E k \in 0..committed :
       (\A i \in 1..committed : i <= k <=> log[i].ts < t) /\ committed' = k
  /\ targets' = targets \cup {t}
  /\ UNCHANGED <<log, runVars, crashes>>

Next ==
  \/ StartRun \/ AggregateEntry \/ Checkpoint \/ EndRun \/ Crash
  \/ \E t \in RollbackTo : Rollback(t)

Spec == Init /\ [][Next]_vars

-----------------------------------------------------------------------------
(* The definition of a visit, over the whole log and without any pruning. *)

Before(i) == {j \in 1..i : j < i /\ log[j].visitor = log[i].visitor}

StartsVisit(i) == \A j \in Before(i) : log[i].ts - log[j].ts > Timeout

\* A visit by the definition, or one that goes on over a target.
Justified(i) ==
  \/ StartsVisit(i)
  \/ \E t \in targets : log[i].ts >= t /\ \A j \in Before(i) : log[j].ts < t

-----------------------------------------------------------------------------
(* Properties. *)

TableType(t) == t \in [Visitors -> Nat]

\* The variables hold values of their types.
TypeOK ==
  /\ log \in Seq(Entry) /\ (Ordered => InOrder(log))
  /\ committed \in 0..Len(log) /\ dbVisits \subseteq 1..committed /\ TableType(dbLast)
  /\ pc \in {"idle", "read"} /\ pos \in 0..Len(log)
  /\ pc = "idle" => visits = {} /\ pos = 0
  /\ pc = "read" => committed <= pos /\ visits \subseteq (committed + 1)..pos
  /\ TableType(last) /\ TableType(dirty) /\ maxSeen \in Nat
  /\ targets \subseteq RollbackTo
  /\ crashes \in 0..MaxCrashes

\* No visit is missed, in whatever order the entries come and whatever was
\* pruned, crashed or rolled back.
NoVisitMissed == \A i \in 1..committed : StartsVisit(i) => i \in dbVisits

\* The visits counted are exactly those of the definition: pruning, storing and
\* loading the state of the visitors are not seen in the count.
VisitsRight == dbVisits = {i \in 1..committed : StartsVisit(i)}

\* The same for entries in the order of time while nothing was rolled back.
VisitsRightUntilRollback == Ordered /\ targets = {} => VisitsRight

\* A rollback splits visits at its target only: an entry that is counted
\* without need is the first of its visitor after a target.
SplitOnlyAtTarget == \A i \in dbVisits : Justified(i)

-----------------------------------------------------------------------------
(* The inductive invariant, of which the proofs make use. *)

\* What a table remembers of a visitor is one of the first n entries.
Sound(table, n) ==
  \A v \in Visitors :
    table[v] # Never => \E j \in 1..n : log[j].visitor = v /\ log[j].ts = table[v]

\* A target between the first n entries of a visitor and all entries to come.
Between(t, n, v) ==
  /\ \A k \in 1..n : log[k].visitor = v => log[k].ts < t
  /\ \A k \in 1..Len(log) : k > n => log[k].ts >= t

\* What a table does not remember of the first n entries is too long ago for
\* any later entry, or was forgotten by a rollback.
Complete(table, n) ==
  \A j \in 1..n :
    \/ log[j].ts <= table[log[j].visitor]
    \/ \E k \in 1..n : log[k].ts - log[j].ts > Timeout
    \/ \E t \in targets : Between(t, n, log[j].visitor)

Uncommitted == (committed + 1)..pos

\* The state of a run in progress.
RunInv ==
  /\ Sound(last, pos) /\ Sound(dirty, pos)
  /\ \A j \in Uncommitted : log[j].ts <= dirty[log[j].visitor]
  /\ \A i \in Uncommitted : StartsVisit(i) => i \in visits
  /\ maxSeen # Never => \E k \in 1..pos : log[k].ts = maxSeen

\* What is added by the order of time.
OrderedInv ==
  /\ Complete(dbLast, committed) /\ SplitOnlyAtTarget
  /\ pc = "read" => Complete(last, pos) /\ \A i \in visits : Justified(i)

VisitsInv ==
  /\ TypeOK
  /\ Sound(dbLast, committed) /\ NoVisitMissed
  /\ pc = "read" => RunInv
  /\ Ordered => OrderedInv

=============================================================================
