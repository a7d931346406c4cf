---------------------------- MODULE VisitsProofs ----------------------------
(***************************************************************************)
(* Proofs about Visits, for every timeout, every set of visitors, logs and *)
(* rollback targets and every number of crashes.                           *)
(***************************************************************************)
EXTENDS Visits, TLAPS

-----------------------------------------------------------------------------
(* Helpers. *)

LEMMA LogFacts ==
  ASSUME TypeOK
  PROVE  /\ Len(log) \in Nat /\ committed \in Nat /\ pos \in Nat
         /\ \A i \in 1..Len(log) : log[i].ts \in Nat \ {0} /\ log[i].visitor \in Visitors
<1>1. log \in Seq(Entry) /\ Len(log) \in Nat
  BY DEF TypeOK
<1>2. committed \in Nat /\ pos \in Nat
  BY <1>1 DEF TypeOK
<1>3. \A i \in 1..Len(log) : log[i] \in Entry
  BY <1>1
<1> QED
  BY <1>1, <1>2, <1>3 DEF Entry, Never

LEMMA NoOneFacts == TableType(NoOne) /\ \A n : Sound(NoOne, n)
BY DEF NoOne, TableType, Sound, Never

LEMMA GreaterFacts ==
  \A x, y \in Nat : Greater(x, y) \in {x, y} /\ x <= Greater(x, y) /\ y <= Greater(x, y)
BY DEF Greater

LEMMA PrunedFacts ==
  ASSUME TypeOK, NEW table, TableType(table)
  PROVE  /\ TableType(Pruned(table))
         /\ \A v \in Visitors :
              /\ Pruned(table)[v] \in {Never, table[v]}
              /\ Pruned(table)[v] # table[v] => table[v] < maxSeen - Timeout
BY DEF TableType, Pruned, Never

\* An entry starts a visit by the definition if there is a gap before it.
LEMMA GapFacts ==
  ASSUME TypeOK, NEW i \in 1..Len(log), NEW seen \in Nat,
         seen # Never => \E j \in 1..i - 1 : log[j].visitor = log[i].visitor /\ log[j].ts = seen,
         StartsVisit(i)
  PROVE  IsGap(log[i].ts, seen)
BY LogFacts, VisitsAssumption DEF IsGap, StartsVisit, Before

\* In the order of time a table that is complete knows every gap.
LEMMA CompleteFacts ==
  ASSUME TypeOK, Ordered, NEW i \in 1..Len(log), NEW table, TableType(table),
         Complete(table, i - 1), IsGap(log[i].ts, table[log[i].visitor])
  PROVE  Justified(i)
<1>0. ASSUME NEW t \in targets, Between(t, i - 1, log[i].visitor)
      PROVE  Justified(i)
  <2>1. Len(log) \in Nat /\ i > i - 1
    BY LogFacts
  <2>2. log[i].ts >= t
    BY <1>0, <2>1 DEF Between
  <2>3. \A j \in Before(i) : log[j].ts < t
    BY <1>0, <2>1 DEF Between, Before
  <2> QED
    BY <2>2, <2>3 DEF Justified
<1> SUFFICES ASSUME \A t \in targets : ~ Between(t, i - 1, log[i].visitor),
                    NEW j \in Before(i)
             PROVE  log[i].ts - log[j].ts > Timeout
  BY <1>0 DEF StartsVisit, Justified
<1>1. j \in 1..i - 1 /\ j \in 1..Len(log) /\ log[j].visitor = log[i].visitor
  BY LogFacts DEF Before
<1>2. log[i].ts \in Nat \ {0} /\ log[j].ts \in Nat \ {0} /\ log[i].visitor \in Visitors
  BY <1>1, LogFacts
<1>3. table[log[i].visitor] \in Nat /\ Timeout \in Nat
  BY <1>2, VisitsAssumption DEF TableType
<1>4. CASE log[j].ts <= table[log[j].visitor]
  BY <1>1, <1>2, <1>3, <1>4 DEF IsGap, Never
<1>5. ASSUME NEW k \in 1..i - 1, log[k].ts - log[j].ts > Timeout
      PROVE  log[i].ts - log[j].ts > Timeout
  <2>1. k \in 1..Len(log) /\ k <= i /\ log[k].ts \in Nat
    BY LogFacts
  <2>2. log[k].ts <= log[i].ts
    BY <2>1 DEF TypeOK, InOrder
  <2> QED
    BY <1>2, <1>3, <1>5, <2>1, <2>2
<1> QED
  BY <1>1, <1>4, <1>5 DEF Complete

\* A visit stays justified when targets are added.
LEMMA JustifiedStays ==
  ASSUME NEW i, Justified(i), targets \subseteq targets', log' = log
  PROVE  Justified(i)'
BY DEF Justified, StartsVisit, Before

\* Entries that are read, and times that are pruned, keep a table sound.
LEMMA SoundPruned ==
  ASSUME TypeOK, NEW table, TableType(table), NEW n \in Nat, Sound(table, n)
  PROVE  Sound(Pruned(table), n)
BY PrunedFacts DEF Sound

LEMMA SoundLonger ==
  ASSUME NEW table, NEW m \in Nat, NEW n \in Nat, m <= n, Sound(table, m)
  PROVE  Sound(table, n)
BY DEF Sound

\* Pruning keeps a table complete: whoever is forgotten was last seen more than
\* the timeout before an entry that was read.
LEMMA CompletePruned ==
  ASSUME TypeOK, NEW table, TableType(table), NEW n \in 0..Len(log), Complete(table, n),
         maxSeen # Never => \E k \in 1..n : log[k].ts = maxSeen
  PROVE  Complete(Pruned(table), n)
<1> SUFFICES ASSUME NEW j \in 1..n, log[j].ts <= table[log[j].visitor]
             PROVE  \/ log[j].ts <= Pruned(table)[log[j].visitor]
                    \/ \E k \in 1..n : log[k].ts - log[j].ts > Timeout
                    \/ \E t \in targets : Between(t, n, log[j].visitor)
  BY DEF Complete
<1>1. log[j].ts \in Nat \ {0} /\ log[j].visitor \in Visitors /\ maxSeen \in Nat /\ Timeout \in Nat
  BY LogFacts, VisitsAssumption DEF TypeOK
<1>2. table[log[j].visitor] \in Nat
  BY <1>1 DEF TableType
<1>3. CASE Pruned(table)[log[j].visitor] # table[log[j].visitor]
  <2>1. table[log[j].visitor] < maxSeen - Timeout
    BY <1>1, <1>3, PrunedFacts
  <2>2. log[j].ts < maxSeen - Timeout /\ maxSeen # Never
    BY <1>1, <1>2, <2>1 DEF Never
  <2>3. PICK k \in 1..n : log[k].ts = maxSeen
    BY <2>2
  <2>4. log[k].ts - log[j].ts > Timeout
    BY <1>1, <2>2, <2>3
  <2> QED
    BY <2>4
<1> QED
  BY <1>3

-----------------------------------------------------------------------------
(* The initial state, and steps that leave the visits alone. *)

LEMMA InitInv == Init => VisitsInv
<1> SUFFICES ASSUME Init PROVE VisitsInv
  OBVIOUS
<1>1. log \in Seq(Entry) /\ (Ordered => InOrder(log))
  BY VisitsAssumption DEF Init
<1>2. TypeOK
  BY <1>1, NoOneFacts, VisitsAssumption DEF Init, TypeOK, Never
<1>3. Sound(dbLast, committed) /\ NoVisitMissed
  BY NoOneFacts DEF Init, NoVisitMissed
<1>4. OrderedInv
  BY DEF Init, OrderedInv, Complete, SplitOnlyAtTarget
<1> QED
  BY <1>2, <1>3, <1>4 DEF VisitsInv, Init

\* What a run forgets when it ends, in whatever way.
LEMMA ForgottenType == Forgotten => visits' = {} /\ pos' = 0 /\ TableType(last')
                                    /\ TableType(dirty') /\ maxSeen' \in Nat
BY NoOneFacts DEF Forgotten, Never

LEMMA Stutter == ASSUME VisitsInv, UNCHANGED vars PROVE VisitsInv'
<1> USE DEF VisitsInv, vars, dbVars, runVars
<1>1. TypeOK'
  BY DEF TypeOK, TableType, InOrder
<1>2. (Sound(dbLast, committed) /\ NoVisitMissed)'
  BY DEF Sound, NoVisitMissed, StartsVisit, Before
<1>3. (pc = "read" => RunInv)'
  BY DEF RunInv, Sound, Uncommitted, StartsVisit, Before
<1>4. (Ordered => OrderedInv)'
  BY JustifiedStays DEF OrderedInv, Complete, Between, SplitOnlyAtTarget
<1> QED
  BY <1>1, <1>2, <1>3, <1>4

-----------------------------------------------------------------------------
(* A run. *)

\* A run starts out from the table as it was stored.
LEMMA StartRunInv == ASSUME VisitsInv, StartRun PROVE VisitsInv'
<1> USE DEF VisitsInv, StartRun, dbVars
<1>1. /\ committed \in Nat /\ committed <= Len(log) /\ Len(log) \in Nat
      /\ TableType(dbLast)
  BY LogFacts DEF TypeOK
<1>2. PICK m \in {Never} \cup {dbLast[v] : v \in Visitors} : maxSeen' = m
  OBVIOUS
<1>3. maxSeen' \in Nat
  BY <1>1, <1>2 DEF TableType, Never
<1>4. TypeOK'
  BY <1>1, <1>3, NoOneFacts DEF TypeOK, TableType
<1>5. (Sound(dbLast, committed) /\ NoVisitMissed)'
  BY DEF Sound, NoVisitMissed, StartsVisit, Before
<1>6. RunInv'
  <2>1. Uncommitted' = {}
    BY <1>1 DEF Uncommitted
  <2>2. Sound(last, pos)' /\ Sound(dirty, pos)'
    BY <1>1 DEF Sound, NoOne
  <2>3. maxSeen' # Never => \E k \in 1..committed : log[k].ts = maxSeen'
    BY <1>2 DEF Sound
  <2> QED
    BY <2>1, <2>2, <2>3 DEF RunInv
<1>7. (Ordered => OrderedInv)'
  BY JustifiedStays DEF OrderedInv, Complete, Between, SplitOnlyAtTarget
<1> QED
  BY <1>4, <1>5, <1>6, <1>7

\* The entry that is read gets a visit if it starts one, and in the order of
\* time only then.
LEMMA AggregateEntryInv == ASSUME VisitsInv, AggregateEntry PROVE VisitsInv'
<1> DEFINE n == pos + 1
           e == log[n]
           seen == Greater(last[e.visitor], e.ts)
<1>1. /\ TypeOK /\ RunInv /\ pc = "read"
      /\ pos \in Nat /\ n \in 1..Len(log) /\ Len(log) \in Nat /\ committed \in Nat
      /\ committed <= pos /\ pos' = n
  BY LogFacts DEF VisitsInv, AggregateEntry, TypeOK
<1>2. e.ts \in Nat \ {0} /\ e.visitor \in Visitors
  BY <1>1, LogFacts
<1>3. TableType(last) /\ TableType(dirty) /\ maxSeen \in Nat
  BY <1>1 DEF TypeOK
<1>4. last[e.visitor] \in Nat /\ dirty[e.visitor] \in Nat
  BY <1>2, <1>3 DEF TableType
<1>5. /\ seen \in Nat /\ seen \in {last[e.visitor], e.ts}
      /\ last[e.visitor] <= seen /\ e.ts <= seen
  BY <1>2, <1>4, GreaterFacts
<1>6. /\ Greater(dirty[e.visitor], seen) \in {dirty[e.visitor], seen}
      /\ Greater(dirty[e.visitor], seen) \in Nat
      /\ dirty[e.visitor] <= Greater(dirty[e.visitor], seen)
      /\ seen <= Greater(dirty[e.visitor], seen)
  BY <1>4, <1>5, GreaterFacts
<1>7. /\ last' = [last EXCEPT ![e.visitor] = seen]
      /\ dirty' = [dirty EXCEPT ![e.visitor] = Greater(@, seen)]
      /\ visits' = IF IsGap(e.ts, last[e.visitor]) THEN visits \cup {n} ELSE visits
      /\ maxSeen' = Greater(maxSeen, e.ts)
      /\ UNCHANGED <<log, dbVars, pc, targets, crashes>>
  BY DEF AggregateEntry
<1>8. maxSeen' \in Nat /\ maxSeen' \in {maxSeen, e.ts}
  BY <1>2, <1>3, <1>7, GreaterFacts
<1>9. TableType(last') /\ TableType(dirty')
  <2> HIDE DEF seen, e
  <2> QED
    BY <1>3, <1>5, <1>6, <1>7 DEF TableType
<1>10. \A v \in Visitors :
          /\ last'[v] = IF v = e.visitor THEN seen ELSE last[v]
          /\ dirty'[v] = IF v = e.visitor THEN Greater(dirty[v], seen) ELSE dirty[v]
  <2> HIDE DEF seen, e
  <2> QED
    BY <1>3, <1>7 DEF TableType
<1>11. TypeOK'
  BY SMTT(30), <1>1, <1>7, <1>8, <1>9 DEF TypeOK, dbVars, TableType, InOrder
<1>12. (Sound(dbLast, committed) /\ NoVisitMissed)'
  BY <1>7 DEF VisitsInv, dbVars, Sound, NoVisitMissed, StartsVisit, Before
<1>13. \A i \in 1..Len(log) : StartsVisit(i)' <=> StartsVisit(i)
  BY <1>7 DEF StartsVisit, Before
<1>14. Uncommitted' = Uncommitted \cup {n}
  BY <1>1, <1>7 DEF Uncommitted, dbVars
<1>15. Sound(last, pos)'
  <2> SUFFICES ASSUME NEW v \in Visitors, last'[v] # Never
               PROVE  \E j \in 1..n : log[j].visitor = v /\ log[j].ts = last'[v]
    BY <1>1, <1>7 DEF Sound
  <2>1. CASE v = e.visitor /\ seen = e.ts
    BY <1>1, <1>10, <2>1
  <2>2. CASE ~(v = e.visitor /\ seen = e.ts)
    <3>1. last'[v] = last[v]
      BY <1>5, <1>10, <2>2
    <3>2. PICK j \in 1..pos : log[j].visitor = v /\ log[j].ts = last[v]
      BY <1>1, <3>1 DEF RunInv, Sound
    <3> QED
      BY <1>1, <3>1, <3>2
  <2> QED
    BY <2>1, <2>2
<1>16. Sound(dirty, pos)'
  <2> SUFFICES ASSUME NEW v \in Visitors, dirty'[v] # Never
               PROVE  \E j \in 1..n : log[j].visitor = v /\ log[j].ts = dirty'[v]
    BY <1>1, <1>7 DEF Sound
  <2>1. CASE v = e.visitor /\ dirty'[v] = seen
    <3>1. last'[v] = dirty'[v]
      BY <1>10, <2>1
    <3> QED
      BY <1>1, <1>7, <1>15, <3>1 DEF Sound
  <2>2. CASE ~(v = e.visitor /\ dirty'[v] = seen)
    <3>1. dirty'[v] = dirty[v]
      BY <1>6, <1>10, <2>2
    <3>2. PICK j \in 1..pos : log[j].visitor = v /\ log[j].ts = dirty[v]
      BY <1>1, <3>1 DEF RunInv, Sound
    <3> QED
      BY <1>1, <3>1, <3>2
  <2> QED
    BY <2>1, <2>2
<1>17. \A j \in Uncommitted' : log[j].ts <= dirty'[log[j].visitor]
  <2> SUFFICES ASSUME NEW j \in Uncommitted' PROVE log[j].ts <= dirty'[log[j].visitor]
    OBVIOUS
  <2>1. CASE j = n
    BY <1>2, <1>5, <1>6, <1>10, <2>1
  <2>2. CASE j # n
    <3>1. j \in Uncommitted /\ j \in 1..Len(log)
      BY <1>1, <1>14, <2>2 DEF Uncommitted
    <3>2. log[j].ts <= dirty[log[j].visitor] /\ log[j].visitor \in Visitors /\ log[j].ts \in Nat
      BY <1>1, <3>1, LogFacts DEF RunInv
    <3>3. dirty[log[j].visitor] <= dirty'[log[j].visitor] /\ dirty[log[j].visitor] \in Nat
          /\ dirty'[log[j].visitor] \in Nat
      BY <1>3, <1>6, <1>9, <1>10, <3>2 DEF TableType
    <3> HIDE DEF n
    <3> QED
      BY <3>2, <3>3
  <2> QED
    BY <2>1, <2>2
<1>18. StartsVisit(n) => n \in visits'
  <2> SUFFICES ASSUME StartsVisit(n) PROVE n \in visits'
    OBVIOUS
  <2>1. last[e.visitor] # Never =>
          \E j \in 1..n - 1 : log[j].visitor = log[n].visitor /\ log[j].ts = last[e.visitor]
    <3>1. 1..n - 1 = 1..pos
      BY <1>1
    <3> HIDE DEF n
    <3>2. last[e.visitor] # Never =>
            \E j \in 1..pos : log[j].visitor = e.visitor /\ log[j].ts = last[e.visitor]
      BY <1>1, <1>2 DEF RunInv, Sound
    <3> QED
      BY <3>1, <3>2
  <2>2. IsGap(e.ts, last[e.visitor])
    BY <1>1, <1>4, <2>1, GapFacts
  <2> QED
    BY <1>7, <2>2
<1>19. \A i \in Uncommitted' : StartsVisit(i)' => i \in visits'
  <2> SUFFICES ASSUME NEW i \in Uncommitted', StartsVisit(i)' PROVE i \in visits'
    OBVIOUS
  <2>1. CASE i = n
    BY <1>1, <1>13, <1>18, <2>1
  <2>2. CASE i # n
    <3>1. i \in Uncommitted /\ i \in 1..Len(log)
      BY <1>1, <1>14, <2>2 DEF Uncommitted
    <3> QED
      BY <1>1, <1>7, <1>13, <3>1 DEF RunInv
  <2> QED
    BY <2>1, <2>2
<1>20. maxSeen' # Never => \E k \in 1..pos' : log'[k].ts = maxSeen'
  BY <1>1, <1>7, <1>8 DEF RunInv
<1>21. RunInv'
  BY <1>7, <1>15, <1>16, <1>17, <1>19, <1>20 DEF RunInv
<1>22. ASSUME Ordered PROVE OrderedInv'
  <2>1. OrderedInv /\ Complete(last, pos)
    BY <1>1, <1>22 DEF VisitsInv, OrderedInv
  <2>2. (Complete(dbLast, committed) /\ SplitOnlyAtTarget)'
    BY <1>7, <2>1, JustifiedStays DEF OrderedInv, dbVars, Complete, Between, SplitOnlyAtTarget
  <2>3. Complete(last, pos)'
    <3> SUFFICES ASSUME NEW j \in 1..n
                 PROVE  \/ log[j].ts <= last'[log[j].visitor]
                        \/ \E k \in 1..n : log[k].ts - log[j].ts > Timeout
                        \/ \E t \in targets : Between(t, n, log[j].visitor)
      BY <1>1, <1>7 DEF Complete, Between
    <3>1. log[j].visitor \in Visitors /\ log[j].ts \in Nat
      BY <1>1, LogFacts
    <3>2. /\ last[log[j].visitor] \in Nat /\ last'[log[j].visitor] \in Nat
          /\ last[log[j].visitor] <= last'[log[j].visitor]
      BY <1>3, <1>5, <1>9, <1>10, <3>1 DEF TableType
    <3>3. CASE log[j].visitor = e.visitor
      <4>1. j \in 1..Len(log) /\ j <= n
        BY <1>1
      <4>2. log[j].ts <= e.ts
        BY <1>1, <1>22, <4>1 DEF TypeOK, InOrder
      <4>3. last'[log[j].visitor] = seen
        BY <1>2, <1>10, <3>3
      <4> QED
        BY <1>2, <1>5, <3>1, <4>2, <4>3
    <3>4. CASE log[j].visitor # e.visitor
      <4>1. j \in 1..pos
        BY <1>1, <3>4
      <4>2. CASE log[j].ts <= last[log[j].visitor]
        <5> HIDE DEF n
        <5> QED
          BY <3>1, <3>2, <4>2
      <4>3. CASE \E k \in 1..pos : log[k].ts - log[j].ts > Timeout
        BY <1>1, <4>3
      <4>4. ASSUME NEW t \in targets, Between(t, pos, log[j].visitor)
            PROVE  Between(t, n, log[j].visitor)
        BY <1>1, <3>4, <4>4 DEF Between
      <4> QED
        BY <2>1, <4>1, <4>2, <4>3, <4>4 DEF Complete
    <3> QED
      BY <3>3, <3>4
  <2>4. \A i \in visits' : Justified(i)'
    <3> SUFFICES ASSUME NEW i \in visits' PROVE Justified(i)
      BY <1>7, JustifiedStays
    <3>1. CASE i \in visits
      BY <1>1, <2>1, <3>1 DEF OrderedInv
    <3>2. CASE i \notin visits
      <4>1. i = n /\ IsGap(e.ts, last[e.visitor])
        BY <1>7, <3>2
      <4>2. Complete(last, n - 1)
        <5>1. n - 1 = pos
          BY <1>1
        <5> QED
          BY <2>1, <5>1
      <4> QED
        BY <1>1, <1>3, <1>22, <4>1, <4>2, CompleteFacts
    <3> QED
      BY <3>1, <3>2
  <2> QED
    BY <2>2, <2>3, <2>4 DEF OrderedInv
<1> QED
  BY <1>1, <1>7, <1>11, <1>12, <1>21, <1>22 DEF VisitsInv

-----------------------------------------------------------------------------
(* A flush. *)

\* What is written is the state of the visitors after all entries read.
LEMMA WriteFacts ==
  ASSUME VisitsInv, pc = "read", Write, UNCHANGED <<log, targets>>
  PROVE  /\ committed' = pos /\ dbVisits' \subseteq 1..committed' /\ TableType(dbLast')
         /\ Sound(dbLast, committed)' /\ NoVisitMissed'
         /\ (Ordered => Complete(dbLast, committed) /\ SplitOnlyAtTarget)'
<1> DEFINE merged == [v \in Visitors |-> Greater(dbLast[v], Pruned(dirty)[v])]
<1>1. /\ TypeOK /\ RunInv /\ pos \in Nat /\ committed \in Nat /\ committed <= pos
      /\ Len(log) \in Nat /\ pos \in 0..Len(log)
  BY LogFacts DEF VisitsInv, TypeOK
<1>2. TableType(dbLast) /\ TableType(dirty) /\ TableType(Pruned(dirty))
  BY <1>1, PrunedFacts DEF TypeOK
<1>3. \A v \in Visitors :
         /\ dbLast[v] \in Nat /\ dirty[v] \in Nat /\ Pruned(dirty)[v] \in Nat
         /\ merged[v] \in {dbLast[v], Pruned(dirty)[v]} /\ merged[v] \in Nat
         /\ dbLast[v] <= merged[v] /\ Pruned(dirty)[v] <= merged[v]
  BY <1>2, GreaterFacts DEF TableType
<1>4. TableType(merged)
  BY <1>2, GreaterFacts DEF TableType
<1>5. dbLast' = Pruned(merged) /\ committed' = pos /\ dbVisits' = dbVisits \cup visits
  BY DEF Write
<1> HIDE DEF merged
<1>6. TableType(dbLast')
  BY <1>1, <1>4, <1>5, PrunedFacts
<1>7. dbVisits' \subseteq 1..committed'
  <2>1. dbVisits \subseteq 1..committed /\ visits \subseteq (committed + 1)..pos
    BY <1>1 DEF TypeOK
  <2>2. \A i \in dbVisits \cup visits : i \in 1..pos
    BY <1>1, <2>1
  <2> QED
    BY <1>5, <2>2
<1>8. Sound(dbLast, pos) /\ Sound(Pruned(dirty), pos)
  <2>1. Sound(dirty, pos)
    BY <1>1 DEF RunInv
  <2>2. Sound(dbLast, pos)
    BY <1>1, SoundLonger DEF VisitsInv
  <2> QED
    BY <1>1, <1>2, <2>1, <2>2, SoundPruned
<1>9. Sound(merged, pos)
  BY <1>3, <1>8 DEF Sound
<1>10. Sound(Pruned(merged), pos)
  BY <1>1, <1>4, <1>9, SoundPruned
<1>11. Sound(dbLast, committed)'
  BY <1>5, <1>10 DEF Sound
<1>12. \A i \in 1..pos : i \in 1..committed \/ i \in Uncommitted
  BY <1>1 DEF Uncommitted
<1>13. NoVisitMissed'
  <2> SUFFICES ASSUME NEW i \in 1..pos, StartsVisit(i) PROVE i \in dbVisits'
    BY <1>5 DEF NoVisitMissed, StartsVisit, Before
  <2>1. CASE i \in 1..committed
    BY <1>5, <2>1 DEF VisitsInv, NoVisitMissed
  <2>2. CASE i \in Uncommitted
    BY <1>1, <1>5, <2>2 DEF RunInv
  <2> QED
    BY <1>12, <2>1, <2>2
<1>14. ASSUME Ordered PROVE (Complete(dbLast, committed) /\ SplitOnlyAtTarget)'
  <2>1. OrderedInv
    BY <1>14 DEF VisitsInv
  <2>2. Complete(dbLast, committed) /\ SplitOnlyAtTarget /\ \A i \in visits : Justified(i)
    BY <2>1 DEF OrderedInv
  <2>3. maxSeen # Never => \E k \in 1..pos : log[k].ts = maxSeen
    BY <1>1 DEF RunInv
  <2>5. Complete(merged, pos)
    <3> SUFFICES ASSUME NEW j \in 1..pos
                 PROVE  \/ log[j].ts <= merged[log[j].visitor]
                        \/ \E k \in 1..pos : log[k].ts - log[j].ts > Timeout
                        \/ \E t \in targets : Between(t, pos, log[j].visitor)
      BY DEF Complete
    <3>0. CASE \E i \in Uncommitted :
                 log[i].visitor = log[j].visitor /\ log[j].ts <= log[i].ts
      <4>1. PICK i \in Uncommitted :
                   log[i].visitor = log[j].visitor /\ log[j].ts <= log[i].ts
        BY <3>0
      <4>2. /\ log[j].visitor \in Visitors /\ log[j].ts \in Nat \ {0}
            /\ log[i].ts \in Nat \ {0}
        BY <1>1, <1>12, <4>1, LogFacts DEF Uncommitted
      <4>3. log[j].ts <= dirty[log[j].visitor]
        BY <1>1, <1>3, <4>1, <4>2 DEF RunInv
      <4>4. CASE Pruned(dirty)[log[j].visitor] = dirty[log[j].visitor]
        BY <1>3, <4>2, <4>3, <4>4
      <4>5. CASE Pruned(dirty)[log[j].visitor] # dirty[log[j].visitor]
        <5>1. dirty[log[j].visitor] < maxSeen - Timeout
          BY <1>1, <1>2, <4>2, <4>5, PrunedFacts
        <5>2. maxSeen \in Nat /\ Timeout \in Nat
          BY <1>1, VisitsAssumption DEF TypeOK
        <5>3. log[j].ts < maxSeen - Timeout /\ maxSeen # Never
          BY <1>3, <4>2, <4>3, <5>1, <5>2 DEF Never
        <5>4. PICK k \in 1..pos : log[k].ts = maxSeen
          BY <2>3, <5>3
        <5>5. log[k].ts - log[j].ts > Timeout
          BY <4>2, <5>2, <5>3, <5>4
        <5> QED
          BY <5>5
      <4> QED
        BY <4>4, <4>5
    <3>1. log[j].visitor \in Visitors /\ log[j].ts \in Nat \ {0}
      BY <1>1, LogFacts
    <3>2. CASE j \in 1..committed /\ \A i \in Uncommitted : log[i].visitor # log[j].visitor
      <4>1. CASE log[j].ts <= dbLast[log[j].visitor]
        BY <1>3, <3>1, <4>1
      <4>2. CASE \E k \in 1..committed : log[k].ts - log[j].ts > Timeout
        BY <1>1, <4>2
      <4>3. ASSUME NEW t \in targets, Between(t, committed, log[j].visitor)
            PROVE  Between(t, pos, log[j].visitor)
        BY <1>1, <1>12, <3>2, <4>3 DEF Between
      <4> QED
        BY <2>2, <3>2, <4>1, <4>2, <4>3 DEF Complete
    <3>3. ASSUME j \in 1..committed, NEW i \in Uncommitted
          PROVE  log[j].ts <= log[i].ts
      <4>1. i \in 1..Len(log) /\ j \in 1..Len(log) /\ j <= i
        BY <1>1, <3>3 DEF Uncommitted
      <4> QED
        BY <1>1, <1>14, <4>1 DEF TypeOK, InOrder
    <3>4. log[j].ts <= log[j].ts
      BY <3>1
    <3> QED
      BY <1>12, <3>0, <3>2, <3>3, <3>4
  <2>6. Complete(Pruned(merged), pos)
    BY <1>1, <1>4, <2>3, <2>5, CompletePruned
  <2>7. Complete(dbLast, committed)'
    BY <1>5, <2>6 DEF Complete, Between
  <2>8. SplitOnlyAtTarget'
    BY <1>5, <2>2, JustifiedStays DEF SplitOnlyAtTarget
  <2> QED
    BY <2>7, <2>8
<1> QED
  BY <1>5, <1>6, <1>7, <1>11, <1>13, <1>14

\* The same whether or not there was anything to write.
LEMMA FlushFacts ==
  ASSUME VisitsInv, pc = "read", UNCHANGED <<log, targets>>,
         Write \/ (pos = committed /\ UNCHANGED dbVars)
  PROVE  /\ committed' = pos /\ dbVisits' \subseteq 1..committed' /\ TableType(dbLast')
         /\ Sound(dbLast, committed)' /\ NoVisitMissed'
         /\ (Ordered => Complete(dbLast, committed) /\ SplitOnlyAtTarget)'
<1>1. CASE Write
  BY <1>1, WriteFacts
<1>2. CASE pos = committed /\ UNCHANGED dbVars
  <2>1. committed' = pos /\ dbVisits' \subseteq 1..committed' /\ TableType(dbLast')
    BY <1>2 DEF VisitsInv, TypeOK, dbVars, TableType
  <2>2. Sound(dbLast, committed)' /\ NoVisitMissed'
    BY <1>2 DEF VisitsInv, dbVars, Sound, NoVisitMissed, StartsVisit, Before
  <2>3. (Ordered => Complete(dbLast, committed) /\ SplitOnlyAtTarget)'
    BY <1>2, JustifiedStays
       DEF VisitsInv, OrderedInv, dbVars, Complete, Between, SplitOnlyAtTarget
  <2> QED
    BY <2>1, <2>2, <2>3
<1> QED
  BY <1>1, <1>2

LEMMA CheckpointInv == ASSUME VisitsInv, Checkpoint PROVE VisitsInv'
<1>1. /\ TypeOK /\ RunInv /\ pc = "read" /\ pos \in Nat /\ pos \in 0..Len(log)
      /\ UNCHANGED <<log, pc, maxSeen, pos, targets, crashes>>
      /\ last' = Pruned(last) /\ dirty' = NoOne /\ visits' = {}
  <2>1. TypeOK /\ RunInv /\ pc = "read"
    BY DEF VisitsInv, Checkpoint
  <2>2. pos \in Nat /\ pos \in 0..Len(log)
    BY <2>1, LogFacts DEF TypeOK
  <2> QED
    BY <2>1, <2>2 DEF Checkpoint, Flush
<1>2. /\ committed' = pos /\ dbVisits' \subseteq 1..committed' /\ TableType(dbLast')
      /\ Sound(dbLast, committed)' /\ NoVisitMissed'
      /\ (Ordered => Complete(dbLast, committed) /\ SplitOnlyAtTarget)'
  BY <1>1, FlushFacts DEF Checkpoint, Flush
<1>3. TableType(last) /\ TableType(Pruned(last)) /\ TableType(NoOne)
  BY <1>1, PrunedFacts, NoOneFacts DEF TypeOK
<1>4. TypeOK'
  BY <1>1, <1>2, <1>3 DEF TypeOK, TableType, InOrder
<1>5. Uncommitted' = {}
  BY <1>1, <1>2 DEF Uncommitted
<1>6. Sound(Pruned(last), pos)
  BY <1>1, <1>3, SoundPruned DEF RunInv
<1>7. RunInv'
  BY <1>1, <1>5, <1>6 DEF RunInv, Sound, NoOne
<1>8. ASSUME Ordered PROVE OrderedInv'
  <2>1. Complete(last, pos)
    BY <1>1, <1>8 DEF VisitsInv, OrderedInv
  <2>2. Complete(Pruned(last), pos)
    BY <1>1, <1>3, <2>1, CompletePruned DEF RunInv
  <2>3. Complete(last, pos)'
    BY <1>1, <2>2 DEF Complete, Between
  <2> QED
    BY <1>1, <1>2, <1>5, <1>8, <2>3 DEF OrderedInv
<1> QED
  BY <1>1, <1>2, <1>4, <1>7, <1>8 DEF VisitsInv

LEMMA EndRunInv == ASSUME VisitsInv, EndRun PROVE VisitsInv'
<1>1. /\ TypeOK /\ pos \in 0..Len(log) /\ pc = "read" /\ pc' = "idle" /\ Forgotten
      /\ UNCHANGED <<log, targets, crashes>>
  BY DEF VisitsInv, EndRun, TypeOK
<1>2. /\ committed' = pos /\ dbVisits' \subseteq 1..committed' /\ TableType(dbLast')
      /\ Sound(dbLast, committed)' /\ NoVisitMissed'
      /\ (Ordered => Complete(dbLast, committed) /\ SplitOnlyAtTarget)'
  BY <1>1, FlushFacts DEF EndRun
<1>3. TypeOK'
  BY <1>1, <1>2, ForgottenType DEF TypeOK, TableType, InOrder
<1> QED
  BY <1>1, <1>2, <1>3 DEF VisitsInv, OrderedInv

LEMMA CrashInv == ASSUME VisitsInv, Crash PROVE VisitsInv'
<1> USE DEF VisitsInv, Crash, dbVars
<1>1. TypeOK'
  BY ForgottenType, VisitsAssumption DEF TypeOK, TableType, InOrder
<1>2. (Sound(dbLast, committed) /\ NoVisitMissed)'
  BY DEF Sound, NoVisitMissed, StartsVisit, Before
<1>3. (Ordered => OrderedInv)'
  BY JustifiedStays DEF OrderedInv, Complete, Between, SplitOnlyAtTarget
<1> QED
  BY <1>1, <1>2, <1>3

\* What is left after a rollback was read before the target.
LEMMA RollbackInv == ASSUME VisitsInv, NEW t \in RollbackTo, Rollback(t) PROVE VisitsInv'
<1>1. /\ TypeOK /\ pc = "idle" /\ committed \in Nat /\ committed <= Len(log) /\ Len(log) \in Nat
      /\ t \in Nat \ {0}
  BY LogFacts, VisitsAssumption DEF VisitsInv, Rollback, TypeOK, Never
<1>2. PICK k \in 0..committed :
         (\A i \in 1..committed : i <= k <=> log[i].ts < t) /\ committed' = k
  BY DEF Rollback
<1>3. /\ dbVisits' = {i \in dbVisits : log[i].ts < t}
      /\ dbLast' = [v \in Visitors |-> IF dbLast[v] >= t THEN Never ELSE dbLast[v]]
      /\ targets' = targets \cup {t}
      /\ UNCHANGED <<log, runVars, crashes>>
  BY DEF Rollback
<1>4. TableType(dbLast') /\ \A v \in Visitors : dbLast'[v] # Never => dbLast'[v] = dbLast[v] /\ dbLast[v] < t
  BY <1>1, <1>3 DEF TypeOK, TableType, Never
<1>5. \A i \in 1..k : i \in 1..committed /\ log[i].ts < t
  BY <1>1, <1>2
<1>6. dbVisits' \subseteq 1..k
  <2> SUFFICES ASSUME NEW i \in dbVisits' PROVE i \in 1..k
    OBVIOUS
  <2>1. i \in 1..committed /\ log[i].ts < t
    BY <1>1, <1>3 DEF TypeOK
  <2>2. i <= k
    BY <1>2, <2>1
  <2> QED
    BY <1>1, <2>1, <2>2
<1>7. TypeOK'
  <2>1. committed' \in 0..Len(log) /\ dbVisits' \subseteq 1..committed' /\ targets' \subseteq RollbackTo
    BY <1>1, <1>2, <1>3, <1>6 DEF TypeOK
  <2>2. TableType(last)' /\ TableType(dirty)' /\ TableType(dbLast)'
    BY <1>1, <1>3, <1>4 DEF TypeOK, TableType, runVars
  <2> QED
    BY <1>1, <1>3, <2>1, <2>2 DEF TypeOK, InOrder, runVars
<1>8. Sound(dbLast, committed)'
  <2> SUFFICES ASSUME NEW v \in Visitors, dbLast'[v] # Never
               PROVE  \E j \in 1..k : log[j].visitor = v /\ log[j].ts = dbLast'[v]
    BY <1>2, <1>3 DEF Sound
  <2>1. dbLast'[v] = dbLast[v] /\ dbLast[v] < t
    BY <1>4
  <2>2. PICK j \in 1..committed : log[j].visitor = v /\ log[j].ts = dbLast[v]
    BY <2>1 DEF VisitsInv, Sound
  <2>3. j \in 1..k
    BY <1>1, <1>2, <2>1, <2>2
  <2> QED
    BY <2>1, <2>2, <2>3
<1>9. NoVisitMissed'
  BY <1>2, <1>3, <1>5 DEF VisitsInv, NoVisitMissed, StartsVisit, Before
<1>10. ASSUME Ordered PROVE OrderedInv'
  <2>1. Complete(dbLast, committed) /\ SplitOnlyAtTarget
    BY <1>10 DEF VisitsInv, OrderedInv
  <2>2. SplitOnlyAtTarget'
    BY <1>3, <2>1, JustifiedStays DEF SplitOnlyAtTarget
  <2>3. ASSUME k < committed, NEW v PROVE Between(t, k, v)
    <3> SUFFICES ASSUME NEW i \in 1..Len(log), i > k PROVE log[i].ts >= t
      BY <1>5 DEF Between
    <3>1. k + 1 \in 1..committed /\ k + 1 \in 1..Len(log) /\ k + 1 <= i
      BY <1>1, <2>3
    <3>2. ~ log[k + 1].ts < t
      BY <1>2, <3>1
    <3>3. log[k + 1].ts <= log[i].ts
      BY <1>1, <1>10, <3>1 DEF TypeOK, InOrder
    <3>4. log[k + 1].ts \in Nat /\ log[i].ts \in Nat
      BY <1>1, <3>1, LogFacts
    <3> QED
      BY <1>1, <3>2, <3>3, <3>4
  <2>4. ASSUME k < committed PROVE Complete(dbLast, committed)'
    <3>1. t \in targets' /\ log' = log /\ committed' = k
      BY <1>2, <1>3
    <3>2. \A j \in 1..k : Between(t, k, log[j].visitor)
      BY <2>3, <2>4
    <3>3. \A j \in 1..k : Between(t, k, log[j].visitor)'
      BY <3>1, <3>2 DEF Between
    <3> QED
      BY <3>1, <3>3 DEF Complete
  <2>5. ASSUME k = committed PROVE Complete(dbLast, committed)'
    <3>1. \A v \in Visitors : dbLast'[v] = dbLast[v]
      <4> SUFFICES ASSUME NEW v \in Visitors, dbLast[v] >= t PROVE FALSE
        BY <1>3
      <4>1. dbLast[v] # Never /\ dbLast[v] \in Nat
        BY <1>1 DEF TypeOK, TableType, Never
      <4>2. PICK j \in 1..committed : log[j].ts = dbLast[v]
        BY <4>1 DEF VisitsInv, Sound
      <4> QED
        BY <1>1, <1>5, <2>5, <4>1, <4>2
    <3>2. \A j \in 1..k : log[j].visitor \in Visitors
      BY <1>1, <1>5, LogFacts
    <3> QED
      BY <1>2, <1>3, <2>1, <2>5, <3>1, <3>2 DEF Complete, Between
  <2>6. Complete(dbLast, committed)'
    BY <1>1, <1>2, <2>4, <2>5
  <2> QED
    <3>1. pc' = "idle"
      BY <1>1, <1>3 DEF runVars
    <3> QED
      BY <2>2, <2>6, <3>1 DEF OrderedInv
<1> QED
  BY <1>1, <1>3, <1>7, <1>8, <1>9, <1>10 DEF VisitsInv, runVars

-----------------------------------------------------------------------------
(* Theorems. *)

LEMMA StepInv == VisitsInv /\ [Next]_vars => VisitsInv'
<1> SUFFICES ASSUME VisitsInv, [Next]_vars PROVE VisitsInv'
  OBVIOUS
<1>1. CASE StartRun
  BY <1>1, StartRunInv
<1>2. CASE AggregateEntry
  BY <1>2, AggregateEntryInv
<1>3. CASE Checkpoint
  BY <1>3, CheckpointInv
<1>4. CASE EndRun
  BY <1>4, EndRunInv
<1>5. CASE Crash
  BY <1>5, CrashInv
<1>6. ASSUME NEW t \in RollbackTo, Rollback(t) PROVE VisitsInv'
  BY <1>6, RollbackInv
<1>7. CASE UNCHANGED vars
  BY <1>7, Stutter
<1> QED
  BY <1>1, <1>2, <1>3, <1>4, <1>5, <1>6, <1>7 DEF Next

\* The inductive invariant: what is remembered of a visitor is the time of an
\* entry that was read, and what is forgotten is too long ago.
THEOREM VisitsInvariant == Spec => []VisitsInv
BY InitInv, StepInv, PTL DEF Spec

\* No visit is missed, for entries in any order, through pruning, crashes and
\* rollbacks.
THEOREM EveryVisitCounted == Spec => []NoVisitMissed
<1>1. VisitsInv => NoVisitMissed
  BY DEF VisitsInv
<1> QED
  BY <1>1, VisitsInvariant, PTL

\* For entries in the order of time, pruning, storing and loading the state of
\* the visitors are not seen in the count: the visits are those of the
\* definition over the whole log.
THEOREM PruningIsUnseen == Spec => []VisitsRightUntilRollback
<1>1. VisitsInv => VisitsRightUntilRollback
  BY DEF VisitsInv, OrderedInv, SplitOnlyAtTarget, Justified, NoVisitMissed, TypeOK,
         VisitsRight, VisitsRightUntilRollback
<1> QED
  BY <1>1, VisitsInvariant, PTL

\* The variables keep their types.
THEOREM VisitsTypeCorrect == Spec => []TypeOK
<1>1. VisitsInv => TypeOK
  BY DEF VisitsInv
<1> QED
  BY <1>1, VisitsInvariant, PTL

\* For entries in the order of time, whatever is rolled back and however often,
\* an entry that is counted without need is the first of its visitor after a
\* target.
THEOREM RollbackSplitsOnlyAtTarget == Spec => [](Ordered => SplitOnlyAtTarget)
<1>1. VisitsInv => (Ordered => SplitOnlyAtTarget)
  BY DEF VisitsInv, OrderedInv
<1> QED
  BY <1>1, VisitsInvariant, PTL

=============================================================================
