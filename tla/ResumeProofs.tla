---------------------------- MODULE ResumeProofs ----------------------------
(***************************************************************************)
(* Proofs about Resume, for every number of lines, inodes, crashes and     *)
(* rollbacks and whatever happens to the files: the rows of a run can      *)
(* always be stored together; and, where nothing makes a row describe      *)
(* another file than the one it was written for, no line is counted twice. *)
(***************************************************************************)
EXTENDS ResumeCover, FiniteSetTheorems, SequenceTheorems, TLAPS

-----------------------------------------------------------------------------
(* Induction, and rows that are written in turn. *)

LEMMA SmallestNat ==
  ASSUME NEW S \in SUBSET Nat, S # {}
  PROVE  \E n \in S : \A m \in S : n <= m
<1>1. \E n \in S : \A m \in S : ~ (<<m, n>> \in OpToRel(<, Nat))
  BY WFMin, NatLessThanWellFounded
<1>2. ASSUME NEW m \in Nat, NEW n \in Nat, ~ (<<m, n>> \in OpToRel(<, Nat))
      PROVE  n <= m
  BY <1>2 DEF OpToRel
<1>3. PICK n \in S : \A m \in S : ~ (<<m, n>> \in OpToRel(<, Nat))
  BY <1>1
<1>4. ASSUME NEW m \in S PROVE n <= m
  BY <1>2, <1>3
<1> QED BY <1>4

LEMMA InductionUpTo ==
  ASSUME NEW n \in Nat, NEW S, 0 \in S, \A k \in 1..n : k - 1 \in S => k \in S
  PROVE  \A k \in 0..n : k \in S
<1> DEFINE Bad == {k \in 0..n : k \notin S}
<1>1. SUFFICES ASSUME Bad # {} PROVE FALSE
  OBVIOUS
<1>2. Bad \in SUBSET Nat /\ \A k \in Bad : k \in 0..n /\ k \notin S
  OBVIOUS
<1>3. PICK k \in Bad : \A j \in Bad : k <= j
  <2> HIDE DEF Bad
  <2> QED BY <1>1, <1>2, SmallestNat
<1>4. k \in 1..n /\ k - 1 \in 0..n /\ ~ (k <= k - 1)
  BY <1>2
<1>5. k - 1 \in S
  BY <1>3, <1>4
<1> QED BY <1>2, <1>4, <1>5

\* A table that is changed once for each of n rows has a content after each.
LEMMA TurnsExist ==
  ASSUME NEW A, NEW a \in A, NEW n \in Nat, NEW g \in [1..n -> [A -> A]]
  PROVE  \E f \in [0..n -> A] : f[0] = a /\ \A k \in 1..n : f[k] = g[k][f[k - 1]]
<1> DEFINE Reaches(i, f) == f[0] = a /\ \A k \in 1..i : f[k] = g[k][f[k - 1]]
           S == {i \in 0..n : \E f \in [0..n -> A] : Reaches(i, f)}
<1>1. 0 \in S
  <2> DEFINE f == [k \in 0..n |-> a]
  <2>1. f \in [0..n -> A] /\ Reaches(0, f)
    OBVIOUS
  <2> HIDE DEF f, Reaches
  <2> QED BY <2>1
<1>2. ASSUME NEW i \in 1..n, i - 1 \in S PROVE i \in S
  <2>1. PICK f \in [0..n -> A] : Reaches(i - 1, f)
    BY <1>2
  <2> DEFINE h == [f EXCEPT ![i] = g[i][f[i - 1]]]
  <2>2. i - 1 \in 0..n /\ f[i - 1] \in A /\ g[i][f[i - 1]] \in A
    BY <1>2
  <2>3. h \in [0..n -> A] /\ h[i] = g[i][f[i - 1]]
        /\ \A k \in 0..n : k # i => h[k] = f[k]
    BY <2>2
  <2> HIDE DEF h
  <2>4. Reaches(i, h)
    <3>1. h[0] = a
      BY <2>1, <2>3
    <3>2. ASSUME NEW k \in 1..i PROVE h[k] = g[k][h[k - 1]]
      <4>1. h[k - 1] = f[k - 1]
        BY <1>2, <2>3
      <4>2. CASE k = i
        BY <2>3, <4>1, <4>2
      <4>3. CASE k # i
        <5>1. k \in 1..(i - 1) /\ h[k] = f[k]
          BY <1>2, <2>3, <4>3
        <5> QED BY <2>1, <4>1, <5>1
      <4> QED BY <4>2, <4>3
    <3> QED BY <3>1, <3>2
  <2> HIDE DEF Reaches
  <2> QED BY <2>3, <2>4
<1>3. \A i \in 0..n : i \in S
  <2> HIDE DEF S
  <2> QED BY <1>1, <1>2, InductionUpTo
<1>4. n \in S
  <2> HIDE DEF S
  <2> QED BY <1>3
<1> QED BY <1>4

-----------------------------------------------------------------------------
(* Rows. *)

OptRow == Row \cup {NoRow}
Lines0 == 0..MaxLines

LEMMA Constants ==
  /\ MaxLines \in Nat /\ HeadSize \in Nat \ {0} /\ Inodes \subseteq Nat \ {0} /\ 1 \in Inodes
  /\ NoInode \notin Inodes /\ "" \notin Paths /\ NoHead \in HeadType
  /\ NoTs = 0 /\ Lines0 \subseteq Nat /\ Line \subseteq Lines0 /\ 0 \in Lines0
  /\ Targets \subseteq Line
BY ResumeAssumption DEF NoInode, Paths, Live, Rotated, Packed, HeadType, NoTs, Lines0, Line

LEMMA RowFields ==
  ASSUME NEW r \in OptRow
  PROVE  /\ {r.csize, r.usize, r.coff, r.uoff, r.earliest, r.latest, r.skip} \subseteq Lines0
         /\ r.chead \in HeadType /\ r.uhead \in HeadType
         /\ r.mtime \in Nat /\ r.completed \in BOOLEAN
         /\ r # NoRow => r \in Row /\ r.path \in Paths /\ r.inode \in Inodes
         /\ r = NoRow => r \notin Row /\ r.path = "" /\ r.inode = NoInode /\ ~r.completed
<1>1. CASE r \in Row
  <2>1. NoRow \notin Row
    BY Constants DEF Row, NoRow
  <2> QED BY <1>1, <2>1, Constants DEF Row, Lines0
<1>2. CASE r = NoRow
  <2>1. NoRow \notin Row
    BY Constants DEF Row, NoRow
  <2> QED BY <1>2, <2>1, Constants DEF NoRow, Lines0
<1> QED BY <1>1, <1>2 DEF OptRow

LEMMA TheOnlyIs ==
  ASSUME NEW S
  PROVE  /\ TheOnly(S) \in S \cup {NoRow}
         /\ S # {} => TheOnly(S) \in S
         /\ S = {} => TheOnly(S) = NoRow
BY DEF TheOnly

LEMMA BestIs ==
  ASSUME NEW S
  PROVE  /\ BestByUncompressed(S) \in S \cup {NoRow}
         /\ BestBy(S, LAMBDA r : r.coff) \in S \cup {NoRow}
BY TheOnlyIs DEF BestByUncompressed, BestBy

LEMMA MergedIsRow ==
  ASSUME NEW r \in Row, NEW old \in OptRow
  PROVE  Merged(r, old) \in Row /\ Merged(r, old).path = r.path /\ Merged(r, old).inode = r.inode
BY RowFields DEF Merged, Coalesce, Row, OptRow, Lines0

LEMMA RewoundIsRow ==
  ASSUME NEW r \in Row, NEW t \in Targets
  PROVE  Rewound(r, t) \in Row /\ Rewound(r, t).path = r.path /\ Rewound(r, t).inode = r.inode
BY Constants DEF Rewound, Row, Lines0, Line

-----------------------------------------------------------------------------
(* Writing rows in turn. *)

Upserts(table, rows) == InTurn(Upsert, table, rows)
Replaces(table, rows) == InTurn(Replace, table, rows)

LEMMA UpsertIsTable ==
  ASSUME NEW table \in SUBSET Row, NEW r \in Row
  PROVE  /\ Upsert(table, r) \in SUBSET Row
         /\ \A s \in Upsert(table, r) :
              (s \in table /\ s.path # r.path) \/ (s.path = r.path /\ s.inode = r.inode)
         /\ \A s, u \in Upsert(table, r) : s.path = r.path /\ u.path = r.path => s = u
<1>1. TheOnly(SameFilePath(table, r)) \in OptRow
  BY TheOnlyIs DEF SameFilePath, OptRow
<1> QED BY <1>1, MergedIsRow DEF Upsert, SameFilePath

LEMMA UpsertsInTurn ==
  ASSUME NEW table \in SUBSET Row, NEW rows \in Seq(Row)
  PROVE  /\ Upserts(table, rows) \in [0..Len(rows) -> SUBSET Row]
         /\ Upserts(table, rows)[0] = table
         /\ \A k \in 1..Len(rows) : Upserts(table, rows)[k] = Upsert(Upserts(table, rows)[k - 1], rows[k])
<1> DEFINE n == Len(rows)
           A == SUBSET Row
           g == [k \in 1..n |-> [x \in A |-> Upsert(x, rows[k])]]
           Step(f, k) == IF k = 0 THEN table ELSE Upsert(f[k - 1], rows[k])
           IsTurn(f) == f = [k \in 0..n |-> Step(f, k)]
           f == CHOOSE h : IsTurn(h)
<1>1. n \in Nat /\ \A k \in 1..n : rows[k] \in Row
  OBVIOUS
<1>2. \A x \in A, k \in 1..n : Upsert(x, rows[k]) \in A
  BY <1>1, UpsertIsTable
<1>3. g \in [1..n -> [A -> A]] /\ \A x \in A, k \in 1..n : g[k][x] = Upsert(x, rows[k])
  BY <1>2
<1>4. \E h : IsTurn(h)
  <2>1. PICK h \in [0..n -> A] : h[0] = table /\ \A k \in 1..n : h[k] = g[k][h[k - 1]]
    <3>1. table \in A /\ n \in Nat /\ g \in [1..n -> [A -> A]]
      BY <1>1, <1>3
    <3>2. ASSUME NEW b \in A, NEW m \in Nat, NEW w \in [1..m -> [A -> A]]
          PROVE  \E h \in [0..m -> A] : h[0] = b /\ \A k \in 1..m : h[k] = w[k][h[k - 1]]
      <4> HIDE DEF A
      <4> QED BY <3>2, TurnsExist
    <3> HIDE DEF n, A, g
    <3> QED BY <3>1, <3>2
  <2>2. \A k \in 1..n : k - 1 \in 0..n /\ h[k - 1] \in A
    BY <1>1, <2>1
  <2>3. ASSUME NEW k \in 0..n PROVE h[k] = Step(h, k)
    <3>1. CASE k = 0
      BY <2>1, <3>1
    <3>2. CASE k # 0
      <4>1. k \in 1..n
        BY <1>1, <3>2
      <4> HIDE DEF g, A
      <4> QED BY <1>3, <2>1, <2>2, <3>2, <4>1
    <3> QED BY <3>1, <3>2
  <2>4. h = [k \in 0..n |-> h[k]]
    BY <2>1
  <2> HIDE DEF n, A, g, Step
  <2> QED BY <2>3, <2>4
<1>5. IsTurn(f)
  BY <1>4
<1>6. Upserts(table, rows) = f
  BY DEF Upserts, InTurn
<1> HIDE DEF f, n
<1>7. f[0] = table /\ \A k \in 1..n : f[k] = Upsert(f[k - 1], rows[k])
  BY <1>1, <1>5
<1>8. \A k \in 0..n : k \in {i \in 0..n : f[i] \in A}
  <2>1. 0 \in {i \in 0..n : f[i] \in A}
    BY <1>1, <1>7
  <2>2. ASSUME NEW k \in 1..n, f[k - 1] \in A PROVE f[k] \in A
    BY <1>2, <1>7, <2>2
  <2> DEFINE S == {i \in 0..n : f[i] \in A}
  <2>3. \A k \in 1..n : k - 1 \in S => k \in S
    BY <1>1, <2>2
  <2> HIDE DEF S
  <2> QED BY <1>1, <2>1, <2>3, InductionUpTo DEF S
<1>9. f \in [0..n -> A]
  BY <1>5, <1>8
<1> QED BY <1>6, <1>7, <1>9 DEF n

LEMMA ReplaceIsTable ==
  ASSUME NEW table \in SUBSET Row, NEW r \in Row
  PROVE  Replace(table, r) \in SUBSET Row
BY DEF Replace

LEMMA ReplacesInTurn ==
  ASSUME NEW table \in SUBSET Row, NEW rows \in Seq(Row)
  PROVE  /\ Replaces(table, rows) \in [0..Len(rows) -> SUBSET Row]
         /\ Replaces(table, rows)[0] = table
         /\ \A k \in 1..Len(rows) : Replaces(table, rows)[k] = Replace(Replaces(table, rows)[k - 1], rows[k])
<1> DEFINE n == Len(rows)
           A == SUBSET Row
           g == [k \in 1..n |-> [x \in A |-> Replace(x, rows[k])]]
           Step(f, k) == IF k = 0 THEN table ELSE Replace(f[k - 1], rows[k])
           IsTurn(f) == f = [k \in 0..n |-> Step(f, k)]
           f == CHOOSE h : IsTurn(h)
<1>1. n \in Nat /\ \A k \in 1..n : rows[k] \in Row
  OBVIOUS
<1>2. \A x \in A, k \in 1..n : Replace(x, rows[k]) \in A
  BY <1>1, ReplaceIsTable
<1>3. g \in [1..n -> [A -> A]] /\ \A x \in A, k \in 1..n : g[k][x] = Replace(x, rows[k])
  BY <1>2
<1>4. \E h : IsTurn(h)
  <2>1. PICK h \in [0..n -> A] : h[0] = table /\ \A k \in 1..n : h[k] = g[k][h[k - 1]]
    <3>1. table \in A /\ n \in Nat /\ g \in [1..n -> [A -> A]]
      BY <1>1, <1>3
    <3>2. ASSUME NEW b \in A, NEW m \in Nat, NEW w \in [1..m -> [A -> A]]
          PROVE  \E h \in [0..m -> A] : h[0] = b /\ \A k \in 1..m : h[k] = w[k][h[k - 1]]
      <4> HIDE DEF A
      <4> QED BY <3>2, TurnsExist
    <3> HIDE DEF n, A, g
    <3> QED BY <3>1, <3>2
  <2>2. \A k \in 1..n : k - 1 \in 0..n /\ h[k - 1] \in A
    BY <1>1, <2>1
  <2>3. ASSUME NEW k \in 0..n PROVE h[k] = Step(h, k)
    <3>1. CASE k = 0
      BY <2>1, <3>1
    <3>2. CASE k # 0
      <4>1. k \in 1..n
        BY <1>1, <3>2
      <4> HIDE DEF g, A
      <4> QED BY <1>3, <2>1, <2>2, <3>2, <4>1
    <3> QED BY <3>1, <3>2
  <2>4. h = [k \in 0..n |-> h[k]]
    BY <2>1
  <2> HIDE DEF n, A, g, Step
  <2> QED BY <2>3, <2>4
<1>5. IsTurn(f)
  BY <1>4
<1>6. Replaces(table, rows) = f
  BY DEF Replaces, InTurn
<1> HIDE DEF f, n
<1>7. f[0] = table /\ \A k \in 1..n : f[k] = Replace(f[k - 1], rows[k])
  BY <1>1, <1>5
<1>8. \A k \in 0..n : k \in {i \in 0..n : f[i] \in A}
  <2>1. 0 \in {i \in 0..n : f[i] \in A}
    BY <1>1, <1>7
  <2>2. ASSUME NEW k \in 1..n, f[k - 1] \in A PROVE f[k] \in A
    BY <1>2, <1>7, <2>2
  <2> DEFINE S == {i \in 0..n : f[i] \in A}
  <2>3. \A k \in 1..n : k - 1 \in S => k \in S
    BY <1>1, <2>2
  <2> HIDE DEF S
  <2> QED BY <1>1, <2>1, <2>3, InductionUpTo DEF S
<1>9. f \in [0..n -> A]
  BY <1>5, <1>8
<1> QED BY <1>6, <1>7, <1>9 DEF n

\* Paths and inodes are unique.
Unique(table) == \A r, s \in table : r.path = s.path \/ r.inode = s.inode => r = s

\* What the rows do one after the other, from one table to the next.
LEMMA UpsertsKeep ==
  ASSUME NEW table \in SUBSET Row, NEW rows \in Seq(Row), Unique(table),
         \A k \in 1..Len(rows) : ~InodeTaken(Upserts(table, rows)[k - 1], rows[k])
  PROVE  Unique(Upserts(table, rows)[Len(rows)])
<1> DEFINE f == Upserts(table, rows)
           S == {k \in 0..Len(rows) : Unique(f[k])}
<1>0. Len(rows) \in Nat /\ \A k \in 1..Len(rows) : rows[k] \in Row
  OBVIOUS
<1>1. /\ Len(rows) \in Nat /\ f \in [0..Len(rows) -> SUBSET Row] /\ f[0] = table
      /\ \A k \in 1..Len(rows) : f[k] = Upsert(f[k - 1], rows[k]) /\ rows[k] \in Row
  BY <1>0, UpsertsInTurn
<1> HIDE DEF f
<1>2. 0 \in S
  BY <1>1
<1>3. ASSUME NEW k \in 1..Len(rows), k - 1 \in S PROVE k \in S
  <2>1. f[k - 1] \in SUBSET Row /\ Unique(f[k - 1]) /\ ~InodeTaken(f[k - 1], rows[k])
    BY <1>1, <1>3 DEF f
  <2>2. /\ f[k] = Upsert(f[k - 1], rows[k])
        /\ \A s \in f[k] : \/ (s \in f[k - 1] /\ s.path # rows[k].path)
                            \/ (s.path = rows[k].path /\ s.inode = rows[k].inode)
        /\ \A s, u \in f[k] : s.path = rows[k].path /\ u.path = rows[k].path => s = u
    BY <1>1, <2>1, UpsertIsTable
  <2>3. Unique(f[k])
    BY <2>1, <2>2 DEF Unique, InodeTaken
  <2> QED BY <2>3
<1>4. \A k \in 0..Len(rows) : k \in S
  <2> HIDE DEF S
  <2> QED BY <1>1, <1>2, <1>3, InductionUpTo
<1> QED BY <1>1, <1>4 DEF f

LEMMA UpsertsComeFrom ==
  ASSUME NEW table \in SUBSET Row, NEW rows \in Seq(Row)
  PROVE  \A k \in 0..Len(rows) : \A s \in Upserts(table, rows)[k] :
           s \in table \/ \E j \in 1..k : s.path = rows[j].path /\ s.inode = rows[j].inode
<1> DEFINE f == Upserts(table, rows)
           From(k) == \A s \in f[k] :
             s \in table \/ \E j \in 1..k : s.path = rows[j].path /\ s.inode = rows[j].inode
           S == {k \in 0..Len(rows) : From(k)}
<1>0. Len(rows) \in Nat /\ \A k \in 1..Len(rows) : rows[k] \in Row
  OBVIOUS
<1>1. /\ Len(rows) \in Nat /\ f \in [0..Len(rows) -> SUBSET Row] /\ f[0] = table
      /\ \A k \in 1..Len(rows) : f[k] = Upsert(f[k - 1], rows[k]) /\ rows[k] \in Row
  BY <1>0, UpsertsInTurn
<1> HIDE DEF f
<1>2. 0 \in S
  BY <1>1
<1>3. ASSUME NEW k \in 1..Len(rows), k - 1 \in S PROVE k \in S
  <2>1. f[k - 1] \in SUBSET Row /\ From(k - 1) /\ 1..(k - 1) \subseteq 1..k /\ k \in 1..k
    BY <1>1, <1>3
  <2>2. \A s \in f[k] : s \in f[k - 1] \/ (s.path = rows[k].path /\ s.inode = rows[k].inode)
    BY <1>1, <2>1, UpsertIsTable
  <2>3. From(k)
    BY <2>1, <2>2
  <2> QED BY <2>3
<1>4. \A k \in 0..Len(rows) : k \in S
  <2> HIDE DEF S
  <2> QED BY <1>1, <1>2, <1>3, InductionUpTo
<1> QED BY <1>4 DEF f

LEMMA ReplacesKeep ==
  ASSUME NEW table \in SUBSET Row, NEW rows \in Seq(Row), Unique(table)
  PROVE  Unique(Replaces(table, rows)[Len(rows)])
<1> DEFINE f == Replaces(table, rows)
           S == {k \in 0..Len(rows) : Unique(f[k])}
<1>0. Len(rows) \in Nat /\ \A k \in 1..Len(rows) : rows[k] \in Row
  OBVIOUS
<1>1. /\ Len(rows) \in Nat /\ f \in [0..Len(rows) -> SUBSET Row] /\ f[0] = table
      /\ \A k \in 1..Len(rows) : f[k] = Replace(f[k - 1], rows[k]) /\ rows[k] \in Row
  BY <1>0, ReplacesInTurn
<1> HIDE DEF f
<1>2. 0 \in S
  BY <1>1
<1>3. ASSUME NEW k \in 1..Len(rows), k - 1 \in S PROVE k \in S
  BY <1>1, <1>3 DEF Unique, Replace
<1>4. \A k \in 0..Len(rows) : k \in S
  <2> HIDE DEF S
  <2> QED BY <1>1, <1>2, <1>3, InductionUpTo
<1> QED BY <1>1, <1>4 DEF f

-----------------------------------------------------------------------------
(* What is planned for a file. *)

LEMMA Files ==
  ASSUME TypeOK, NEW p \in OnDisk
  PROVE  /\ p \in Paths /\ dir[p] \in Inodes /\ At(p) \in Content
         /\ At(p).from \in Lines0 /\ At(p).size \in Lines0 /\ At(p).mtime \in Nat
<1>1. p \in Paths /\ dir[p] # NoInode
  BY ResumeAssumption DEF OnDisk, TypeOK
<1>2. dir[p] \in Inodes /\ At(p) \in Content
  BY <1>1 DEF TypeOK, At
<1> QED BY <1>1, <1>2 DEF Content, Lines0

\* The row that is found by path has the path, that by inode the inode.
LEMMA FoundByPath ==
  ASSUME TypeOK, NEW p
  PROVE  /\ ByPath(p) \in OptRow
         /\ ByPath(p) # NoRow => ByPath(p) \in parseState /\ ByPath(p).path = p
         /\ \A s \in parseState : s.path = p => ByPath(p) = s
<1> DEFINE S == {r \in parseState : r.path = p}
<1>1. ByPath(p) = TheOnly(S) /\ parseState \subseteq Row
  BY DEF ByPath, StateByPath, TypeOK
<1>2. TheOnly(S) \in S \cup {NoRow} /\ (S # {} => TheOnly(S) \in S)
  BY TheOnlyIs
<1>3. \A r, s \in S : r = s
  BY DEF TypeOK
<1> QED BY <1>1, <1>2, <1>3 DEF OptRow

LEMMA FoundByInode ==
  ASSUME TypeOK, NEW p
  PROVE  /\ ByInode(p) \in OptRow
         /\ ByInode(p) # NoRow => ByInode(p) \in parseState \cup archive /\ ByInode(p).inode = dir[p]
         /\ \A s \in parseState : s.inode = dir[p] => ByInode(p) = s
<1> DEFINE S == {r \in parseState : r.inode = dir[p]}
           A == {r \in archive : r.inode = dir[p]}
<1>1. /\ ByInode(p) = IF S # {} THEN TheOnly(S) ELSE BestByUncompressed(A)
      /\ parseState \subseteq Row /\ archive \subseteq Row
  BY DEF ByInode, StateByInode, TypeOK
<1>2. TheOnly(S) \in S \cup {NoRow} /\ (S # {} => TheOnly(S) \in S)
  BY TheOnlyIs
<1>3. BestByUncompressed(A) \in A \cup {NoRow}
  BY BestIs
<1>4. \A r, s \in S : r = s
  BY DEF TypeOK
<1> QED BY <1>1, <1>2, <1>3, <1>4 DEF OptRow

LEMMA FoundRows ==
  ASSUME TypeOK, NEW p
  PROVE  /\ Primary(p) \in OptRow /\ HeadMatch(p) \in OptRow
         /\ TheOnly(Duplicates(p)) \in OptRow
<1>1. KnownRows \subseteq Row
  BY DEF KnownRows, TypeOK
<1>2. Primary(p) \in OptRow
  BY FoundByPath, FoundByInode DEF Primary, ChoosePrimary
<1>3. TheOnly(Duplicates(p)) \in OptRow
  <2>1. Duplicates(p) \subseteq Row
    BY <1>1 DEF Duplicates
  <2> QED BY <2>1, TheOnlyIs DEF OptRow
<1>4. FindHeadMatch(p) \in OptRow
  <2> DEFINE fps == ComputeFingerprints(p)
             B == {r \in KnownRows : IsCompressed(p) /\ r.chead = fps.chead}
             H == {r \in KnownRows : fps.uhead # NoHead /\ r.uhead = fps.uhead}
  <2>1. FindHeadMatch(p) = IF B # {} THEN BestBy(B, LAMBDA r : r.coff) ELSE BestByUncompressed(H)
    BY DEF FindHeadMatch
  <2>2. BestBy(B, LAMBDA r : r.coff) \in B \cup {NoRow}
    BY BestIs
  <2>3. BestByUncompressed(H) \in H \cup {NoRow}
    BY BestIs
  <2>4. B \subseteq Row /\ H \subseteq Row
    BY <1>1
  <2> HIDE DEF B, H
  <2> QED BY <2>1, <2>2, <2>3, <2>4 DEF OptRow
<1>5. HeadMatch(p) \in OptRow
  BY <1>4 DEF HeadMatch, OptRow
<1> QED BY <1>2, <1>3, <1>5

LEMMA HeadOfType ==
  ASSUME NEW c \in Content
  PROVE  HeadOf(c) \in HeadType
<1>1. MaxLines \in Nat /\ HeadSize \in Nat /\ HeadSize >= 1
  BY ResumeAssumption
<1>2. c.from \in 0..MaxLines /\ c.size \in 0..MaxLines
  BY DEF Content
<1>3. CASE c.size = 0
  BY <1>3 DEF HeadOf, HeadType
<1>4. CASE c.size # 0
  <2>1. c.size \in Nat /\ c.size >= 1
    BY <1>1, <1>2, <1>4
  <2>2. Lesser(c.size, HeadSize) \in 1..HeadSize
    BY <1>1, <2>1 DEF Lesser
  <2> QED BY <1>2, <1>4, <2>2 DEF HeadOf, HeadType
<1> QED BY <1>3, <1>4

LEMMA FingerprintTypes ==
  ASSUME TypeOK, NEW p \in OnDisk
  PROVE  /\ ComputeFingerprints(p).chead \in HeadType
         /\ ComputeFingerprints(p).uhead \in HeadType
         /\ ComputeFingerprints(p).usize \in Lines0
<1>1. HeadOf(At(p)) \in HeadType /\ At(p).size \in Lines0
  BY Files, HeadOfType
<1>2. Primary(p).uhead \in HeadType /\ Primary(p).usize \in Lines0
  BY FoundRows, RowFields
<1> QED BY <1>1, <1>2, Constants DEF ComputeFingerprints

LEMMA OffsetType ==
  ASSUME TypeOK, NEW p \in OnDisk
  PROVE  ResumeOffset(p) \in Lines0 /\ SkipBefore(p) \in Lines0
<1>1. Primary(p).uoff \in Lines0 /\ HeadMatch(p).uoff \in Lines0 /\ At(p).size \in Lines0
  BY FoundRows, RowFields, Files
<1>2. ByPath(p).skip \in Lines0 /\ ByInode(p).skip \in Lines0
  BY FoundByPath, FoundByInode, RowFields
<1>3. \A off \in Lines0 : Clamped(p, off) \in Lines0
  BY <1>1 DEF Clamped, Lesser
<1> QED BY <1>1, <1>2, <1>3, Constants DEF ResumeOffset, SkipBefore

\* A plan and the rows of files that are skipped are about the file at the path.
IsAbout(r, p) == r \in Row /\ r.path = p /\ r.inode = dir[p]

LEMMA PlanIsRow ==
  ASSUME TypeOK, NEW p \in OnDisk
  PROVE  IsAbout(PlanOf(p), p)
<1>1. /\ p \in Paths /\ dir[p] \in Inodes /\ At(p).size \in Lines0 /\ At(p).mtime \in Nat
  BY Files
<1>2. /\ ComputeFingerprints(p).chead \in HeadType /\ ComputeFingerprints(p).uhead \in HeadType
      /\ ComputeFingerprints(p).usize \in Lines0
      /\ ResumeOffset(p) \in Lines0 /\ SkipBefore(p) \in Lines0
  BY FingerprintTypes, OffsetType
<1> QED BY <1>1, <1>2, Constants DEF PlanOf, IsAbout, Row, NoRow, Lines0

LEMMA AliasIsRow ==
  ASSUME TypeOK, NEW p \in OnDisk, Primary(p).completed
  PROVE  /\ IsAbout(AliasRow(p), p)
         /\ \A r \in AliasUpdate(p) \cup AliasUpdateWithFps(p) : IsAbout(r, p)
<1>1. /\ p \in Paths /\ dir[p] \in Inodes /\ At(p).size \in Lines0 /\ At(p).mtime \in Nat
  BY Files
<1>2. Primary(p) \in Row
  BY FoundRows, RowFields
<1>3. IsAbout(AliasRow(p), p)
  BY <1>1, <1>2, Constants DEF AliasRow, IsAbout, Row, Lines0
<1>4. ComputeFingerprints(p).chead \in HeadType /\ ComputeFingerprints(p).uhead \in HeadType
  BY FingerprintTypes
<1>5. ASSUME NEW c \in Lines0, NEW h \in HeadType, NEW u \in HeadType
      PROVE  IsAbout([AliasRow(p) EXCEPT !.csize = c, !.coff = c, !.chead = h, !.uhead = u], p)
  BY <1>3 DEF IsAbout, Row, Lines0
<1>6. AliasRow(p).uhead \in HeadType
  BY <1>3 DEF IsAbout, Row
<1>7. \A r \in AliasUpdateWithFps(p) : IsAbout(r, p)
  <2> DEFINE packed == IF IsCompressed(p) THEN At(p).size ELSE 0
             head == IF ComputeFingerprints(p).uhead # NoHead THEN ComputeFingerprints(p).uhead
                                                              ELSE AliasRow(p).uhead
  <2>1. packed \in Lines0 /\ head \in HeadType
    BY <1>1, <1>4, <1>6, Constants
  <2>2. AliasUpdateWithFps(p) \subseteq
          {[AliasRow(p) EXCEPT !.csize = packed, !.coff = packed,
                               !.chead = ComputeFingerprints(p).chead, !.uhead = head]}
    BY DEF AliasUpdateWithFps
  <2> HIDE DEF packed, head
  <2>3. IsAbout([AliasRow(p) EXCEPT !.csize = packed, !.coff = packed,
                                    !.chead = ComputeFingerprints(p).chead, !.uhead = head], p)
    BY <1>4, <1>5, <2>1
  <2> QED BY <2>2, <2>3
<1> QED BY <1>3, <1>7 DEF AliasUpdate

LEMMA UpdateIsRow ==
  ASSUME TypeOK, NEW p \in OnDisk
  PROVE  \A r \in SkippedUpdate(p) : IsAbout(r, p)
<1>1. MetadataExactMatch(p) \/ CompressedMatch(p) \/ IsSameFile(p) => Primary(p).completed
  BY DEF MetadataExactMatch, CompressedMatch, IsSameFile
<1>2. IsAbout(CompletedUpdate(p), p)
  <2>1. /\ p \in Paths /\ dir[p] \in Inodes /\ At(p).size \in Lines0 /\ At(p).mtime \in Nat
    BY Files
  <2>2. /\ ComputeFingerprints(p).chead \in HeadType /\ ComputeFingerprints(p).uhead \in HeadType
        /\ ComputeFingerprints(p).usize \in Lines0
        /\ TheOnly(Duplicates(p)).usize \in Lines0
    BY FingerprintTypes, FoundRows, RowFields
  <2> DEFINE packed == IF IsCompressed(p) THEN At(p).size ELSE 0
             usize == IF IsCompressed(p) THEN TheOnly(Duplicates(p)).usize
                                         ELSE ComputeFingerprints(p).usize
  <2>3. packed \in Lines0 /\ usize \in Lines0
    BY <2>1, <2>2, Constants
  <2> DEFINE New(i, c, u, h, v, m) ==
               [NoRow EXCEPT !.path = p, !.inode = i, !.csize = c, !.usize = u, !.chead = h,
                             !.uhead = v, !.coff = c, !.uoff = u, !.mtime = m, !.completed = TRUE]
  <2>4. CompletedUpdate(p) = New(dir[p], packed, usize, ComputeFingerprints(p).chead,
                                 ComputeFingerprints(p).uhead, At(p).mtime)
    BY DEF CompletedUpdate
  <2>5. ASSUME NEW c \in Lines0, NEW u \in Lines0, NEW h \in HeadType, NEW v \in HeadType,
               NEW i \in Inodes, NEW m \in Nat
        PROVE  New(i, c, u, h, v, m) \in Row /\ New(i, c, u, h, v, m).path = p
               /\ New(i, c, u, h, v, m).inode = i
    <3>1. 0 \in 0..MaxLines
      BY ResumeAssumption
    <3> QED BY <2>1, <2>5, <3>1 DEF Row, NoRow, NoTs, Lines0
  <2> HIDE DEF packed, usize, New
  <2>6. CompletedUpdate(p) \in Row /\ CompletedUpdate(p).path = p
        /\ CompletedUpdate(p).inode = dir[p]
    BY <2>1, <2>2, <2>3, <2>4, <2>5
  <2> QED BY <2>6 DEF IsAbout
<1> QED BY <1>1, <1>2, AliasIsRow DEF SkippedUpdate


-----------------------------------------------------------------------------
(* The inductive invariant. *)

\* The rows a commit of this run has stored, or may yet store: those of files that
\* are read or skipped, and those that plans will become.
InHand == Range(pending) \cup Range(todo) \cup ({active.plan} \ {NoRow})

SameFile(r, s) == r.path = s.path /\ r.inode = s.inode

\* A path and an inode belong together, and what stays in the table of the rows
\* of other paths has other inodes.
Fit ==
  /\ \A r, s \in InHand : r.path = s.path \/ r.inode = s.inode => SameFile(r, s)
  /\ \A r \in InHand, s \in Unretired : r.inode = s.inode => r.path = s.path

\* A path has its own inode, and the packed, rotated and live file hold lines in
\* the order they were written.
EndOf(p) == At(p).from + At(p).size
Disk ==
  /\ dir[Live] # NoInode /\ EndOf(Live) <= written
  /\ \A p, q \in Paths : dir[p] = dir[q] /\ dir[p] # NoInode => p = q
  /\ \A p \in Paths \ {Live} : dir[p] # NoInode => EndOf(p) <= At(Live).from
  /\ dir[Rotated] # NoInode /\ dir[Packed] # NoInode => EndOf(Packed) <= At(Rotated).from

Finite ==
  /\ IsFiniteSet(archive) /\ IsFiniteSet(retired)
  /\ \A r, s \in retired : SameFile(r, s) => r = s

Idle == pc = "idle" => todo = <<>> /\ active = NoFile /\ pending = <<>> /\ retired = {}

ResumeInv == TypeOK /\ Finite /\ Idle /\ Disk /\ Fit


LEMMA NewContent ==
  ASSUME NEW f \in 0..MaxLines, NEW s \in 0..MaxLines, NEW m \in Nat
  PROVE  [from |-> f, size |-> s, mtime |-> m] \in Content
BY DEF Content

LEMMA EmptyIs ==
  ASSUME NEW n \in 0..MaxLines
  PROVE  Empty(n) \in Content /\ Empty(n).from = n /\ Empty(n).size = 0
<1>1. MaxLines \in Nat
  BY ResumeAssumption
<1>2. n \in Nat /\ n + 1 \in Nat /\ 0 \in 0..MaxLines
  BY <1>1
<1> QED BY <1>2, NewContent DEF Empty

LEMMA InvInit == Init => ResumeInv
<1> SUFFICES ASSUME Init PROVE ResumeInv
  OBVIOUS
<1>1. Live \in Paths /\ Rotated # Live /\ Packed # Live /\ 0 \in Nat /\ 1 \in Nat
  BY DEF Paths, Live, Rotated, Packed
<1>2. TypeOK
  <2>1. Empty(0) \in Content
    BY EmptyIs, Constants DEF Lines0
  <2>2. dir \in [Paths -> Inodes \cup {NoInode}] /\ file \in [Inodes -> Content]
    BY <2>1, Constants DEF Init
  <2>3. written \in 0..MaxLines /\ lastLog \in 0..MaxLines
    BY ResumeAssumption DEF Init
  <2>4. count \in [Line -> Nat] /\ acc \in [Line -> Nat]
    BY DEF Init, NoCount
  <2>5. todo \in Seq(Row) /\ pending \in Seq(Row)
    BY DEF Init
  <2>6. rollbacks \in 0..MaxRollbacks /\ crashes \in 0..MaxCrashes
    BY ResumeAssumption DEF Init
  <2> QED BY <2>2, <2>3, <2>4, <2>5, <2>6 DEF TypeOK, Init
<1>3. Finite
  BY FS_EmptySet DEF Finite, Init
<1>4. Disk
  <2>1. \A p \in Paths : dir[p] = (IF p = Live THEN 1 ELSE NoInode)
    BY DEF Init
  <2>2. EndOf(Live) = 0 /\ written = 0
    <3>1. dir[Live] = 1 /\ file[1] = Empty(0)
      BY <1>1, <2>1, Constants DEF Init
    <3>2. Empty(0).from = 0 /\ Empty(0).size = 0
      BY DEF Empty
    <3> QED BY <3>1, <3>2 DEF EndOf, At, Init
  <2>3. \A p \in Paths : dir[p] # NoInode => p = Live
    BY <2>1
  <2> QED BY <1>1, <2>1, <2>2, <2>3 DEF Disk, NoInode, Paths
<1>5. InHand = {}
  BY DEF Init, InHand, NoFile, Range
<1> QED BY <1>2, <1>3, <1>4, <1>5 DEF ResumeInv, Fit, Idle, Init

-----------------------------------------------------------------------------
(* The web server and logrotate: the rows stay and the lines stay in order. *)

LEMMA ThreePaths ==
  /\ Live \in Paths /\ Rotated \in Paths /\ Packed \in Paths
  /\ Live # Rotated /\ Live # Packed /\ Rotated # Packed
  /\ \A p \in Paths : p = Live \/ p = Rotated \/ p = Packed
  /\ NoInode \notin Inodes
BY Constants DEF Paths, Live, Rotated, Packed

LEMMA ContentIs ==
  ASSUME NEW c \in Content
  PROVE  /\ c.from \in Nat /\ c.size \in Nat /\ c.mtime \in Nat
         /\ c.from <= MaxLines /\ c.size <= MaxLines
<1>1. MaxLines \in Nat
  BY ResumeAssumption
<1> QED BY <1>1 DEF Content

LEMMA FileIs ==
  ASSUME TypeOK, NEW p \in Paths, dir[p] # NoInode
  PROVE  /\ dir[p] \in Inodes /\ At(p) = file[dir[p]] /\ At(p) \in Content
         /\ At(p).from \in Nat /\ At(p).size \in Nat /\ EndOf(p) = At(p).from + At(p).size
         /\ EndOf(p) \in Nat
<1>1. dir[p] \in Inodes /\ file[dir[p]] \in Content
  BY DEF TypeOK
<1> QED BY <1>1, ContentIs DEF At, EndOf

LEMMA FilesMove ==
  ASSUME ResumeInv,
         UNCHANGED <<glob, dbVars, runVars, targets, rollbacks, crashes>>,
         dir' \in [Paths -> Inodes \cup {NoInode}], file' \in [Inodes -> Content],
         written' \in 0..MaxLines, due' \subseteq Line, Disk'
  PROVE  ResumeInv'
<1>1. TypeOK'
  BY DEF ResumeInv, TypeOK, dbVars, runVars
<1>2. Finite' /\ Idle'
  BY DEF ResumeInv, Finite, Idle, dbVars, runVars
<1>3. Fit'
  BY DEF ResumeInv, Fit, InHand, Unretired, dbVars, runVars
<1> QED BY <1>1, <1>2, <1>3 DEF ResumeInv

LEMMA FreshIs ==
  ASSUME NEW i, IsFresh(i)
  PROVE  i \in Inodes /\ \A p \in Paths : dir[p] # i
BY DEF IsFresh, Inuse

LEMMA GrownIs ==
  ASSUME NEW c \in Content, NEW s \in 0..MaxLines, NEW m \in Nat
  PROVE  LET d == [c EXCEPT !.size = s, !.mtime = m]
         IN d \in Content /\ d.from = c.from /\ d.size = s
BY DEF Content

LEMMA DisturbType ==
  ASSUME TypeOK, Disturb PROVE due' \subseteq Line
BY DEF TypeOK, Disturb

LEMMA WriteLineKeeps == ResumeInv /\ WriteLine => ResumeInv'
<1> SUFFICES ASSUME ResumeInv, WriteLine PROVE ResumeInv'
  OBVIOUS
<1> DEFINE i == dir[Live]
           c == [file[i] EXCEPT !.size = @ + 1, !.mtime = written + 2]
<1>0. MaxLines \in Nat /\ written \in Nat /\ written < MaxLines /\ written' = written + 1
  BY ResumeAssumption DEF WriteLine, ResumeInv, TypeOK
<1>1. TypeOK /\ Disk
  BY DEF ResumeInv
<1>2. /\ i \in Inodes /\ At(Live) = file[i] /\ file[i] \in Content
      /\ file[i].from \in Nat /\ file[i].size \in Nat /\ EndOf(Live) = file[i].from + file[i].size
      /\ EndOf(Live) <= written
  BY <1>1, ThreePaths, FileIs DEF Disk
<1>3. dir' = dir /\ file' = [file EXCEPT ![i] = c]
  BY DEF WriteLine
<1>4. file[i].size + 1 \in 0..MaxLines /\ written + 2 \in Nat
  <2> HIDE DEF i
  <2> QED BY <1>0, <1>2
<1>5. c \in Content /\ c.from = file[i].from /\ c.size = file[i].size + 1
  <2> HIDE DEF i
  <2> QED BY <1>2, <1>4, GrownIs
<1> HIDE DEF c
<1>6. file' \in [Inodes -> Content] /\ file'[i] = c /\ \A j \in Inodes : j # i => file'[j] = file[j]
  BY <1>1, <1>2, <1>3, <1>5 DEF TypeOK
<1>7. Disk'
  <2>1. \A p \in Paths : p # Live /\ dir[p] # NoInode => At(p)' = At(p)
    BY <1>1, <1>2, <1>3, <1>6, ThreePaths, FileIs DEF At, Disk
  <2>2. \A p \in Paths : p # Live /\ dir[p] # NoInode => EndOf(p)' = EndOf(p)
    BY <2>1 DEF EndOf
  <2>3. At(Live)' = c
    BY <1>3, <1>6 DEF At
  <2>4. EndOf(Live)' = c.from + c.size
    BY <2>3 DEF EndOf
  <2>5. EndOf(Live)' <= written'
    <3> HIDE DEF i
    <3> QED BY <1>0, <1>2, <1>5, <2>4
  <2>6. At(Live)'.from = At(Live).from
    BY <1>2, <1>5, <2>3
  <2> QED BY <1>1, <1>3, <2>1, <2>2, <2>5, <2>6, ThreePaths DEF Disk
<1>8. written' \in 0..MaxLines /\ due' \subseteq Line
  BY <1>0, <1>1 DEF WriteLine, histVars, TypeOK
<1>9. UNCHANGED <<glob, dbVars, runVars, targets, rollbacks, crashes>>
  BY DEF WriteLine, histVars
<1>10. dir' \in [Paths -> Inodes \cup {NoInode}]
  BY <1>1, <1>3 DEF TypeOK
<1> QED BY <1>6, <1>7, <1>8, <1>9, <1>10, FilesMove


\* The order of the lines, in numbers.
LEMMA OrderedNumbers ==
  ASSUME TypeOK, Disk
  PROVE  /\ MaxLines \in Nat /\ written \in Nat /\ written <= MaxLines
         /\ dir[Live] \in Inodes /\ At(Live) \in Content
         /\ At(Live).from \in Nat /\ At(Live).size \in Nat /\ At(Live).from <= written
         /\ EndOf(Live) = At(Live).from + At(Live).size /\ EndOf(Live) <= written
         /\ written \in 0..MaxLines
         /\ dir[Rotated] # NoInode => /\ dir[Rotated] \in Inodes /\ At(Rotated) \in Content
                                      /\ EndOf(Rotated) <= At(Live).from /\ EndOf(Rotated) \in Nat
         /\ dir[Packed] # NoInode => /\ dir[Packed] \in Inodes /\ At(Packed) \in Content
                                     /\ EndOf(Packed) <= At(Live).from /\ EndOf(Packed) \in Nat
                                     /\ EndOf(Packed) <= written
<1>1. MaxLines \in Nat /\ written \in Nat /\ written <= MaxLines /\ written \in 0..MaxLines
  BY ResumeAssumption DEF TypeOK
<1>2. /\ dir[Live] \in Inodes /\ At(Live) \in Content
      /\ At(Live).from \in Nat /\ At(Live).size \in Nat
      /\ EndOf(Live) = At(Live).from + At(Live).size /\ EndOf(Live) <= written
  BY ThreePaths, FileIs DEF Disk
<1>3. At(Live).from <= written
  BY <1>1, <1>2
<1>4. dir[Rotated] # NoInode => /\ dir[Rotated] \in Inodes /\ At(Rotated) \in Content
                                /\ EndOf(Rotated) <= At(Live).from /\ EndOf(Rotated) \in Nat
  BY ThreePaths, FileIs DEF Disk
<1>5. dir[Packed] # NoInode => /\ dir[Packed] \in Inodes /\ At(Packed) \in Content
                               /\ EndOf(Packed) <= At(Live).from /\ EndOf(Packed) \in Nat
  BY ThreePaths, FileIs DEF Disk
<1>6. dir[Packed] # NoInode => EndOf(Packed) <= written
  BY <1>1, <1>2, <1>3, <1>5
<1> QED BY <1>1, <1>2, <1>3, <1>4, <1>5, <1>6

LEMMA RenameKeeps == ResumeInv /\ Rename => ResumeInv'
<1> SUFFICES ASSUME ResumeInv, Rename PROVE ResumeInv'
  OBVIOUS
<1>1. TypeOK /\ Disk
  BY DEF ResumeInv
<1>2. PICK i \in Inodes :
        /\ IsFresh(i)
        /\ dir' = [dir EXCEPT ![Rotated] = dir[Live], ![Live] = i]
        /\ file' = [file EXCEPT ![i] = Empty(written)]
  BY DEF Rename
<1>3. dir[Rotated] = NoInode /\ written' = written /\ Disturb
      /\ UNCHANGED <<glob, dbVars, runVars, targets, rollbacks, crashes>>
  BY DEF Rename
<1>4. Empty(written) \in Content /\ Empty(written).from = written /\ Empty(written).size = 0
  BY <1>1, OrderedNumbers, EmptyIs
<1>5. \A p \in Paths : dir[p] # i
  BY <1>2, FreshIs
<1>6. dir'[Live] = i /\ dir'[Rotated] = dir[Live] /\ dir'[Packed] = dir[Packed]
  BY <1>1, <1>2, ThreePaths DEF TypeOK
<1>7. file'[i] = Empty(written) /\ \A j \in Inodes : j # i => file'[j] = file[j]
  BY <1>1, <1>2 DEF TypeOK
<1>8. dir' \in [Paths -> Inodes \cup {NoInode}] /\ file' \in [Inodes -> Content]
      /\ due' \subseteq Line /\ written' \in 0..MaxLines
  BY <1>1, <1>2, <1>3, <1>4, ThreePaths, DisturbType DEF TypeOK
<1>9. Disk'
  <2>1. At(Live)' = Empty(written) /\ EndOf(Live)' = written + 0
    BY <1>4, <1>6, <1>7 DEF At, EndOf
  <2>2. At(Rotated)' = At(Live) /\ EndOf(Rotated)' = EndOf(Live)
    <3>1. At(Rotated)' = At(Live)
      BY <1>1, <1>5, <1>6, <1>7, ThreePaths, OrderedNumbers DEF At
    <3> QED BY <3>1 DEF EndOf
  <2>3. dir[Packed] # NoInode => At(Packed)' = At(Packed) /\ EndOf(Packed)' = EndOf(Packed)
    <3>1. dir[Packed] # NoInode => At(Packed)' = At(Packed)
      BY <1>1, <1>5, <1>6, <1>7, ThreePaths, OrderedNumbers DEF At
    <3> QED BY <3>1 DEF EndOf
  <2>4. \A p, q \in Paths : dir'[p] = dir'[q] /\ dir'[p] # NoInode => p = q
    BY <1>1, <1>5, <1>6, ThreePaths DEF Disk
  <2>5. dir'[Live] # NoInode
    BY <1>2, <1>6, ThreePaths
  <2>6. EndOf(Live)' <= written' /\ At(Live)'.from = written
    BY <1>1, <1>3, <1>4, <2>1, OrderedNumbers
  <2>7. dir'[Packed] # NoInode => EndOf(Packed)' <= At(Rotated)'.from /\ EndOf(Packed)' <= written
    BY <1>1, <1>6, <2>2, <2>3, OrderedNumbers
  <2>8. EndOf(Rotated)' <= written
    BY <1>1, <2>2, OrderedNumbers
  <2> QED BY <2>4, <2>5, <2>6, <2>7, <2>8, ThreePaths DEF Disk
<1> QED BY <1>3, <1>8, <1>9, FilesMove

LEMMA CopyTruncateKeeps == ResumeInv /\ CopyTruncate => ResumeInv'
<1> SUFFICES ASSUME ResumeInv, CopyTruncate PROVE ResumeInv'
  OBVIOUS
<1>1. TypeOK /\ Disk
  BY DEF ResumeInv
<1> DEFINE copy == [At(Live) EXCEPT !.mtime = written + 1]
<1>2. PICK i \in Inodes :
        /\ IsFresh(i)
        /\ dir' = [dir EXCEPT ![Rotated] = i]
        /\ file' = [file EXCEPT ![i] = copy, ![dir[Live]] = Empty(written)]
  BY DEF CopyTruncate
<1>3. dir[Rotated] = NoInode /\ written' = written /\ Disturb
      /\ UNCHANGED <<glob, dbVars, runVars, targets, rollbacks, crashes>>
  BY DEF CopyTruncate
<1>4. Empty(written) \in Content /\ Empty(written).from = written /\ Empty(written).size = 0
  BY <1>1, OrderedNumbers, EmptyIs
<1>5. \A p \in Paths : dir[p] # i
  BY <1>2, FreshIs
<1>6. dir'[Live] = dir[Live] /\ dir'[Rotated] = i /\ dir'[Packed] = dir[Packed]
  BY <1>1, <1>2, ThreePaths DEF TypeOK
<1>7. copy \in Content /\ copy.from = At(Live).from /\ copy.size = At(Live).size
  <2>1. At(Live) \in Content /\ written + 1 \in Nat
    BY <1>1, OrderedNumbers
  <2> QED BY <2>1 DEF Content
<1> HIDE DEF copy
<1>8. /\ file'[i] = copy /\ file'[dir[Live]] = Empty(written)
      /\ \A j \in Inodes : j # i /\ j # dir[Live] => file'[j] = file[j]
  BY <1>1, <1>2, <1>5, ThreePaths, OrderedNumbers DEF TypeOK
<1>9. dir' \in [Paths -> Inodes \cup {NoInode}] /\ file' \in [Inodes -> Content]
      /\ due' \subseteq Line /\ written' \in 0..MaxLines
  BY <1>1, <1>2, <1>3, <1>4, <1>7, DisturbType DEF TypeOK
<1>10. Disk'
  <2>1. At(Live)' = Empty(written) /\ EndOf(Live)' = written + 0
    BY <1>4, <1>6, <1>8 DEF At, EndOf
  <2>2. At(Rotated)' = copy /\ EndOf(Rotated)' = EndOf(Live)
    BY <1>6, <1>7, <1>8 DEF At, EndOf
  <2>3. dir[Packed] # NoInode => At(Packed)' = At(Packed) /\ EndOf(Packed)' = EndOf(Packed)
    <3>1. dir[Packed] # NoInode => dir[Packed] # dir[Live] /\ dir[Packed] # i
      BY <1>1, <1>5, ThreePaths DEF Disk
    <3>2. dir[Packed] # NoInode => At(Packed)' = At(Packed)
      BY <1>1, <1>6, <1>8, <3>1, OrderedNumbers DEF At
    <3> QED BY <3>2 DEF EndOf
  <2>4. \A p, q \in Paths : dir'[p] = dir'[q] /\ dir'[p] # NoInode => p = q
    BY <1>1, <1>5, <1>6, ThreePaths DEF Disk
  <2>5. dir'[Live] # NoInode
    BY <1>1, <1>6, ThreePaths, OrderedNumbers
  <2>6. EndOf(Live)' <= written' /\ At(Live)'.from = written
    BY <1>1, <1>3, <1>4, <2>1, OrderedNumbers
  <2>7. dir'[Packed] # NoInode => EndOf(Packed)' <= At(Rotated)'.from /\ EndOf(Packed)' <= written
    BY <1>1, <1>6, <1>7, <2>2, <2>3, OrderedNumbers
  <2>8. EndOf(Rotated)' <= written
    BY <1>1, <2>2, OrderedNumbers
  <2> QED BY <2>4, <2>5, <2>6, <2>7, <2>8, ThreePaths DEF Disk
<1> QED BY <1>3, <1>9, <1>10, FilesMove

LEMMA PackNewKeeps == ResumeInv /\ PackNew => ResumeInv'
<1> SUFFICES ASSUME ResumeInv, PackNew PROVE ResumeInv'
  OBVIOUS
<1>1. TypeOK /\ Disk
  BY DEF ResumeInv
<1>2. PICK i \in Inodes :
        /\ IsFresh(i)
        /\ dir' = [dir EXCEPT ![Rotated] = NoInode, ![Packed] = i]
        /\ file' = [file EXCEPT ![i] = At(Rotated)]
  BY DEF PackNew
<1>3. dir[Rotated] # NoInode /\ written' = written /\ Disturb
      /\ UNCHANGED <<glob, dbVars, runVars, targets, rollbacks, crashes>>
  BY DEF PackNew
<1>4. /\ At(Rotated) \in Content /\ EndOf(Rotated) <= At(Live).from
  BY <1>1, <1>3, OrderedNumbers
<1>5. \A p \in Paths : dir[p] # i
  BY <1>2, FreshIs
<1>6. dir'[Live] = dir[Live] /\ dir'[Rotated] = NoInode /\ dir'[Packed] = i
  BY <1>1, <1>2, ThreePaths DEF TypeOK
<1>7. file'[i] = At(Rotated) /\ \A j \in Inodes : j # i => file'[j] = file[j]
  BY <1>1, <1>2 DEF TypeOK
<1>8. dir' \in [Paths -> Inodes \cup {NoInode}] /\ file' \in [Inodes -> Content]
      /\ due' \subseteq Line /\ written' \in 0..MaxLines
  BY <1>1, <1>2, <1>3, <1>4, OrderedNumbers, DisturbType DEF TypeOK
<1>9. Disk'
  <2>1. At(Live)' = At(Live) /\ EndOf(Live)' = EndOf(Live)
    <3>1. At(Live)' = At(Live)
      BY <1>1, <1>5, <1>6, <1>7, ThreePaths, OrderedNumbers DEF At
    <3> QED BY <3>1 DEF EndOf
  <2>2. At(Packed)' = At(Rotated) /\ EndOf(Packed)' = EndOf(Rotated)
    BY <1>6, <1>7 DEF At, EndOf
  <2>3. \A p, q \in Paths : dir'[p] = dir'[q] /\ dir'[p] # NoInode => p = q
    BY <1>1, <1>5, <1>6, ThreePaths DEF Disk
  <2> QED BY <1>1, <1>3, <1>4, <1>6, <2>1, <2>2, <2>3, ThreePaths, OrderedNumbers DEF Disk
<1> QED BY <1>3, <1>8, <1>9, FilesMove

LEMMA PackMemberKeeps == ResumeInv /\ PackMember => ResumeInv'
<1> SUFFICES ASSUME ResumeInv, PackMember PROVE ResumeInv'
  OBVIOUS
<1>1. TypeOK /\ Disk
  BY DEF ResumeInv
<1> DEFINE i == dir[Packed]
           longer == [from |-> file[i].from, size |-> file[i].size + At(Rotated).size,
                      mtime |-> written + 1]
<1>2. /\ dir[Rotated] # NoInode /\ i # NoInode /\ written' = written /\ Disturb
      /\ dir' = [dir EXCEPT ![Rotated] = NoInode] /\ file' = [file EXCEPT ![i] = longer]
      /\ UNCHANGED <<glob, dbVars, runVars, targets, rollbacks, crashes>>
  BY DEF PackMember
<1>3. /\ i \in Inodes /\ At(Packed) = file[i] /\ At(Packed) \in Content
      /\ file[i].from \in Nat /\ file[i].size \in Nat /\ EndOf(Packed) = file[i].from + file[i].size
      /\ At(Rotated).from \in Nat /\ At(Rotated).size \in Nat
      /\ EndOf(Rotated) = At(Rotated).from + At(Rotated).size
      /\ EndOf(Packed) <= At(Rotated).from
  BY <1>1, <1>2, ThreePaths, FileIs DEF Disk
<1>4. /\ file[i].size + At(Rotated).size \in 0..MaxLines /\ written + 1 \in Nat
      /\ file[i].from \in 0..MaxLines
      /\ file[i].from + (file[i].size + At(Rotated).size) <= At(Live).from
  <2>1. /\ EndOf(Rotated) <= At(Live).from /\ At(Live).from <= written /\ written <= MaxLines
        /\ At(Live).from \in Nat /\ written \in Nat /\ MaxLines \in Nat
    BY <1>1, <1>2, OrderedNumbers
  <2> HIDE DEF i
  <2> QED BY <1>3, <2>1
<1>5. longer \in Content /\ longer.from = file[i].from
      /\ longer.size = file[i].size + At(Rotated).size
  BY <1>4, NewContent
<1> HIDE DEF longer
<1>6. dir'[Live] = dir[Live] /\ dir'[Rotated] = NoInode /\ dir'[Packed] = i
  BY <1>1, <1>2, ThreePaths DEF TypeOK
<1>7. file'[i] = longer /\ \A j \in Inodes : j # i => file'[j] = file[j]
  BY <1>1, <1>2, <1>3 DEF TypeOK
<1>8. dir' \in [Paths -> Inodes \cup {NoInode}] /\ file' \in [Inodes -> Content]
      /\ due' \subseteq Line /\ written' \in 0..MaxLines
  BY <1>1, <1>2, <1>5, OrderedNumbers, DisturbType DEF TypeOK
<1>9. Disk'
  <2>0. dir[Live] # i /\ dir[Live] \in Inodes
    BY <1>1, <1>2, ThreePaths, OrderedNumbers DEF Disk
  <2>1. At(Live)' = At(Live) /\ EndOf(Live)' = EndOf(Live)
    <3>1. At(Live)' = At(Live)
      BY <1>6, <1>7, <2>0 DEF At
    <3> QED BY <3>1 DEF EndOf
  <2>2. EndOf(Packed)' = longer.from + longer.size
    BY <1>6, <1>7 DEF At, EndOf
  <2>3. EndOf(Packed)' <= At(Live).from
    BY <1>4, <1>5, <2>2
  <2>4. \A p, q \in Paths : dir'[p] = dir'[q] /\ dir'[p] # NoInode => p = q
    BY <1>1, <1>6, ThreePaths DEF Disk
  <2> QED BY <1>1, <1>2, <1>6, <2>1, <2>3, <2>4, ThreePaths, OrderedNumbers DEF Disk
<1> QED BY <1>2, <1>8, <1>9, FilesMove


-----------------------------------------------------------------------------
(* Sequences and sets of rows. *)

LEMMA RangeIs ==
  ASSUME NEW S, NEW s \in Seq(S)
  PROVE  /\ Range(s) \subseteq S /\ Len(s) \in Nat /\ DOMAIN s = 1..Len(s)
         /\ \A r \in Range(s) : \E k \in 1..Len(s) : r = s[k]
         /\ \A k \in 1..Len(s) : s[k] \in Range(s)
         /\ s = <<>> => Range(s) = {}
<1>1. Len(s) \in Nat /\ DOMAIN s = 1..Len(s) /\ \A k \in 1..Len(s) : s[k] \in S
  OBVIOUS
<1>2. s = <<>> => Len(s) = 0
  OBVIOUS
<1>3. s = <<>> => 1..Len(s) = {}
  BY <1>2
<1> QED BY <1>1, <1>3 DEF Range

LEMMA AppendIs ==
  ASSUME NEW S, NEW s \in Seq(S), NEW e \in S
  PROVE  Append(s, e) \in Seq(S) /\ Range(Append(s, e)) = Range(s) \cup {e}
<1>1. /\ Len(s) \in Nat /\ Append(s, e) \in Seq(S) /\ Len(Append(s, e)) = Len(s) + 1
      /\ Append(s, e)[Len(s) + 1] = e /\ \A k \in 1..Len(s) : Append(s, e)[k] = s[k]
  BY AppendProperties
<1>2. 1..(Len(s) + 1) = (1..Len(s)) \cup {Len(s) + 1}
  BY <1>1
<1> QED BY <1>1, <1>2, RangeIs DEF Range

LEMMA TailIs ==
  ASSUME NEW S, NEW s \in Seq(S), s # <<>>
  PROVE  /\ Tail(s) \in Seq(S) /\ Head(s) \in S
         /\ Range(Tail(s)) \subseteq Range(s) /\ Head(s) \in Range(s)
<1>1. /\ Len(s) \in Nat \ {0} /\ Head(s) = s[1] /\ Tail(s) \in Seq(S) /\ Len(Tail(s)) = Len(s) - 1
      /\ \A k \in 1..(Len(s) - 1) : Tail(s)[k] = s[k + 1]
  BY HeadTailProperties
<1>2. 1 \in 1..Len(s) /\ \A k \in 1..(Len(s) - 1) : k + 1 \in 1..Len(s)
  BY <1>1
<1>3. Head(s) \in Range(s) /\ Range(s) \subseteq S
  BY <1>1, <1>2, RangeIs
<1>4. ASSUME NEW r \in Range(Tail(s)) PROVE r \in Range(s)
  <2>1. PICK k \in 1..Len(Tail(s)) : r = Tail(s)[k]
    BY <1>1, RangeIs
  <2>2. k + 1 \in 1..Len(s) /\ r = s[k + 1]
    BY <1>1, <1>2, <2>1
  <2> QED BY <2>2, RangeIs
<1> QED BY <1>1, <1>3, <1>4

LEMMA ConcatIs ==
  ASSUME NEW S, NEW s \in Seq(S), NEW t \in Seq(S)
  PROVE  s \o t \in Seq(S) /\ Range(s \o t) \subseteq Range(s) \cup Range(t)
<1>1. /\ s \o t \in Seq(S) /\ Len(s) \in Nat /\ Len(t) \in Nat /\ Len(s \o t) = Len(s) + Len(t)
      /\ \A k \in 1..(Len(s) + Len(t)) :
           (s \o t)[k] = IF k <= Len(s) THEN s[k] ELSE t[k - Len(s)]
  BY ConcatProperties
<1>2. \A k \in 1..(Len(s) + Len(t)) : IF k <= Len(s) THEN k \in 1..Len(s)
                                                     ELSE k - Len(s) \in 1..Len(t)
  BY <1>1
<1>3. ASSUME NEW r \in Range(s \o t) PROVE r \in Range(s) \cup Range(t)
  <2>1. PICK k \in 1..Len(s \o t) : r = (s \o t)[k]
    BY <1>1, RangeIs
  <2>2. r = IF k <= Len(s) THEN s[k] ELSE t[k - Len(s)]
    BY <1>1, <2>1
  <2>3. IF k <= Len(s) THEN k \in 1..Len(s) ELSE k - Len(s) \in 1..Len(t)
    BY <1>1, <1>2, <2>1
  <2> QED BY <2>2, <2>3, RangeIs
<1> QED BY <1>1, <1>3

LEMMA LargestIs ==
  ASSUME NEW n \in Nat, NEW S \in SUBSET (0..n), S # {}
  PROVE  Max(S) \in S /\ Min(S) \in S
<1>1. Min(S) \in S
  <2>1. \E x \in S : \A y \in S : x <= y
    BY SmallestNat
  <2> QED BY <2>1 DEF Min
<1>2. \E x \in S : \A y \in S : x >= y
  <2> DEFINE T == {n - x : x \in S}
  <2>1. T \in SUBSET Nat /\ T # {}
    OBVIOUS
  <2>2. PICK z \in T : \A y \in T : z <= y
    <3> HIDE DEF T
    <3> QED BY <2>1, SmallestNat
  <2>3. PICK x \in S : z = n - x
    BY <2>2
  <2>4. \A y \in S : n - x <= n - y /\ x \in 0..n /\ y \in 0..n
    BY <2>2, <2>3
  <2>5. \A y \in S : x >= y
    BY <2>4
  <2> QED BY <2>5
<1>3. Max(S) \in S
  BY <1>2 DEF Max
<1> QED BY <1>1, <1>3

LEMMA PathsFinite == \A S \in SUBSET Paths : IsFiniteSet(S) /\ Cardinality(S) \in Nat
<1>1. IsFiniteSet({}) /\ IsFiniteSet({} \cup {Live}) /\ IsFiniteSet({} \cup {Live} \cup {Rotated})
      /\ IsFiniteSet({} \cup {Live} \cup {Rotated} \cup {Packed})
  BY FS_EmptySet, FS_AddElement
<1>2. Paths = {} \cup {Live} \cup {Rotated} \cup {Packed}
  BY DEF Paths
<1> QED BY <1>1, <1>2, FS_Subset, FS_CardinalityType

LEMMA InOrderIs ==
  ASSUME NEW S \in SUBSET Paths, NEW w \in InOrder(S)
  PROVE  w \in Seq(S)
<1>1. w \in SetToSeqs(S)
  BY DEF InOrder
<1>2. w \in [1..Cardinality(S) -> S]
  BY <1>1 DEF SetToSeqs
<1> QED BY <1>2, PathsFinite

\* A commit can store its rows.
LEMMA RowsCanBeStored ==
  ASSUME TypeOK, Fit, NEW rows \in Seq(Row),
         \A k \in 1..Len(rows) : \E h \in InHand : SameFile(rows[k], h)
  PROVE  CanStore(rows)
<1> DEFINE f == Upserts(Unretired, rows)
<1>1. Unretired \in SUBSET Row
  BY DEF Unretired, TypeOK
<1>2. Len(rows) \in Nat /\ DOMAIN rows = 1..Len(rows)
  OBVIOUS
<1>3. \A k \in 0..Len(rows) : \A s \in f[k] :
        s \in Unretired \/ \E j \in 1..k : s.path = rows[j].path /\ s.inode = rows[j].inode
  BY <1>1, UpsertsComeFrom
<1>4. SUFFICES ASSUME NEW k \in 1..Len(rows), NEW s \in f[k - 1],
                      s.path # rows[k].path, s.inode = rows[k].inode
               PROVE  FALSE
  BY <1>2 DEF CanStore, InodeTaken, Upserts
<1> HIDE DEF f
<1>5. PICK h \in InHand : SameFile(rows[k], h)
  OBVIOUS
<1>6. CASE s \in Unretired
  BY <1>4, <1>5, <1>6 DEF Fit, SameFile
<1>7. CASE \E j \in 1..(k - 1) : s.path = rows[j].path /\ s.inode = rows[j].inode
  <2>1. PICK j \in 1..(k - 1) : s.path = rows[j].path /\ s.inode = rows[j].inode
    BY <1>7
  <2>2. j \in 1..Len(rows)
    BY <1>2
  <2>3. PICK g \in InHand : SameFile(rows[j], g)
    BY <2>2
  <2> QED BY <1>4, <1>5, <2>1, <2>3 DEF Fit, SameFile
<1>8. k - 1 \in 0..Len(rows)
  BY <1>2
<1> QED BY <1>3, <1>4, <1>6, <1>7, <1>8


-----------------------------------------------------------------------------
(* A commit. *)

LEMMA ImageFinite ==
  ASSUME NEW S, IsFiniteSet(S), NEW f, DOMAIN f = S
  PROVE  IsFiniteSet({f[x] : x \in S})
<1> DEFINE T == {f[x] : x \in S}
           g == [x \in S |-> f[x]]
<1>1. g \in Surjection(S, T)
  BY DEF Surjection
<1> HIDE DEF g, T
<1>2. IsFiniteSet(T)
  BY <1>1, FS_Surjection
<1> QED BY <1>2 DEF T

LEMMA ArchivedIs ==
  ASSUME TypeOK, Finite
  PROVE  /\ Archived(retired) \in SUBSET Row
         /\ \A r, s \in Archived(retired) : SameFile(r, s) => r = s
         /\ IsFiniteSet(Archived(retired))
<1> DEFINE sameKey(r) == {s \in archive : s.path = r.path /\ s.inode = r.inode}
           kept == archive \ UNION {sameKey(r) : r \in retired}
           stored == [r \in retired |-> [Merged(r, TheOnly(sameKey(r))) EXCEPT !.skip = NoTs]]
           added == {stored[r] : r \in retired}
<1>1. Archived(retired) = kept \cup added
  BY DEF Archived
<1>2. archive \in SUBSET Row /\ retired \in SUBSET Row
  BY DEF TypeOK
<1>3. ASSUME NEW r \in retired
      PROVE  stored[r] \in Row /\ SameFile(stored[r], r)
  <2> DEFINE m == Merged(r, TheOnly(sameKey(r)))
  <2>1. TheOnly(sameKey(r)) \in OptRow
    BY <1>2, TheOnlyIs DEF OptRow
  <2>2. m \in Row /\ m.path = r.path /\ m.inode = r.inode
    BY <1>2, <2>1, MergedIsRow
  <2>3. stored[r] = [m EXCEPT !.skip = NoTs]
    OBVIOUS
  <2> HIDE DEF m, stored
  <2>4. 0 \in 0..MaxLines
    BY ResumeAssumption
  <2> QED BY <2>2, <2>3, <2>4 DEF Row, NoTs, SameFile
<1>4. kept \subseteq archive /\ \A s \in kept : \A r \in retired : ~SameFile(s, r)
  BY DEF SameFile
<1>5. DOMAIN stored = retired
  OBVIOUS
<1> HIDE DEF kept, stored
<1>6. IsFiniteSet(kept)
  BY <1>4, FS_Subset DEF Finite
<1>7. IsFiniteSet(added)
  BY <1>5, ImageFinite DEF Finite
<1>8. IsFiniteSet(kept \cup added)
  <2> HIDE DEF added
  <2> QED BY <1>6, <1>7, FS_Union
<1>9. \A r, s \in kept : SameFile(r, s) => r = s
  BY <1>4 DEF SameFile, TypeOK
<1>10. \A r, s \in retired : SameFile(r, s) => r = s
  BY DEF Finite
<1>11. \A r, s \in kept \cup added : SameFile(r, s) => r = s
  BY <1>3, <1>4, <1>9, <1>10 DEF SameFile
<1> QED BY <1>1, <1>2, <1>3, <1>4, <1>8, <1>11

LEMMA CommitKeeps ==
  ASSUME ResumeInv, NEW counted \in [Line -> Nat], NEW rows \in Seq(Row),
         \A k \in 1..Len(rows) : \E h \in InHand : SameFile(rows[k], h),
         Flush(counted, rows)
  PROVE  /\ count' \in [Line -> Nat] /\ lastLog' \in 0..MaxLines
         /\ parseState' \in SUBSET Row /\ Unique(parseState)'
         /\ archive' \in SUBSET Row /\ \A r, s \in archive' : SameFile(r, s) => r = s
         /\ IsFiniteSet(archive')
         /\ \A r \in InHand, s \in parseState' : r.inode = s.inode => r.path = s.path
         /\ pending' = <<>> /\ retired' = {}
<1>1. TypeOK /\ Finite /\ Fit /\ MaxLines \in Nat
  BY ResumeAssumption DEF ResumeInv
<1>2. count' \in [Line -> Nat]
  BY <1>1 DEF Flush, TypeOK
<1>3. lastLog' \in 0..MaxLines
  <2> DEFINE S == {lastLog} \cup {l \in Line : counted[l] > 0}
  <2>1. S \in SUBSET (0..MaxLines) /\ S # {}
    BY <1>1 DEF TypeOK, Line
  <2> HIDE DEF S
  <2>2. Max(S) \in S
    BY <1>1, <2>1, LargestIs
  <2> QED BY <2>1, <2>2 DEF Flush, S
<1>4. Unretired \in SUBSET Row /\ Unique(Unretired)
  BY <1>1 DEF Unretired, TypeOK, Unique
<1>5. Len(rows) \in Nat /\ DOMAIN rows = 1..Len(rows)
  OBVIOUS
<1>6. parseState' = Upserts(Unretired, rows)[Len(rows)]
  BY DEF Flush, Upserts
<1>7. \A k \in 1..Len(rows) : ~InodeTaken(Upserts(Unretired, rows)[k - 1], rows[k])
  BY <1>5 DEF Flush, CanStore, Upserts
<1>8. parseState' \in SUBSET Row
  <2>1. Upserts(Unretired, rows) \in [0..Len(rows) -> SUBSET Row]
    BY <1>4, UpsertsInTurn
  <2> QED BY <1>5, <1>6, <2>1
<1>9. Unique(parseState')
  BY <1>4, <1>6, <1>7, UpsertsKeep
<1>10. \A s \in parseState' : \/ s \in Unretired
                              \/ \E j \in 1..Len(rows) : s.path = rows[j].path /\ s.inode = rows[j].inode
  BY <1>4, <1>5, <1>6, UpsertsComeFrom
<1>11. ASSUME NEW r \in InHand, NEW s \in parseState', r.inode = s.inode PROVE r.path = s.path
  <2>1. CASE s \in Unretired
    BY <1>1, <1>11, <2>1 DEF Fit
  <2>2. CASE \E j \in 1..Len(rows) : s.path = rows[j].path /\ s.inode = rows[j].inode
    <3>1. PICK j \in 1..Len(rows) : s.path = rows[j].path /\ s.inode = rows[j].inode
      BY <2>2
    <3>2. PICK h \in InHand : SameFile(rows[j], h)
      OBVIOUS
    <3> QED BY <1>1, <1>11, <3>1, <3>2 DEF Fit, SameFile
  <2> QED BY <1>10, <2>1, <2>2
<1>12. archive' = Archived(retired) /\ pending' = <<>> /\ retired' = {}
  BY DEF Flush
<1> QED BY <1>1, <1>2, <1>3, <1>8, <1>9, <1>11, <1>12, ArchivedIs DEF Unique


-----------------------------------------------------------------------------
(* Reading files. *)

ActiveFile == [plan : Row, inode : Inodes, at : 0..MaxLines,
               earliest : 0..MaxLines, latest : 0..MaxLines]

LEMMA RunMoves ==
  ASSUME ResumeInv, UNCHANGED fsVars, TypeOK', Finite', Idle', Fit'
  PROVE  ResumeInv'
<1>1. Disk'
  BY DEF ResumeInv, Disk, EndOf, At, fsVars
<1> QED BY <1>1 DEF ResumeInv

LEMMA RowForIs ==
  ASSUME NEW f \in ActiveFile, NEW completed \in BOOLEAN
  PROVE  RowFor(f, completed) \in Row /\ SameFile(RowFor(f, completed), f.plan)
<1>1. f.plan \in Row /\ f.at \in Lines0 /\ f.earliest \in Lines0 /\ f.latest \in Lines0
  BY DEF ActiveFile, Lines0
<1>2. 0 \in Lines0
  BY Constants
<1> DEFINE New(r, a, e, l, v, d) ==
             [r EXCEPT !.uoff = a, !.usize = v, !.coff = d, !.completed = completed,
                       !.earliest = e, !.latest = l, !.skip = NoTs]
<1>3. ASSUME NEW r \in Row, NEW a \in Lines0, NEW e \in Lines0, NEW l \in Lines0,
             NEW v \in Lines0, NEW d \in Lines0
      PROVE  New(r, a, e, l, v, d) \in Row /\ SameFile(New(r, a, e, l, v, d), r)
  BY <1>2, <1>3 DEF Row, Lines0, NoTs, SameFile
<1>4. f.plan.usize \in Lines0 /\ f.plan.csize \in Lines0
  BY <1>1 DEF Row, Lines0
<1> DEFINE u == IF IsCompressed(f.plan.path) THEN f.at ELSE f.plan.usize
           c == IF IsCompressed(f.plan.path) /\ completed THEN f.plan.csize ELSE 0
<1>5. u \in Lines0 /\ c \in Lines0
  BY <1>1, <1>2, <1>4
<1>6. RowFor(f, completed) = New(f.plan, f.at, f.earliest, f.latest, u, c)
  BY DEF RowFor
<1> HIDE DEF u, c, New
<1> DEFINE row == New(f.plan, f.at, f.earliest, f.latest, u, c)
<1>7. row \in Row /\ SameFile(row, f.plan)
  BY <1>1, <1>3, <1>5
<1>8. RowFor(f, completed) = row
  BY <1>6
<1> HIDE DEF row
<1> QED BY <1>7, <1>8

LEMMA ReadIs ==
  ASSUME TypeOK, active # NoFile, NEW end \in 0..MaxLines
  PROVE  /\ ReadTo(end) \in ActiveFile /\ ReadTo(end).plan = active.plan
         /\ AccWith(end) \in [Line -> Nat]
<1>1. active \in ActiveFile /\ MaxLines \in Nat /\ acc \in [Line -> Nat]
  BY ResumeAssumption DEF TypeOK, ActiveFile
<1>2. /\ active.plan \in Row /\ active.inode \in Inodes /\ active.at \in 0..MaxLines
      /\ active.earliest \in 0..MaxLines /\ active.latest \in 0..MaxLines
  BY <1>1 DEF ActiveFile
<1>3. Kept(end) \in SUBSET (0..MaxLines)
  BY DEF Kept, LinesOf, Line
<1>4. Kept(end) # {} => Min(Kept(end)) \in 0..MaxLines /\ Max(Kept(end)) \in 0..MaxLines
  BY <1>1, <1>3, LargestIs
<1> DEFINE a == IF end > active.at THEN end ELSE active.at
           e == IF active.earliest = NoTs /\ Kept(end) # {} THEN Min(Kept(end)) ELSE active.earliest
           l == IF Kept(end) # {} THEN Max(Kept(end)) ELSE active.latest
<1>5. a \in 0..MaxLines /\ e \in 0..MaxLines /\ l \in 0..MaxLines
  BY <1>2, <1>4
<1>6. ReadTo(end) = [active EXCEPT !.at = a, !.earliest = e, !.latest = l]
  BY DEF ReadTo
<1> HIDE DEF a, e, l
<1>7. ReadTo(end) \in ActiveFile /\ ReadTo(end).plan = active.plan
  BY <1>1, <1>5, <1>6 DEF ActiveFile
<1>8. AccWith(end) \in [Line -> Nat]
  BY <1>1 DEF AccWith
<1> QED BY <1>7, <1>8

LEMMA ActiveIs ==
  ASSUME TypeOK, Idle, active # NoFile
  PROVE  /\ active \in ActiveFile /\ active.plan \in Row /\ active.plan # NoRow
         /\ active.inode \in Inodes /\ active.plan \in InHand /\ pc = "run"
<1>1. active \in ActiveFile /\ pc = "run"
  BY DEF TypeOK, Idle, ActiveFile
<1>2. active.plan \in Row /\ active.inode \in Inodes
  BY <1>1 DEF ActiveFile
<1>3. active.plan # NoRow
  BY <1>2, RowFields DEF OptRow
<1> QED BY <1>1, <1>2, <1>3 DEF InHand

LEMMA OpenFileKeeps == ResumeInv /\ OpenFile => ResumeInv'
<1> SUFFICES ASSUME ResumeInv, OpenFile PROVE ResumeInv'
  OBVIOUS
<1>1. TypeOK /\ Finite /\ Idle /\ Fit
  BY DEF ResumeInv
<1>2. /\ todo # <<>> /\ active = NoFile /\ pc = "run" /\ todo' = Tail(todo) /\ pc' = pc
      /\ dir[Head(todo).path] # NoInode
      /\ active' = [plan |-> Head(todo), inode |-> dir[Head(todo).path], at |-> Head(todo).uoff,
                    earliest |-> NoTs, latest |-> NoTs]
      /\ UNCHANGED fsVars /\ UNCHANGED dbVars /\ UNCHANGED histVars
      /\ acc' = acc /\ pending' = pending /\ retired' = retired
  BY DEF OpenFile
<1>3. /\ Tail(todo) \in Seq(Row) /\ Head(todo) \in Row
      /\ Range(Tail(todo)) \subseteq Range(todo) /\ Head(todo) \in Range(todo)
  BY <1>1, <1>2, TailIs DEF TypeOK
<1>4. active' \in ActiveFile /\ active'.plan = Head(todo)
  <2>0. 0 \in 0..MaxLines
    BY ResumeAssumption
  <2>1. Head(todo).path \in Paths /\ Head(todo).uoff \in 0..MaxLines
    BY <1>3 DEF Row
  <2>2. dir[Head(todo).path] \in Inodes
    BY <1>1, <1>2, <2>1 DEF TypeOK
  <2> QED BY <1>2, <1>3, <2>0, <2>1, <2>2 DEF ActiveFile, NoTs
<1>5. TypeOK'
  BY <1>1, <1>2, <1>3, <1>4 DEF TypeOK, ActiveFile, fsVars, dbVars, histVars
<1>6. InHand' \subseteq InHand
  BY <1>2, <1>3, <1>4 DEF InHand
<1>7. Unretired' = Unretired
  BY <1>2 DEF Unretired, dbVars
<1>8. Fit'
  BY <1>1, <1>6, <1>7 DEF Fit
<1>9. Finite' /\ Idle'
  BY <1>1, <1>2 DEF Finite, Idle, dbVars
<1> QED BY <1>2, <1>5, <1>8, <1>9, RunMoves

LEMMA FileDoneKeeps == ResumeInv /\ FileDone => ResumeInv'
<1> SUFFICES ASSUME ResumeInv, FileDone PROVE ResumeInv'
  OBVIOUS
<1>1. TypeOK /\ Finite /\ Idle /\ Fit
  BY DEF ResumeInv
<1>2. active # NoFile
  BY DEF FileDone
<1> DEFINE end == file[active.inode].size
           f == ReadTo(end)
           row == RowFor(f, IsCompressed(f.plan.path) \/ f.at >= PlanSize(f.plan))
<1>3. /\ acc' = AccWith(end) /\ pending' = Append(pending, row) /\ active' = NoFile
      /\ UNCHANGED fsVars /\ UNCHANGED dbVars /\ UNCHANGED histVars
      /\ pc' = pc /\ todo' = todo /\ retired' = retired
  BY DEF FileDone
<1>4. /\ active.plan \in Row /\ active.plan # NoRow /\ active.inode \in Inodes
      /\ active.plan \in InHand /\ pc = "run"
  BY <1>1, <1>2, ActiveIs
<1>5. end \in 0..MaxLines
  BY <1>1, <1>4 DEF TypeOK, Content
<1>6. f \in ActiveFile /\ f.plan = active.plan /\ AccWith(end) \in [Line -> Nat]
  BY <1>1, <1>2, <1>5, ReadIs
<1> HIDE DEF f, end
<1>7. row \in Row /\ SameFile(row, active.plan)
  BY <1>6, RowForIs
<1> HIDE DEF row
<1>8. Append(pending, row) \in Seq(Row) /\ Range(Append(pending, row)) = Range(pending) \cup {row}
  BY <1>1, <1>7, AppendIs DEF TypeOK
<1>9. TypeOK'
  BY <1>1, <1>3, <1>6, <1>8 DEF TypeOK, fsVars, dbVars, histVars
<1>10. InHand' \subseteq InHand \cup {row}
  BY <1>3, <1>8 DEF InHand, NoFile
<1>11. Unretired' = Unretired
  BY <1>3 DEF Unretired, dbVars
<1>12. \A r \in InHand' : \E h \in InHand : SameFile(r, h)
  BY <1>4, <1>7, <1>10 DEF SameFile
<1>13. Fit'
  BY <1>1, <1>11, <1>12 DEF Fit, SameFile
<1>14. Finite' /\ Idle'
  BY <1>1, <1>3, <1>4 DEF Finite, Idle, dbVars
<1> QED BY <1>3, <1>9, <1>13, <1>14, RunMoves


\* The rows of a commit in the middle of a file are those of the run.
LEMMA PartialRows ==
  ASSUME TypeOK, Idle, active # NoFile, NEW f \in ActiveFile, f.plan = active.plan
  PROVE  /\ Append(pending, RowFor(f, FALSE)) \in Seq(Row)
         /\ \A k \in 1..Len(Append(pending, RowFor(f, FALSE))) :
              \E h \in InHand : SameFile(Append(pending, RowFor(f, FALSE))[k], h)
<1> DEFINE row == RowFor(f, FALSE)
           rows == Append(pending, row)
<1>1. active.plan \in InHand
  BY ActiveIs
<1>2. row \in Row /\ SameFile(row, active.plan)
  BY RowForIs
<1> HIDE DEF row
<1>3. rows \in Seq(Row) /\ Range(rows) = Range(pending) \cup {row}
  BY <1>2, AppendIs DEF TypeOK
<1>4. \A r \in Range(rows) : \E h \in InHand : SameFile(r, h)
  BY <1>1, <1>2, <1>3 DEF InHand, SameFile
<1> HIDE DEF rows
<1>5. \A k \in 1..Len(rows) : rows[k] \in Range(rows)
  BY <1>3, RangeIs
<1> QED BY <1>3, <1>4, <1>5 DEF row, rows

LEMMA PendingRows ==
  ASSUME TypeOK
  PROVE  pending \in Seq(Row) /\ \A k \in 1..Len(pending) : \E h \in InHand : SameFile(pending[k], h)
<1>1. pending \in Seq(Row) /\ \A k \in 1..Len(pending) : pending[k] \in Range(pending)
  BY RangeIs DEF TypeOK
<1> QED BY <1>1 DEF InHand, SameFile

LEMMA CheckpointKeeps == ResumeInv /\ Checkpoint => ResumeInv'
<1> SUFFICES ASSUME ResumeInv, Checkpoint PROVE ResumeInv'
  OBVIOUS
<1>1. TypeOK /\ Finite /\ Idle /\ Fit
  BY DEF ResumeInv
<1>2. active # NoFile /\ acc' = NoCount /\ pc' = pc /\ todo' = todo
      /\ UNCHANGED fsVars /\ UNCHANGED histVars
  BY DEF Checkpoint
<1>3. PICK end \in (active.at + 1)..file[active.inode].size :
        /\ Flush(AccWith(end), Append(pending, RowFor(ReadTo(end), FALSE)))
        /\ active' = ReadTo(end)
  BY DEF Checkpoint
<1>4. /\ active \in ActiveFile /\ active.plan \in Row /\ active.plan # NoRow
      /\ active.inode \in Inodes /\ active.plan \in InHand /\ pc = "run"
  BY <1>1, <1>2, ActiveIs
<1>5. end \in 0..MaxLines
  <2>1. file[active.inode].size \in 0..MaxLines /\ active.at \in 0..MaxLines
    BY <1>1, <1>4 DEF TypeOK, Content, ActiveFile
  <2>2. MaxLines \in Nat
    BY ResumeAssumption
  <2> QED BY <2>1, <2>2
<1> DEFINE rows == Append(pending, RowFor(ReadTo(end), FALSE))
<1>6. /\ ReadTo(end) \in ActiveFile /\ ReadTo(end).plan = active.plan
      /\ AccWith(end) \in [Line -> Nat]
  BY <1>1, <1>2, <1>5, ReadIs
<1>7. rows \in Seq(Row) /\ \A k \in 1..Len(rows) : \E h \in InHand : SameFile(rows[k], h)
  BY <1>1, <1>2, <1>6, PartialRows
<1> HIDE DEF rows
<1>8. Flush(AccWith(end), rows)
  BY <1>3 DEF rows
<1>9. /\ count' \in [Line -> Nat] /\ lastLog' \in 0..MaxLines
      /\ parseState' \in SUBSET Row /\ Unique(parseState)'
      /\ archive' \in SUBSET Row /\ \A r, s \in archive' : SameFile(r, s) => r = s
      /\ IsFiniteSet(archive')
      /\ \A r \in InHand, s \in parseState' : r.inode = s.inode => r.path = s.path
      /\ pending' = <<>> /\ retired' = {}
  BY <1>6, <1>7, <1>8, CommitKeeps
<1>10. NoCount \in [Line -> Nat] /\ pending' \in Seq(Row)
  BY <1>9 DEF NoCount
<1>11. TypeOK'
  BY <1>1, <1>2, <1>3, <1>6, <1>9, <1>10 DEF TypeOK, fsVars, histVars, ActiveFile, Unique, SameFile
<1>12. Range(pending') = {} /\ Unretired' \subseteq parseState'
  BY <1>9, <1>10, RangeIs DEF Unretired
<1>13. InHand' \subseteq InHand
  BY <1>2, <1>3, <1>4, <1>6, <1>12 DEF InHand
<1>14. Fit'
  BY <1>1, <1>9, <1>12, <1>13 DEF Fit
<1>15. Finite' /\ Idle'
  BY <1>2, <1>4, <1>9, FS_EmptySet DEF Finite, Idle
<1> QED BY <1>2, <1>11, <1>14, <1>15, RunMoves

LEMMA EndRunKeeps == ResumeInv /\ EndRun => ResumeInv'
<1> SUFFICES ASSUME ResumeInv, EndRun PROVE ResumeInv'
  OBVIOUS
<1>1. TypeOK /\ Finite /\ Idle /\ Fit
  BY DEF ResumeInv
<1>2. /\ active = NoFile /\ active' = active /\ acc' = NoCount /\ todo = <<>> /\ todo' = todo
      /\ pc' = "idle" /\ Flush(acc, pending) /\ UNCHANGED fsVars /\ UNCHANGED histVars
  BY DEF EndRun
<1>3. acc \in [Line -> Nat]
  BY <1>1 DEF TypeOK
<1>4. /\ count' \in [Line -> Nat] /\ lastLog' \in 0..MaxLines
      /\ parseState' \in SUBSET Row /\ Unique(parseState)'
      /\ archive' \in SUBSET Row /\ \A r, s \in archive' : SameFile(r, s) => r = s
      /\ IsFiniteSet(archive')
      /\ pending' = <<>> /\ retired' = {}
  BY <1>1, <1>2, <1>3, PendingRows, CommitKeeps
<1>5. NoCount \in [Line -> Nat] /\ pending' \in Seq(Row)
  BY <1>4 DEF NoCount
<1>6. TypeOK'
  BY <1>1, <1>2, <1>4, <1>5 DEF TypeOK, fsVars, histVars, Unique, SameFile
<1>7. InHand' = {}
  BY <1>2, <1>4 DEF InHand, NoFile, Range
<1>8. Fit' /\ Finite' /\ Idle'
  BY <1>2, <1>4, <1>7, FS_EmptySet DEF Fit, Finite, Idle
<1> QED BY <1>2, <1>6, <1>8, RunMoves

LEMMA StopKeeps ==
  ASSUME ResumeInv, Stop, UNCHANGED fsVars, UNCHANGED dbVars, UNCHANGED <<targets, rollbacks>>,
         crashes' \in 0..MaxCrashes
  PROVE  ResumeInv'
<1>1. TypeOK /\ Finite
  BY DEF ResumeInv
<1>2. /\ pc' = "idle" /\ todo' = <<>> /\ active' = NoFile
      /\ acc' = NoCount /\ pending' = <<>> /\ retired' = {} /\ due' = {}
  BY DEF Stop
<1>3. NoCount \in [Line -> Nat] /\ todo' \in Seq(Row) /\ pending' \in Seq(Row)
  BY <1>2 DEF NoCount
<1>4. TypeOK'
  BY <1>1, <1>2, <1>3 DEF TypeOK, fsVars, dbVars
<1>5. InHand' = {}
  BY <1>2 DEF InHand, NoFile, Range
<1>6. Fit' /\ Finite' /\ Idle'
  BY <1>1, <1>2, <1>5, FS_EmptySet DEF Fit, Finite, Idle, dbVars
<1> QED BY <1>4, <1>6, RunMoves

LEMMA AbortRunKeeps == ResumeInv /\ AbortRun => ResumeInv'
<1> SUFFICES ASSUME ResumeInv, AbortRun PROVE ResumeInv'
  OBVIOUS
<1>1. Stop /\ UNCHANGED fsVars /\ UNCHANGED dbVars /\ UNCHANGED <<targets, rollbacks>>
      /\ crashes' = crashes
  BY DEF AbortRun
<1>2. crashes \in 0..MaxCrashes
  BY DEF ResumeInv, TypeOK
<1> QED BY <1>1, <1>2, StopKeeps

LEMMA CrashKeeps == ResumeInv /\ Crash => ResumeInv'
<1> SUFFICES ASSUME ResumeInv, Crash PROVE ResumeInv'
  OBVIOUS
<1>1. Stop /\ UNCHANGED fsVars /\ UNCHANGED dbVars /\ UNCHANGED <<targets, rollbacks>>
      /\ crashes < MaxCrashes /\ crashes' = crashes + 1
  BY DEF Crash
<1>2. crashes \in 0..MaxCrashes /\ MaxCrashes \in Nat
  BY ResumeAssumption DEF ResumeInv, TypeOK
<1>3. crashes' \in 0..MaxCrashes
  BY <1>1, <1>2
<1> QED BY <1>1, <1>3, StopKeeps


-----------------------------------------------------------------------------
(* The start of a run. *)

\* Files that are looked up.
LookedUp == OnDisk \ OrderSkip

LEMMA RetiredIs ==
  ASSUME TypeOK, NEW p \in OnDisk
  PROVE  /\ IsFiniteSet(RetiredStates(p))
         /\ \A r \in RetiredStates(p) :
              \/ r \in parseState
              \/ r \in archive /\ \A s \in parseState : s.inode # r.inode
         /\ \A s \in parseState : s.inode = dir[p] /\ s.path # p => s \in RetiredStates(p)
<1>1. /\ ByPath(p) # NoRow => ByPath(p) \in parseState
      /\ ByInode(p) # NoRow => ByInode(p) \in parseState \cup archive /\ ByInode(p).inode = dir[p]
      /\ \A s \in parseState : s.inode = dir[p] => ByInode(p) = s
  BY FoundByPath, FoundByInode
<1>2. RetiredStates(p) \in SUBSET ({} \cup {ByPath(p)} \cup {ByInode(p)})
  BY DEF RetiredStates
<1>3. IsFiniteSet({} \cup {ByPath(p)} \cup {ByInode(p)})
  BY FS_EmptySet, FS_AddElement
<1>4. IsFiniteSet(RetiredStates(p))
  BY <1>2, <1>3, FS_Subset
<1>5. ASSUME NEW r \in RetiredStates(p)
      PROVE  r \in parseState \/ (r \in archive /\ \A s \in parseState : s.inode # r.inode)
  <2>1. r # NoRow /\ (r = ByPath(p) \/ r = ByInode(p))
    BY DEF RetiredStates
  <2> QED BY <1>1, <2>1
<1>6. ASSUME NEW s \in parseState, s.inode = dir[p], s.path # p PROVE s \in RetiredStates(p)
  <2>1. s \in Row /\ s # NoRow
    BY RowFields DEF TypeOK, OptRow
  <2> QED BY <1>1, <1>6, <2>1 DEF RetiredStates
<1> QED BY <1>4, <1>5, <1>6

LEMMA StartRunTables ==
  ASSUME ResumeInv, StartRun
  PROVE  /\ retired' \in SUBSET Row /\ IsFiniteSet(retired')
         /\ \A r, s \in retired' : SameFile(r, s) => r = s
         /\ \A p \in LookedUp : \A s \in Unretired' : s.inode = dir[p] => s.path = p
<1>1. TypeOK
  BY DEF ResumeInv
<1>2. retired' = UNION {RetiredStates(p) : p \in LookedUp} /\ parseState' = parseState
  BY DEF StartRun, LookedUp, dbVars
<1>3. LookedUp \in SUBSET OnDisk /\ LookedUp \in SUBSET Paths
  BY <1>1, Files DEF LookedUp
<1>4. \A r \in retired' : \/ r \in parseState
                          \/ (r \in archive /\ \A s \in parseState : s.inode # r.inode)
  BY <1>1, <1>2, <1>3, RetiredIs
<1>5. retired' \in SUBSET Row
  BY <1>1, <1>4 DEF TypeOK
<1>6. IsFiniteSet(retired')
  <2> DEFINE f == [p \in LookedUp |-> RetiredStates(p)]
             T == {f[p] : p \in LookedUp}
  <2>1. DOMAIN f = LookedUp /\ \A p \in LookedUp : f[p] = RetiredStates(p) /\ IsFiniteSet(f[p])
    BY <1>1, <1>3, RetiredIs
  <2>2. retired' = UNION T
    BY <1>2
  <2> HIDE DEF f
  <2>3. IsFiniteSet(T) /\ \A t \in T : IsFiniteSet(t)
    BY <1>3, <2>1, PathsFinite, ImageFinite
  <2> HIDE DEF T
  <2> QED BY <2>2, <2>3, FS_UNION
<1>7. \A r, s \in retired' : SameFile(r, s) => r = s
  BY <1>1, <1>4 DEF TypeOK, SameFile
<1>8. ASSUME NEW p \in LookedUp, NEW s \in Unretired', s.inode = dir[p], s.path # p PROVE FALSE
  <2>1. s \in parseState /\ s \notin retired'
    BY <1>2, <1>8 DEF Unretired
  <2>2. s \in RetiredStates(p)
    BY <1>1, <1>3, <1>8, <2>1, RetiredIs
  <2> QED BY <1>2, <2>1, <2>2
<1> QED BY <1>5, <1>6, <1>7, <1>8

LEMMA StartRunHand ==
  ASSUME ResumeInv, StartRun
  PROVE  /\ todo' \in Seq(Row) /\ pending' \in Seq(Row)
         /\ \A r \in InHand' : \E p \in LookedUp : IsAbout(r, p)
<1>1. TypeOK /\ Idle
  BY DEF ResumeInv
<1> DEFINE Work == {p \in Resolved : NeedsPlan(p)}
           updated(S) == {p \in S : SkippedUpdate(p) # {}}
           rows(paths) == [k \in DOMAIN paths |-> TheOnly(SkippedUpdate(paths[k]))]
           Early == updated(OnDisk \ Pending)
           Late == updated(Resolved)
<1>2. PICK work \in InOrder(Work) : todo' = [k \in DOMAIN work |-> PlanOf(work[k])]
  BY DEF StartRun
<1>3. PICK early \in InOrder(Early), late \in InOrder(Late) : pending' = rows(early) \o rows(late)
  BY DEF StartRun
<1>4. /\ Work \in SUBSET LookedUp /\ Early \in SUBSET LookedUp /\ Late \in SUBSET LookedUp
      /\ \A p \in Early \cup Late : SkippedUpdate(p) # {}
      /\ LookedUp \in SUBSET OnDisk /\ LookedUp \in SUBSET Paths
  BY <1>1, Files DEF LookedUp, Resolved, Pending, OrderSkip
<1> HIDE DEF Work, Early, Late
<1>5. work \in Seq(Work) /\ early \in Seq(Early) /\ late \in Seq(Late)
  BY <1>2, <1>3, <1>4, InOrderIs
<1>6. todo' \in Seq(Row) /\ \A r \in Range(todo') : \E p \in LookedUp : IsAbout(r, p)
  <2>1. Len(work) \in Nat /\ DOMAIN work = 1..Len(work) /\ \A k \in 1..Len(work) : work[k] \in LookedUp
    BY <1>4, <1>5
  <2>2. \A k \in 1..Len(work) : IsAbout(PlanOf(work[k]), work[k])
    BY <1>1, <1>4, <2>1, PlanIsRow
  <2>3. todo' = [k \in 1..Len(work) |-> PlanOf(work[k])]
    BY <1>2, <2>1
  <2>4. \A k \in 1..Len(work) : PlanOf(work[k]) \in Row
    BY <2>2 DEF IsAbout
  <2>5. todo' \in Seq(Row)
    BY <2>1, <2>3, <2>4
  <2>6. \A r \in Range(todo') : \E k \in 1..Len(work) : r = PlanOf(work[k])
    BY <2>3 DEF Range
  <2> QED BY <2>1, <2>2, <2>5, <2>6
<1>7. ASSUME NEW S \in SUBSET LookedUp, \A p \in S : SkippedUpdate(p) # {}, NEW w \in Seq(S)
      PROVE  rows(w) \in Seq(Row) /\ \A r \in Range(rows(w)) : \E p \in LookedUp : IsAbout(r, p)
  <2>1. Len(w) \in Nat /\ DOMAIN w = 1..Len(w) /\ \A k \in 1..Len(w) : w[k] \in S
    BY <1>7
  <2>2. \A p \in S : TheOnly(SkippedUpdate(p)) \in SkippedUpdate(p)
    BY <1>7, TheOnlyIs
  <2>3. \A p \in S : IsAbout(TheOnly(SkippedUpdate(p)), p)
    BY <1>1, <1>4, <1>7, <2>2, UpdateIsRow
  <2> DEFINE g == [k \in 1..Len(w) |-> TheOnly(SkippedUpdate(w[k]))]
  <2>4. rows(w) = g
    BY <2>1
  <2>5. \A k \in 1..Len(w) : TheOnly(SkippedUpdate(w[k])) \in Row
    BY <2>1, <2>3 DEF IsAbout
  <2>6. g \in Seq(Row)
    BY <2>1, <2>5
  <2>7. \A r \in Range(g) : \E k \in 1..Len(w) : r = TheOnly(SkippedUpdate(w[k]))
    BY DEF Range
  <2>8. \A r \in Range(g) : \E p \in LookedUp : IsAbout(r, p)
    BY <1>7, <2>1, <2>3, <2>7
  <2> HIDE DEF g, rows
  <2> QED BY <2>4, <2>6, <2>8
<1> HIDE DEF rows
<1>8. /\ rows(early) \in Seq(Row) /\ \A r \in Range(rows(early)) : \E p \in LookedUp : IsAbout(r, p)
      /\ rows(late) \in Seq(Row) /\ \A r \in Range(rows(late)) : \E p \in LookedUp : IsAbout(r, p)
  BY <1>4, <1>5, <1>7
<1>9. pending' \in Seq(Row) /\ Range(pending') \subseteq Range(rows(early)) \cup Range(rows(late))
  BY <1>3, <1>8, ConcatIs
<1>10. active'.plan = NoRow
  BY <1>1 DEF Idle, StartRun, NoFile
<1>11. InHand' = Range(pending') \cup Range(todo')
  BY <1>10 DEF InHand
<1> QED BY <1>6, <1>8, <1>9, <1>11

LEMMA StartRunKeeps == ResumeInv /\ StartRun => ResumeInv'
<1> SUFFICES ASSUME ResumeInv, StartRun PROVE ResumeInv'
  OBVIOUS
<1>1. TypeOK /\ Finite /\ Disk
  BY DEF ResumeInv
<1>2. /\ pc' = "run" /\ UNCHANGED fsVars /\ UNCHANGED dbVars
      /\ active' = active /\ acc' = acc /\ UNCHANGED <<targets, rollbacks, crashes>>
      /\ due' = UNION {AllLines(At(p)) : p \in OnDisk}
  BY DEF StartRun
<1>3. /\ retired' \in SUBSET Row /\ IsFiniteSet(retired')
      /\ \A r, s \in retired' : SameFile(r, s) => r = s
      /\ \A p \in LookedUp : \A s \in Unretired' : s.inode = dir[p] => s.path = p
  BY StartRunTables
<1>4. /\ todo' \in Seq(Row) /\ pending' \in Seq(Row)
      /\ \A r \in InHand' : \E p \in LookedUp : IsAbout(r, p)
  BY StartRunHand
<1>5. due' \subseteq Line
  BY <1>2 DEF AllLines, LinesOf
<1>6. TypeOK'
  BY <1>1, <1>2, <1>3, <1>4, <1>5 DEF TypeOK, fsVars, dbVars
<1>7. Finite' /\ Idle'
  BY <1>1, <1>2, <1>3 DEF Finite, Idle, dbVars
<1>8. \A p, q \in LookedUp : dir[p] = dir[q] => p = q
  BY <1>1, Files DEF Disk, LookedUp, OnDisk
<1>9. Fit'
  BY <1>3, <1>4, <1>8 DEF Fit, IsAbout, SameFile
<1> QED BY <1>2, <1>6, <1>7, <1>9, RunMoves

-----------------------------------------------------------------------------
(* Rollback, and the theorems. *)

LEMMA RollbackKeeps == ASSUME NEW t \in Targets PROVE ResumeInv /\ Rollback(t) => ResumeInv'
<1> SUFFICES ASSUME ResumeInv, Rollback(t) PROVE ResumeInv'
  OBVIOUS
<1> DEFINE rewound == {IF Affected(r, t) THEN Rewound(r, t) ELSE r : r \in parseState}
           back == {r \in archive : Affected(r, t)}
<1>1. TypeOK /\ Finite /\ Idle
  BY DEF ResumeInv
<1>2. /\ pc = "idle" /\ rollbacks < MaxRollbacks /\ rollbacks' = rollbacks + 1
      /\ count' = [l \in Line |-> IF l >= t THEN 0 ELSE count[l]] /\ lastLog' = t - 1
      /\ archive' = archive \ back /\ targets' = targets \cup {t} /\ due' = {}
      /\ UNCHANGED fsVars /\ UNCHANGED runVars /\ crashes' = crashes
  BY DEF Rollback
<1>3. PICK order \in SetToSeqs(back) :
        LET rows == [k \in DOMAIN order |-> Rewound(order[k], t)]
        IN parseState' = InTurn(Replace, rewound, rows)[Len(rows)]
  BY DEF Rollback
<1>4. back \in SUBSET archive /\ back \in SUBSET Row
  BY <1>1 DEF TypeOK
<1>5. rewound \in SUBSET Row /\ Unique(rewound)
  <2>1. parseState \in SUBSET Row
    BY <1>1 DEF TypeOK
  <2>2. ASSUME NEW r \in parseState
        PROVE  LET s == IF Affected(r, t) THEN Rewound(r, t) ELSE r
               IN s \in Row /\ s.path = r.path /\ s.inode = r.inode
    BY <2>1, RewoundIsRow
  <2>3. \A s \in rewound : \E r \in parseState :
          s = (IF Affected(r, t) THEN Rewound(r, t) ELSE r) /\ s \in Row
          /\ s.path = r.path /\ s.inode = r.inode
    BY <2>2
  <2>4. \A r, s \in parseState : r.path = s.path \/ r.inode = s.inode => r = s
    BY <1>1 DEF TypeOK
  <2> HIDE DEF rewound
  <2> QED BY <2>3, <2>4 DEF Unique
<1>6. IsFiniteSet(back) /\ Cardinality(back) \in Nat
  BY <1>1, <1>4, FS_Subset, FS_CardinalityType DEF Finite
<1> HIDE DEF rewound, back
<1>7. order \in [1..Cardinality(back) -> back]
  BY DEF SetToSeqs
<1> DEFINE rows == [k \in 1..Cardinality(back) |-> Rewound(order[k], t)]
<1>8. rows \in Seq(Row)
  <2>1. \A k \in 1..Cardinality(back) : Rewound(order[k], t) \in Row
    BY <1>4, <1>7, RewoundIsRow
  <2> QED BY <1>6, <2>1
<1>9. parseState' = Replaces(rewound, rows)[Len(rows)]
  <2>1. DOMAIN order = 1..Cardinality(back)
    BY <1>7
  <2> QED BY <1>3, <2>1 DEF Replaces
<1> HIDE DEF rows
<1>10. parseState' \in SUBSET Row /\ Unique(parseState')
  <2>1. Replaces(rewound, rows) \in [0..Len(rows) -> SUBSET Row]
    BY <1>5, <1>8, ReplacesInTurn
  <2>2. Len(rows) \in 0..Len(rows)
    <3>1. Len(rows) \in Nat
      BY <1>8
    <3> QED BY <3>1
  <2> QED BY <1>5, <1>8, <1>9, <2>1, <2>2, ReplacesKeep
<1>11. lastLog' \in 0..MaxLines /\ rollbacks' \in 0..MaxRollbacks /\ targets' \subseteq Targets
  <2>1. t \in 2..MaxLines /\ MaxLines \in Nat /\ MaxRollbacks \in Nat
    BY ResumeAssumption
  <2> QED BY <1>1, <1>2, <2>1 DEF TypeOK
<1>12. count' \in [Line -> Nat]
  BY <1>1, <1>2 DEF TypeOK
<1>13. archive' \in SUBSET archive /\ IsFiniteSet(archive')
  BY <1>1, <1>2, FS_Subset DEF Finite
<1>14. TypeOK'
  BY <1>1, <1>2, <1>10, <1>11, <1>12, <1>13 DEF TypeOK, fsVars, runVars, Unique
<1>15. InHand' = {}
  BY <1>1, <1>2 DEF InHand, NoFile, Range, Idle, runVars
<1>16. Fit' /\ Finite' /\ Idle'
  BY <1>1, <1>2, <1>13, <1>15 DEF Fit, Finite, Idle, runVars
<1> QED BY <1>2, <1>14, <1>16, RunMoves

LEMMA InvNext == ResumeInv /\ [Next]_vars => ResumeInv'
<1> SUFFICES ASSUME ResumeInv, [Next]_vars PROVE ResumeInv'
  OBVIOUS
<1>1. CASE UNCHANGED vars
  <2>1. TypeOK' /\ Finite' /\ Idle'
    BY <1>1 DEF ResumeInv, TypeOK, Finite, Idle, vars, fsVars, dbVars, runVars, histVars
  <2>2. Fit'
    BY <1>1 DEF ResumeInv, Fit, InHand, Unretired, vars, dbVars, runVars
  <2> QED BY <1>1, <2>1, <2>2, RunMoves DEF vars
<1> QED
  BY <1>1, WriteLineKeeps, RenameKeeps, CopyTruncateKeeps, PackNewKeeps, PackMemberKeeps,
     StartRunKeeps, OpenFileKeeps, FileDoneKeeps, CheckpointKeeps, EndRunKeeps,
     AbortRunKeeps, CrashKeeps, RollbackKeeps DEF Next

LEMMA InvFits == ResumeInv => RowsFitTogether
<1> SUFFICES ASSUME ResumeInv PROVE RowsFitTogether
  OBVIOUS
<1>1. TypeOK /\ Idle /\ Fit
  BY DEF ResumeInv
<1>2. CASE active = NoFile
  BY <1>1, <1>2, PendingRows, RowsCanBeStored DEF RowsFitTogether
<1>3. CASE active # NoFile
  <2>1. active \in ActiveFile
    BY <1>1, <1>3, ActiveIs
  <2>2. CanStore(Append(pending, RowFor(active, FALSE)))
    BY <1>1, <1>3, <2>1, PartialRows, RowsCanBeStored
  <2> QED BY <1>3, <2>2 DEF RowsFitTogether
<1> QED BY <1>2, <1>3

LEMMA ResumeInvariant == Spec => []ResumeInv
  BY InvInit, InvNext, PTL DEF Spec

\* The variables hold values of their types, a path and an inode have one row in
\* parse_state, and a pair of them one in the archive.
THEOREM ResumeTypeCorrect == Spec => []TypeOK
<1>1. ResumeInv => TypeOK
  BY DEF ResumeInv
<1> QED BY <1>1, ResumeInvariant, PTL

\* The rows of every commit of a run fit the unique indexes of parse_state, whatever
\* was done to the files before, during and between runs: no flush fails on them.
THEOREM CommitsAlwaysFit == Spec => []RowsFitTogether
<1>1. ResumeInv => RowsFitTogether
  BY InvFits
<1> QED BY <1>1, ResumeInvariant, PTL

\* A run that stops short of its end without a crash has lost a file it was about to
\* open: the error path of a failed flush is never taken for the rows of files.
THEOREM OnlyMissingFilesStopRuns ==
  Spec => [][AbortRun => todo # <<>> /\ dir[Head(todo).path] = NoInode]_vars
<1>1. ResumeInv /\ [Next]_vars => [AbortRun => todo # <<>> /\ dir[Head(todo).path] = NoInode]_vars
  <2> SUFFICES ASSUME ResumeInv, AbortRun PROVE todo # <<>> /\ dir[Head(todo).path] = NoInode
    OBVIOUS
  <2>1. active = NoFile /\ IF todo # <<>> THEN dir[Head(todo).path] = NoInode ELSE ~CanStore(pending)
    BY DEF AbortRun
  <2>2. CanStore(pending)
    BY <2>1, InvFits DEF RowsFitTogether
  <2> QED BY <2>1, <2>2
<1> QED BY <1>1, ResumeInvariant, PTL DEF Spec

-----------------------------------------------------------------------------
(* Contents, and heads of one line. *)

WorldType == [only : BOOLEAN, inode : [Paths -> Inodes \cup {NoInode}], end : 0..MaxLines,
              at : [Paths -> Content]]
NoteType == [path : Paths, inode : Inodes, head : HeadType, chead : HeadType, size : 0..MaxLines,
             upto : 0..MaxLines, mtime : Nat, done : BOOLEAN]

LEMMA WorldIs ==
  ASSUME NEW w \in WorldType
  PROVE  /\ w.only \in BOOLEAN /\ w.end \in Nat
         /\ \A p \in Paths : /\ w.inode[p] \in Inodes \cup {NoInode} /\ w.at[p] \in Content
                             /\ w.at[p].from \in Nat /\ w.at[p].size \in Nat /\ w.at[p].mtime \in Nat
                             /\ EndAt(w, p) = w.at[p].from + w.at[p].size /\ EndAt(w, p) \in Nat
<1>1. MaxLines \in Nat
  BY ResumeAssumption
<1>2. w.only \in BOOLEAN /\ w.end \in Nat /\ w.inode \in [Paths -> Inodes \cup {NoInode}]
      /\ w.at \in [Paths -> Content]
  BY <1>1 DEF WorldType
<1>3. \A p \in Paths : w.inode[p] \in Inodes \cup {NoInode} /\ w.at[p] \in Content
  BY <1>2
<1> QED BY <1>2, <1>3, ContentIs DEF EndAt, EndOfAll

LEMMA NoteIs ==
  ASSUME NEW n \in NoteType
  PROVE  /\ n.path \in Paths /\ n.inode \in Inodes /\ n.head \in HeadType /\ n.chead \in HeadType
         /\ n.size \in Nat /\ n.upto \in Nat /\ n.mtime \in Nat /\ n.done \in BOOLEAN
<1>1. MaxLines \in Nat
  BY ResumeAssumption
<1> QED BY <1>1 DEF NoteType

LEMMA LinesAre ==
  ASSUME NEW c \in Content
  PROVE  \A l : l \in AllLines(c) <=> l \in Line /\ c.from < l /\ l <= c.from + c.size
<1>1. c.from \in Nat /\ c.size \in Nat
  BY ContentIs
<1>2. c.from + 0 = c.from
  BY <1>1
<1> QED BY <1>2 DEF AllLines, LinesOf

LEMMA HeadIs ==
  ASSUME HeadSize = 1, NEW c \in Content
  PROVE  /\ c.size = 0 => HeadOf(c) = NoHead
         /\ c.size # 0 => HeadOf(c) = <<c.from, 1>> /\ HeadOf(c) # NoHead
<1>1. c.size \in Nat
  BY ContentIs
<1>2. c.size # 0 => Lesser(c.size, 1) = 1
  BY <1>1 DEF Lesser
<1>3. <<c.from, 1>> # <<>>
  OBVIOUS
<1> QED BY <1>2, <1>3 DEF HeadOf, NoHead

LEMMA HeadsAre ==
  ASSUME HeadSize = 1, NEW h \in HeadType, h # NoHead
  PROVE  h[1] \in Nat /\ h[2] = 1 /\ h = <<h[1], 1>>
<1>1. MaxLines \in Nat /\ h \in (0..MaxLines) \X (1..1)
  BY ResumeAssumption DEF HeadType
<1> QED BY <1>1

\* What has the head of a file begins where it begins.
LEMMA SameHeads ==
  ASSUME HeadSize = 1, NEW h \in HeadType, h # NoHead, NEW c \in Content
  PROVE  /\ h = HeadOf(c) <=> c.size # 0 /\ h[1] = c.from
         /\ h[1] \in Nat /\ h[2] = 1
<1>1. h[1] \in Nat /\ h[2] = 1 /\ h = <<h[1], 1>>
  BY HeadsAre
<1>2. <<c.from, 1>>[1] = c.from
  OBVIOUS
<1> QED BY <1>1, <1>2, HeadIs

\* Of a file, its name, inode and content matter.
SamePlace(w, v, p) == v.inode[p] = w.inode[p] /\ v.at[p] = w.at[p]

LEMMA SamePlaceIs ==
  ASSUME NEW w, NEW v, NEW p, SamePlace(w, v, p), NEW cur, NEW old, NEW S
  PROVE  /\ On(v, p) = On(w, p) /\ HeadAt(v, p) = HeadAt(w, p) /\ EndAt(v, p) = EndAt(w, p)
         /\ SeenAt(v, p, S) = SeenAt(w, p, S)
         /\ HasOwn(v, p, cur) = HasOwn(w, p, cur)
         /\ OwnCovers(v, p, cur, S) = OwnCovers(w, p, cur, S)
         /\ Alone(v, p, cur, old, S) = Alone(w, p, cur, old, S)
         /\ p = Packed => ReadRotated(v, cur, old, S) = ReadRotated(w, cur, old, S)
         /\ \A n : Covers(v, n, p, S) = Covers(w, n, p, S)
         /\ \A n : Sized(v, n, p) = Sized(w, n, p)
<1> USE DEF SamePlace
<1>1. /\ On(v, p) = On(w, p) /\ HeadAt(v, p) = HeadAt(w, p) /\ EndAt(v, p) = EndAt(w, p)
      /\ SeenAt(v, p, S) = SeenAt(w, p, S)
  BY DEF On, HeadAt, EndAt, SeenAt
<1>2. \A n : Covers(v, n, p, S) = Covers(w, n, p, S)
  BY DEF Covers
<1>3. HasOwn(v, p, cur) = HasOwn(w, p, cur)
  BY DEF HasOwn
<1>4. OwnCovers(v, p, cur, S) = OwnCovers(w, p, cur, S)
  BY <1>1, <1>2, <1>3 DEF OwnCovers
<1>5. Alone(v, p, cur, old, S) = Alone(w, p, cur, old, S)
  BY <1>1, <1>2 DEF Alone
<1>6. p = Packed => ReadRotated(v, cur, old, S) = ReadRotated(w, cur, old, S)
  BY <1>1, <1>2 DEF ReadRotated
<1>7. \A n : Sized(v, n, p) = Sized(w, n, p)
  BY <1>1 DEF Sized
<1> QED BY <1>1, <1>2, <1>3, <1>4, <1>5, <1>6, <1>7

LEMMA SamePlaceRows ==
  ASSUME NEW w, NEW v, NEW cur, NEW old, NEW S
  PROVE  /\ SamePlace(w, v, Live) =>
              /\ LiveRows(v, cur, old) = LiveRows(w, cur, old)
              /\ CoveredLive(v, cur, S) = CoveredLive(w, cur, S)
         /\ SamePlace(w, v, Rotated) =>
              /\ RotatedRows(v, cur, old) = RotatedRows(w, cur, old)
              /\ CoveredRotated(v, cur, old, S) = CoveredRotated(w, cur, old, S)
         /\ SamePlace(w, v, Packed) =>
              /\ PackedRows(v, cur, old) = PackedRows(w, cur, old)
              /\ CoveredPacked(v, cur, old, S) = CoveredPacked(w, cur, old, S)
<1>1. ASSUME SamePlace(w, v, Live)
      PROVE  LiveRows(v, cur, old) = LiveRows(w, cur, old) /\ CoveredLive(v, cur, S) = CoveredLive(w, cur, S)
  BY <1>1, SamePlaceIs DEF LiveRows, CoveredLive, SamePlace
<1>2. ASSUME SamePlace(w, v, Rotated)
      PROVE  /\ RotatedRows(v, cur, old) = RotatedRows(w, cur, old)
             /\ CoveredRotated(v, cur, old, S) = CoveredRotated(w, cur, old, S)
  <2>1. RotatedRows(v, cur, old) = RotatedRows(w, cur, old)
    BY <1>2, SamePlaceIs DEF RotatedRows, SamePlace
  <2>2. CoveredRotated(v, cur, old, S) = CoveredRotated(w, cur, old, S)
    <3>1. /\ SeenAt(v, Rotated, S) = SeenAt(w, Rotated, S)
          /\ OwnCovers(v, Rotated, cur, S) = OwnCovers(w, Rotated, cur, S)
          /\ HasOwn(v, Rotated, cur) = HasOwn(w, Rotated, cur)
          /\ Alone(v, Rotated, cur, old, S) = Alone(w, Rotated, cur, old, S)
          /\ HeadAt(v, Rotated) = HeadAt(w, Rotated) /\ v.inode[Rotated] = w.inode[Rotated]
      BY <1>2, SamePlaceIs DEF SamePlace
    <3> QED BY <3>1 DEF CoveredRotated
  <2> QED BY <2>1, <2>2
<1>3. ASSUME SamePlace(w, v, Packed)
      PROVE  /\ PackedRows(v, cur, old) = PackedRows(w, cur, old)
             /\ CoveredPacked(v, cur, old, S) = CoveredPacked(w, cur, old, S)
  <2>1. PackedRows(v, cur, old) = PackedRows(w, cur, old)
    BY <1>3, SamePlaceIs DEF PackedRows, SamePlace
  <2>2. CoveredPacked(v, cur, old, S) = CoveredPacked(w, cur, old, S)
    <3>1. /\ SeenAt(v, Packed, S) = SeenAt(w, Packed, S)
          /\ OwnCovers(v, Packed, cur, S) = OwnCovers(w, Packed, cur, S)
          /\ HasOwn(v, Packed, cur) = HasOwn(w, Packed, cur)
          /\ Alone(v, Packed, cur, old, S) = Alone(w, Packed, cur, old, S)
          /\ ReadRotated(v, cur, old, S) = ReadRotated(w, cur, old, S)
      BY <1>3, SamePlaceIs DEF SamePlace
    <3> QED BY <3>1 DEF CoveredPacked
  <2> QED BY <2>1, <2>2
<1> QED BY <1>1, <1>2, <1>3

Paired(cur) == \A n, m \in cur : n.path = m.path \/ n.inode = m.inode => n = m

IsNewInode(w, i, cur, old) ==
  /\ i \in Inodes /\ \A p \in Paths : w.inode[p] # i
  /\ \A n \in cur \cup old : n.inode # i

LEMMA BookParts ==
  ASSUME NEW w, NEW cur, NEW old, NEW S, Book(w, cur, old, S)
  PROVE  /\ \A n \in cur \cup old : WellMade(w, n) /\ \A p \in Paths : Sized(w, n, p)
         /\ Single(cur, old)
         /\ LiveRows(w, cur, old) /\ RotatedRows(w, cur, old) /\ PackedRows(w, cur, old)
         /\ Counted(w, S)
         /\ CoveredLive(w, cur, S) /\ CoveredRotated(w, cur, old, S) /\ CoveredPacked(w, cur, old, S)
BY DEF Book, Kinds

\* The live file gets a line.
LEMMA BookGrows ==
  ASSUME HeadSize = 1, NEW w \in WorldType, NEW v \in WorldType, Tidy(w),
         v.only = w.only, v.inode = w.inode, v.end = w.end + 1,
         SamePlace(w, v, Rotated), SamePlace(w, v, Packed),
         v.at[Live].from = w.at[Live].from, v.at[Live].size = w.at[Live].size + 1,
         NEW cur \in SUBSET NoteType, NEW old \in SUBSET NoteType, NEW S \in SUBSET Line,
         Book(w, cur, old, S),
         \A n \in cur \cup old :
           n.inode = w.inode[Live] /\ n.head # NoHead /\ n.head # HeadAt(w, Live) =>
             n.size > w.at[Live].size + 1
  PROVE  Tidy(v) /\ Book(v, cur, old, S)
<1>1. /\ \A n \in cur \cup old : WellMade(w, n) /\ \A p \in Paths : Sized(w, n, p)
      /\ Single(cur, old)
      /\ LiveRows(w, cur, old) /\ RotatedRows(w, cur, old) /\ PackedRows(w, cur, old)
      /\ Counted(w, S)
      /\ CoveredLive(w, cur, S) /\ CoveredRotated(w, cur, old, S) /\ CoveredPacked(w, cur, old, S)
  BY BookParts
<1>2. /\ w.end \in Nat /\ v.end \in Nat
      /\ \A p \in Paths : /\ w.at[p] \in Content /\ w.at[p].from \in Nat /\ w.at[p].size \in Nat
                          /\ EndAt(w, p) = w.at[p].from + w.at[p].size
                          /\ v.at[p] \in Content /\ v.at[p].from \in Nat /\ v.at[p].size \in Nat
                          /\ EndAt(v, p) = v.at[p].from + v.at[p].size
  BY WorldIs
<1>3. Live \in Paths /\ Rotated \in Paths /\ Packed \in Paths /\ \A p \in Paths : p = Live \/ p = Rotated \/ p = Packed
  BY ThreePaths
<1>4. Edge(v) = Edge(w) /\ On(v, Live) = On(w, Live)
  BY SamePlaceIs DEF Edge, SamePlace, On
<1>5. Tidy(v)
  <2>1. /\ On(v, Rotated) = On(w, Rotated) /\ EndAt(v, Rotated) = EndAt(w, Rotated)
        /\ On(v, Packed) = On(w, Packed) /\ EndAt(v, Packed) = EndAt(w, Packed)
        /\ v.at[Rotated] = w.at[Rotated] /\ v.at[Packed] = w.at[Packed]
    BY SamePlaceIs DEF SamePlace
  <2>2. EndAt(v, Live) = v.end
    BY <1>2, <1>3 DEF Tidy
  <2>3. v.at[Live].size # 0
    BY <1>2, <1>3
  <2>4. \A p, q \in Paths : On(v, p) /\ v.inode[p] = v.inode[q] => p = q
    BY DEF Tidy, On
  <2> QED BY <1>4, <2>1, <2>2, <2>3, <2>4 DEF Tidy
<1>6. w.at[Live].size # 0 => HeadAt(v, Live) = HeadAt(w, Live)
  BY <1>2, <1>3, HeadIs DEF HeadAt
<1>7. ASSUME w.at[Live].size = 0, NEW n \in cur \cup old, n.head # NoHead
      PROVE  n.head # HeadAt(v, Live) /\ n.head # HeadAt(w, Live)
  <2>1. n.head[1] < w.end
    BY <1>1, <1>7 DEF WellMade
  <2>2. v.at[Live].from = w.end
    BY <1>2, <1>3, <1>7 DEF Tidy
  <2>3. HeadAt(v, Live) = HeadOf(v.at[Live]) /\ HeadAt(w, Live) = NoHead
    BY <1>2, <1>3, <1>7, HeadIs DEF HeadAt
  <2>4. n.head \in HeadType
    BY NoteIs
  <2> QED BY <1>2, <1>3, <1>7, <2>1, <2>2, <2>3, <2>4, SameHeads
<1>8. LiveRows(v, cur, old)
  <2> SUFFICES ASSUME NEW n \in cur \cup old
               PROVE  /\ n.inode = v.inode[Live] => n.path = Live
                      /\ n.head = HeadAt(v, Live) /\ n.head # NoHead =>
                           n.path = Live /\ n.inode = v.inode[Live] /\ n \notin old
    BY DEF LiveRows
  <2> QED BY <1>1, <1>6, <1>7 DEF LiveRows
<1>9. ASSUME NEW n \in cur \cup old PROVE WellMade(v, n)
  <2>1. WellMade(w, n)
    BY <1>1
  <2>2. n.head # NoHead => n.head[1] < v.end
    <3>1. n.head # NoHead => n.head[1] \in Nat /\ n.head[1] < w.end
      BY <2>1, NoteIs, HeadsAre DEF WellMade
    <3> QED BY <1>2, <3>1
  <2> QED BY <1>4, <2>1, <2>2 DEF WellMade
<1>10. ASSUME NEW n \in cur \cup old, NEW p \in Paths PROVE Sized(v, n, p)
  <2>1. CASE p # Live
    BY <1>1, <1>3, <2>1, SamePlaceIs
  <2>2. CASE p = Live
    <3> SUFFICES ASSUME n.inode = w.inode[Live], n.head # NoHead
                 PROVE  \/ /\ n.head = HeadAt(v, Live)
                           /\ n.size <= v.at[Live].size
                           /\ n.size = v.at[Live].size => n.mtime = v.at[Live].mtime
                        \/ n.head # HeadAt(v, Live) /\ n.size > v.at[Live].size
      BY <2>2 DEF Sized
    <3>1. n.size \in Nat
      BY NoteIs
    <3>2. CASE n.head = HeadAt(w, Live)
      <4>1. w.at[Live].size # 0
        BY <1>7, <3>2
      <4>2. n.size <= w.at[Live].size
        BY <1>1, <1>3, <3>2, <2>2 DEF Sized, On, Tidy
      <4> QED BY <1>2, <1>3, <1>6, <3>1, <3>2, <4>1, <4>2
    <3>3. CASE n.head # HeadAt(w, Live)
      <4>1. n.size > w.at[Live].size + 1
        BY <3>3
      <4>2. n.head # HeadAt(v, Live)
        BY <1>6, <1>7, <3>3
      <4> QED BY <1>2, <1>3, <3>1, <4>1, <4>2
    <3> QED BY <3>2, <3>3
  <2> QED BY <2>1, <2>2
<1>11. Kinds(v, cur, old)
  BY <1>1, <1>8, <1>9, <1>10, SamePlaceRows DEF Kinds
<1>12. Counted(v, S)
  <2>1. \A l \in S : l \in Nat /\ l <= w.end
    BY <1>1 DEF Counted, Line
  <2>2. \A l \in S : l <= v.end
    BY <1>2, <2>1
  <2> QED BY <1>1, <1>4, <2>2 DEF Counted
<1>13. SeenOf(v.at[Live], S) = SeenOf(w.at[Live], S)
  <2>1. ASSUME NEW l \in S PROVE l \in AllLines(v.at[Live]) <=> l \in AllLines(w.at[Live])
    <3>1. l \in Line /\ l \in Nat /\ l <= w.end
      <4>1. l \in Line /\ l \in Nat
        BY ResumeAssumption DEF Line
      <4> QED BY <1>1, <4>1 DEF Counted
    <3>2. w.end = w.at[Live].from + w.at[Live].size
      BY <1>2, <1>3 DEF Tidy
    <3> QED BY <1>2, <1>3, <3>1, <3>2, LinesAre
  <2> QED BY <2>1 DEF SeenOf
<1>14. CoveredLive(v, cur, S)
  <2> SUFFICES ASSUME SeenAt(v, Live, S) PROVE OwnCovers(v, Live, cur, S)
    BY DEF CoveredLive
  <2>1. SeenAt(w, Live, S)
    BY <1>4, <1>13 DEF SeenAt
  <2>2. OwnCovers(w, Live, cur, S)
    BY <1>1, <2>1 DEF CoveredLive
  <2>3. w.at[Live].size # 0
    <3>1. PICK l \in SeenOf(w.at[Live], S) : TRUE
      BY <2>1 DEF SeenAt
    <3>2. l \in Line /\ w.at[Live].from < l /\ l <= w.at[Live].from + w.at[Live].size
      BY <1>2, <1>3, <3>1, LinesAre DEF SeenOf
    <3> QED BY <1>2, <1>3, <3>2 DEF Line
  <2>4. \A n : Covers(v, n, Live, S) = Covers(w, n, Live, S)
    BY <1>13 DEF Covers, Within
  <2> QED BY <1>6, <2>2, <2>3, <2>4 DEF OwnCovers, HasOwn
<1> QED BY <1>1, <1>5, <1>11, <1>12, <1>14, SamePlaceRows DEF Book

\* The live file becomes the rotated one.
LEMMA BookRenames ==
  ASSUME HeadSize = 1, NEW w \in WorldType, NEW v \in WorldType, Tidy(w),
         v.only = w.only, v.end = w.end, SamePlace(w, v, Packed),
         ~On(w, Rotated), w.at[Live].size > 0,
         NEW cur \in SUBSET NoteType, NEW old \in SUBSET NoteType, NEW S \in SUBSET Line,
         IsNewInode(w, v.inode[Live], cur, old), v.at[Live] = Empty(w.end),
         v.inode[Rotated] = w.inode[Live], v.at[Rotated] = w.at[Live],
         Book(w, cur, old, S)
  PROVE  Tidy(v) /\ Book(v, cur, old, S)
<1> DEFINE i == v.inode[Live]
<1>1. /\ \A n \in cur \cup old : WellMade(w, n) /\ \A p \in Paths : Sized(w, n, p)
      /\ Single(cur, old)
      /\ LiveRows(w, cur, old) /\ RotatedRows(w, cur, old) /\ PackedRows(w, cur, old)
      /\ Counted(w, S)
      /\ CoveredLive(w, cur, S) /\ CoveredRotated(w, cur, old, S) /\ CoveredPacked(w, cur, old, S)
  BY BookParts
<1>2. /\ w.end \in 0..MaxLines /\ w.end \in Nat
      /\ \A p \in Paths : /\ w.at[p] \in Content /\ w.at[p].from \in Nat /\ w.at[p].size \in Nat
                          /\ EndAt(w, p) = w.at[p].from + w.at[p].size
                          /\ v.at[p] \in Content /\ v.at[p].from \in Nat /\ v.at[p].size \in Nat
                          /\ EndAt(v, p) = v.at[p].from + v.at[p].size
                          /\ w.inode[p] \in Inodes \cup {NoInode}
  BY WorldIs DEF WorldType
<1>3. Live \in Paths /\ Rotated \in Paths /\ Packed \in Paths /\ \A p \in Paths : p = Live \/ p = Rotated \/ p = Packed
  BY ThreePaths
<1>4. v.at[Live].from = w.end /\ v.at[Live].size = 0 /\ v.at[Live].mtime = w.end + 1
  BY <1>2, EmptyIs DEF Empty
<1>5. /\ On(v, Live) /\ On(v, Rotated) /\ On(w, Live) /\ EndAt(w, Live) = w.end
      /\ On(v, Packed) = On(w, Packed) /\ EndAt(v, Packed) = EndAt(w, Packed)
      /\ HeadAt(v, Rotated) = HeadAt(w, Live) /\ HeadAt(w, Live) # NoHead /\ HeadAt(v, Live) = NoHead
      /\ Edge(v) = Edge(w)
  <2>1. On(v, Live) /\ On(v, Rotated) /\ On(w, Live) /\ EndAt(w, Live) = w.end
    BY ThreePaths DEF IsNewInode, On, Tidy
  <2>2. HeadAt(v, Rotated) = HeadAt(w, Live) /\ HeadAt(w, Live) # NoHead /\ HeadAt(v, Live) = NoHead
    BY <1>2, <1>3, <1>4, HeadIs DEF HeadAt
  <2>3. Edge(v) = Edge(w)
    BY <2>1 DEF Edge
  <2> QED BY <2>1, <2>2, <2>3, SamePlaceIs
<1>6. \A p, q \in Paths : On(v, p) /\ v.inode[p] = v.inode[q] => p = q
  <2> SUFFICES ASSUME NEW p \in Paths, NEW q \in Paths, On(v, p), v.inode[p] = v.inode[q] PROVE p = q
    OBVIOUS
  <2>1. \A r \in Paths : w.inode[r] # i
    BY DEF IsNewInode
  <2>2. v.inode[Live] = i /\ v.inode[Rotated] = w.inode[Live] /\ v.inode[Packed] = w.inode[Packed]
    BY DEF SamePlace
  <2>3. w.inode[Live] # w.inode[Packed]
    BY <1>3, <1>5, ThreePaths DEF Tidy
  <2> HIDE DEF i
  <2> QED BY <1>3, <2>1, <2>2, <2>3
<1>7. Tidy(v)
  <2>1. EndAt(v, Live) = v.end /\ v.at[Live].mtime = v.at[Live].from + 1
    BY <1>2, <1>3, <1>4
  <2>2. v.at[Rotated].size > 0 /\ EndAt(v, Rotated) = v.at[Live].from
    BY <1>2, <1>3, <1>4, <1>5
  <2>3. On(v, Packed) => v.at[Packed].size > 0 /\ EndAt(v, Packed) = Edge(v)
    BY <1>5 DEF Tidy, SamePlace
  <2> QED BY <1>5, <1>6, <2>1, <2>2, <2>3 DEF Tidy
<1>8. \A n \in cur \cup old : n.inode # i /\ WellMade(v, n)
  BY <1>1, <1>5 DEF IsNewInode, WellMade, SamePlace
<1>9. ASSUME NEW n \in cur \cup old, NEW p \in Paths PROVE Sized(v, n, p)
  <2>1. CASE p = Live
    BY <1>8, <2>1 DEF Sized
  <2>2. CASE p = Rotated
    BY <1>1, <1>3, <1>5, <2>2 DEF Sized
  <2>3. CASE p = Packed
    BY <1>1, <1>3, <2>3, SamePlaceIs
  <2> QED BY <1>3, <2>1, <2>2, <2>3
<1>10. Kinds(v, cur, old)
  <2>1. LiveRows(v, cur, old)
    BY <1>5, <1>8 DEF LiveRows
  <2>2. RotatedRows(v, cur, old)
    BY <1>1, <1>5 DEF RotatedRows, LiveRows
  <2> QED BY <1>1, <1>8, <1>9, <2>1, <2>2, SamePlaceRows DEF Kinds
<1>11. CoveredLive(v, cur, S)
  <2>1. \A l \in Line : l \notin AllLines(v.at[Live])
    <3>1. \A l \in Line : l \in Nat
      BY ResumeAssumption DEF Line
    <3> QED BY <1>2, <1>3, <1>4, <3>1, LinesAre
  <2> QED BY <2>1 DEF CoveredLive, SeenAt, SeenOf
<1>12. CoveredRotated(v, cur, old, S)
  <2>1. SeenAt(v, Rotated, S) = SeenAt(w, Live, S) /\ OwnCovers(v, Rotated, cur, S) = OwnCovers(w, Live, cur, S)
    BY <1>5 DEF SeenAt, OwnCovers, HasOwn, Covers
  <2> QED BY <1>1, <2>1 DEF CoveredLive, CoveredRotated
<1>13. Counted(v, S)
  BY <1>1, <1>5 DEF Counted
<1> QED BY <1>1, <1>7, <1>10, <1>11, <1>12, <1>13, SamePlaceRows DEF Book

\* The live file is copied and truncated.
LEMMA BookCopies ==
  ASSUME HeadSize = 1, NEW w \in WorldType, NEW v \in WorldType, Tidy(w),
         v.only = w.only, v.end = w.end, SamePlace(w, v, Packed),
         ~On(w, Rotated), w.at[Live].size > 0,
         NEW cur \in SUBSET NoteType, NEW old \in SUBSET NoteType, NEW S \in SUBSET Line,
         IsNewInode(w, v.inode[Rotated], cur, old), v.at[Live] = Empty(w.end),
         v.inode[Live] = w.inode[Live],
         v.at[Rotated].from = w.at[Live].from, v.at[Rotated].size = w.at[Live].size,
         Paired(cur), \A n \in cur : n.path # Rotated,
         Book(w, cur, old, S)
  PROVE  Tidy(v) /\ Book(v, cur, old, S)
<1> DEFINE i == v.inode[Rotated]
<1>1. /\ \A n \in cur \cup old : WellMade(w, n) /\ \A p \in Paths : Sized(w, n, p)
      /\ Single(cur, old)
      /\ LiveRows(w, cur, old) /\ RotatedRows(w, cur, old) /\ PackedRows(w, cur, old)
      /\ Counted(w, S)
      /\ CoveredLive(w, cur, S) /\ CoveredRotated(w, cur, old, S) /\ CoveredPacked(w, cur, old, S)
  BY BookParts
<1>2. /\ w.end \in 0..MaxLines /\ w.end \in Nat
      /\ \A p \in Paths : /\ w.at[p] \in Content /\ w.at[p].from \in Nat /\ w.at[p].size \in Nat
                          /\ EndAt(w, p) = w.at[p].from + w.at[p].size
                          /\ v.at[p] \in Content /\ v.at[p].from \in Nat /\ v.at[p].size \in Nat
                          /\ EndAt(v, p) = v.at[p].from + v.at[p].size
                          /\ w.inode[p] \in Inodes \cup {NoInode}
  BY WorldIs DEF WorldType
<1>3. Live \in Paths /\ Rotated \in Paths /\ Packed \in Paths /\ \A p \in Paths : p = Live \/ p = Rotated \/ p = Packed
  BY ThreePaths
<1>4. v.at[Live].from = w.end /\ v.at[Live].size = 0 /\ v.at[Live].mtime = w.end + 1
  BY <1>2, EmptyIs DEF Empty
<1>5. /\ On(v, Live) /\ On(v, Rotated) /\ On(w, Live) /\ EndAt(w, Live) = w.end
      /\ On(v, Packed) = On(w, Packed) /\ EndAt(v, Packed) = EndAt(w, Packed)
      /\ HeadAt(v, Rotated) = HeadAt(w, Live) /\ HeadAt(w, Live) # NoHead /\ HeadAt(v, Live) = NoHead
      /\ Edge(v) = Edge(w) /\ EndAt(v, Rotated) = w.end
  <2>1. On(v, Live) /\ On(v, Rotated) /\ On(w, Live) /\ EndAt(w, Live) = w.end
    BY ThreePaths DEF IsNewInode, On, Tidy
  <2>2. HeadAt(v, Rotated) = HeadAt(w, Live) /\ HeadAt(w, Live) # NoHead /\ HeadAt(v, Live) = NoHead
    BY <1>2, <1>3, <1>4, HeadIs DEF HeadAt
  <2>3. Edge(v) = Edge(w)
    BY <2>1 DEF Edge
  <2>4. EndAt(v, Rotated) = w.end
    BY <1>2, <1>3, <2>1
  <2> QED BY <2>1, <2>2, <2>3, <2>4, SamePlaceIs
<1>6. \A p, q \in Paths : On(v, p) /\ v.inode[p] = v.inode[q] => p = q
  <2> SUFFICES ASSUME NEW p \in Paths, NEW q \in Paths, On(v, p), v.inode[p] = v.inode[q] PROVE p = q
    OBVIOUS
  <2>1. \A r \in Paths : w.inode[r] # i
    BY DEF IsNewInode
  <2>2. v.inode[Rotated] = i /\ v.inode[Live] = w.inode[Live] /\ v.inode[Packed] = w.inode[Packed]
    BY DEF SamePlace
  <2>3. w.inode[Live] # w.inode[Packed]
    BY <1>3, <1>5, ThreePaths DEF Tidy
  <2> HIDE DEF i
  <2> QED BY <1>3, <2>1, <2>2, <2>3
<1>7. Tidy(v)
  <2>1. EndAt(v, Live) = v.end /\ v.at[Live].mtime = v.at[Live].from + 1
    BY <1>2, <1>3, <1>4
  <2>2. v.at[Rotated].size > 0 /\ EndAt(v, Rotated) = v.at[Live].from
    BY <1>2, <1>3, <1>4, <1>5
  <2>3. On(v, Packed) => v.at[Packed].size > 0 /\ EndAt(v, Packed) = Edge(v)
    BY <1>5 DEF Tidy, SamePlace
  <2> QED BY <1>5, <1>6, <2>1, <2>2, <2>3 DEF Tidy
<1>8. \A n \in cur \cup old : n.inode # i /\ WellMade(v, n)
  BY <1>1, <1>5 DEF IsNewInode, WellMade, SamePlace
<1>9. ASSUME NEW n \in cur \cup old, NEW p \in Paths PROVE Sized(v, n, p)
  <2>1. CASE p = Rotated
    BY <1>8, <2>1 DEF Sized
  <2>2. CASE p = Live
    <3>1. n.head # NoHead => n.head # HeadAt(v, Live) /\ n.size > v.at[Live].size
      BY <1>1, <1>4, <1>5 DEF WellMade
    <3> QED BY <2>2, <3>1 DEF Sized
  <2>3. CASE p = Packed
    BY <1>1, <1>3, <2>3, SamePlaceIs
  <2> QED BY <1>3, <2>1, <2>2, <2>3
<1>10. Kinds(v, cur, old)
  <2>1. LiveRows(v, cur, old)
    BY <1>1, <1>5 DEF LiveRows
  <2>2. RotatedRows(v, cur, old)
    BY <1>1, <1>5, <1>8 DEF RotatedRows, LiveRows
  <2> QED BY <1>1, <1>8, <1>9, <2>1, <2>2, SamePlaceRows DEF Kinds
<1>11. CoveredLive(v, cur, S)
  <2>1. \A l \in Line : l \notin AllLines(v.at[Live])
    <3>1. \A l \in Line : l \in Nat
      BY ResumeAssumption DEF Line
    <3> QED BY <1>2, <1>3, <1>4, <3>1, LinesAre
  <2> QED BY <2>1 DEF CoveredLive, SeenAt, SeenOf
<1>12. SeenOf(v.at[Rotated], S) = SeenOf(w.at[Live], S)
  <2>1. \A l : l \in AllLines(v.at[Rotated]) <=> l \in AllLines(w.at[Live])
    BY <1>2, <1>3, LinesAre
  <2> QED BY <2>1 DEF SeenOf
<1>13. CoveredRotated(v, cur, old, S)
  <2> SUFFICES ASSUME SeenAt(v, Rotated, S)
               PROVE  /\ ~HasOwn(v, Rotated, cur)
                      /\ \A n \in old : n.inode = v.inode[Rotated] => n.head = HeadAt(v, Rotated)
                      /\ Alone(v, Rotated, cur, old, S)
    BY DEF CoveredRotated
  <2>1. OwnCovers(w, Live, cur, S)
    BY <1>1, <1>5, <1>12 DEF CoveredLive, SeenAt
  <2>2. PICK m \in cur : m.inode = w.inode[Live] /\ m.head = HeadAt(w, Live)
    BY <2>1 DEF OwnCovers, HasOwn
  <2>3. m.path = Live
    BY <1>1, <2>2 DEF LiveRows
  <2>4. \A n \in cur : n.path = Live => n.head = HeadAt(v, Rotated)
    BY <1>5, <2>2, <2>3 DEF Paired
  <2>5. \A l \in S : l <= EndAt(v, Rotated)
    BY <1>1, <1>5 DEF Counted
  <2>6. ASSUME NEW n \in cur \cup old, n.head = HeadAt(v, Rotated)
        PROVE  n.path = Live /\ Covers(v, n, Rotated, S)
    <3>1. n.path = Live /\ n.inode = w.inode[Live] /\ n \in cur
      BY <1>1, <1>5, <2>6 DEF LiveRows
    <3>2. Covers(w, n, Live, S)
      BY <2>1, <3>1 DEF OwnCovers
    <3> QED BY <1>12, <3>1, <3>2 DEF Covers, Within
  <2>7. Alone(v, Rotated, cur, old, S)
    BY <1>5, <2>2, <2>4, <2>5, <2>6 DEF Alone
  <2> QED BY <1>8, <2>7 DEF HasOwn
<1>14. Counted(v, S)
  BY <1>1, <1>5 DEF Counted
<1> QED BY <1>1, <1>7, <1>10, <1>11, <1>13, <1>14, SamePlaceRows DEF Book

\* The rotated file is packed.
LEMMA BookPacks ==
  ASSUME HeadSize = 1, NEW w \in WorldType, NEW v \in WorldType, Tidy(w),
         v.only = w.only, v.end = w.end, SamePlace(w, v, Live),
         On(w, Rotated), ~On(v, Rotated), w.only \/ ~On(w, Packed),
         NEW cur \in SUBSET NoteType, NEW old \in SUBSET NoteType, NEW S \in SUBSET Line,
         IsNewInode(w, v.inode[Packed], cur, old), v.at[Packed] = w.at[Rotated],
         Paired(cur),
         w.only \/ \A n \in cur : n.inode = w.inode[Rotated] => n.done,
         Book(w, cur, old, S)
  PROVE  Tidy(v) /\ Book(v, cur, old, S)
<1> DEFINE j == v.inode[Packed]
<1>1. /\ \A n \in cur \cup old : WellMade(w, n) /\ \A p \in Paths : Sized(w, n, p)
      /\ Single(cur, old)
      /\ LiveRows(w, cur, old) /\ RotatedRows(w, cur, old) /\ PackedRows(w, cur, old)
      /\ Counted(w, S)
      /\ CoveredLive(w, cur, S) /\ CoveredRotated(w, cur, old, S) /\ CoveredPacked(w, cur, old, S)
  BY BookParts
<1>2. /\ w.end \in Nat
      /\ \A p \in Paths : /\ w.at[p] \in Content /\ w.at[p].from \in Nat /\ w.at[p].size \in Nat
                          /\ EndAt(w, p) = w.at[p].from + w.at[p].size
                          /\ v.at[p] \in Content /\ v.at[p].from \in Nat /\ v.at[p].size \in Nat
                          /\ EndAt(v, p) = v.at[p].from + v.at[p].size
                          /\ w.inode[p] \in Inodes \cup {NoInode}
  BY WorldIs DEF WorldType
<1>3. Live \in Paths /\ Rotated \in Paths /\ Packed \in Paths /\ \A p \in Paths : p = Live \/ p = Rotated \/ p = Packed
  BY ThreePaths
<1>4. /\ On(v, Packed) /\ On(v, Live) /\ On(w, Live) /\ EndAt(w, Live) = w.end
      /\ EndAt(v, Live) = w.end
      /\ HeadAt(v, Packed) = HeadAt(w, Rotated) /\ HeadAt(w, Rotated) # NoHead
      /\ EndAt(v, Packed) = EndAt(w, Rotated)
      /\ EndAt(w, Rotated) = w.at[Live].from
      /\ Edge(v) = w.at[Live].from /\ Edge(w) = w.at[Rotated].from /\ Edge(w) < Edge(v)
      /\ v.at[Live] = w.at[Live] /\ w.at[Rotated].size > 0
  <2>1. On(v, Packed) /\ On(v, Live) /\ On(w, Live) /\ EndAt(w, Live) = w.end /\ v.at[Live] = w.at[Live]
    BY ThreePaths DEF IsNewInode, On, Tidy, SamePlace
  <2>2. w.at[Rotated].size > 0 /\ EndAt(w, Rotated) = w.at[Live].from
    BY DEF Tidy
  <2>3. HeadAt(v, Packed) = HeadAt(w, Rotated) /\ HeadAt(w, Rotated) # NoHead
    BY <1>2, <1>3, <2>2, HeadIs DEF HeadAt
  <2>4. Edge(v) = w.at[Live].from /\ Edge(w) = w.at[Rotated].from
    BY <2>1 DEF Edge
  <2>5. EndAt(v, Packed) = EndAt(w, Rotated) /\ EndAt(v, Live) = w.end
    BY <2>1 DEF EndAt
  <2> QED BY <1>2, <1>3, <2>1, <2>2, <2>3, <2>4, <2>5
<1>5. \A p, q \in Paths : On(v, p) /\ v.inode[p] = v.inode[q] => p = q
  <2> SUFFICES ASSUME NEW p \in Paths, NEW q \in Paths, On(v, p), v.inode[p] = v.inode[q] PROVE p = q
    OBVIOUS
  <2>1. \A r \in Paths : w.inode[r] # j
    BY DEF IsNewInode
  <2>2. v.inode[Live] = w.inode[Live] /\ v.inode[Rotated] = NoInode /\ v.inode[Packed] = j /\ j # NoInode
        /\ v.inode[Live] # NoInode
    BY <1>4 DEF SamePlace, On
  <2> HIDE DEF j
  <2> QED BY <1>3, <2>1, <2>2 DEF On
<1>6. Tidy(v)
  <2>1. v.at[Packed].size > 0 /\ EndAt(v, Packed) = Edge(v)
    BY <1>4
  <2>2. v.at[Live].size = 0 => v.at[Live].mtime = v.at[Live].from + 1
    BY <1>4 DEF Tidy
  <2> QED BY <1>4, <1>5, <2>1, <2>2 DEF Tidy
<1>7. ASSUME ~w.only, NEW n \in cur \cup old PROVE n.path # Packed
  <2>1. w.inode[Packed] = NoInode
    BY <1>7 DEF On
  <2>2. n.inode \in Inodes /\ n.inode # NoInode
    BY NoteIs, ThreePaths
  <2> QED BY <1>1, <1>7, <2>1, <2>2 DEF WellMade
<1>8. ASSUME NEW n \in cur \cup old PROVE n.inode # j /\ WellMade(v, n)
  <2>1. n.inode # j /\ WellMade(w, n)
    BY <1>1 DEF IsNewInode
  <2>2. w.only => n.head[1] < Edge(v)
    <3>1. w.only => n.head[1] < Edge(w) /\ n.path # Live
      BY <2>1, ThreePaths DEF WellMade
    <3>2. w.only => n.head[1] \in Nat
      BY <2>1, <3>1, NoteIs, HeadsAre DEF WellMade
    <3> QED BY <1>2, <1>3, <1>4, <3>1, <3>2
  <2> QED BY <1>7, <2>1, <2>2 DEF WellMade
<1>9. ASSUME NEW n \in cur \cup old, NEW p \in Paths PROVE Sized(v, n, p)
  <2>1. CASE p = Rotated
    BY <2>1 DEF Sized
  <2>2. CASE p = Live
    BY <1>1, <1>3, <2>2, SamePlaceIs
  <2>3. CASE p = Packed
    BY <1>8, <2>3 DEF Sized
  <2> QED BY <1>3, <2>1, <2>2, <2>3
<1>10. Kinds(v, cur, old)
  <2>1. RotatedRows(v, cur, old)
    BY DEF RotatedRows
  <2>2. PackedRows(v, cur, old)
    <3>1. ASSUME NEW n \in cur \cup old, n.path = Packed, n.head = HeadAt(v, Packed) PROVE FALSE
      <4>1. w.only /\ n.head[1] < Edge(w) /\ n.head # NoHead
        BY <1>1, <1>4, <1>7, <3>1 DEF WellMade
      <4>2. n.head[1] = w.at[Rotated].from
        BY <1>2, <1>3, <1>4, <3>1, <4>1, NoteIs, SameHeads DEF HeadAt
      <4> QED BY <1>2, <1>3, <1>4, <4>1, <4>2
    <3> QED BY <1>8, <3>1 DEF PackedRows
  <2> QED BY <1>1, <1>8, <1>9, <2>1, <2>2, SamePlaceRows DEF Kinds
<1>11. SeenOf(v.at[Packed], S) = SeenOf(w.at[Rotated], S) /\ SeenAt(v, Packed, S) = SeenAt(w, Rotated, S)
  BY <1>4 DEF SeenAt
<1>12. \A n : Covers(v, n, Packed, S) = Covers(w, n, Rotated, S)
  BY <1>11 DEF Covers
<1>13. ASSUME w.only PROVE ~SeenAt(w, Rotated, S)
  <2> SUFFICES ASSUME NEW l \in SeenOf(w.at[Rotated], S) PROVE FALSE
    BY DEF SeenAt
  <2>1. l \in S /\ l \in Line /\ w.at[Rotated].from < l
    BY <1>2, <1>3, LinesAre DEF SeenOf
  <2>2. l \in Nat
    BY <2>1, ResumeAssumption DEF Line
  <2>3. l <= Edge(w)
    BY <1>1, <1>13, <2>1 DEF Counted
  <2> QED BY <1>2, <1>3, <1>4, <2>1, <2>2, <2>3
<1>14. ASSUME ~w.only, SeenAt(w, Rotated, S)
       PROVE  ReadRotated(v, cur, old, S) \/ Alone(v, Packed, cur, old, S)
  <2>1. CASE Alone(w, Rotated, cur, old, S)
    <3>1. Alone(v, Packed, cur, old, S)
      BY <1>4, <1>12, <2>1 DEF Alone
    <3> QED BY <3>1
  <2>2. CASE OwnCovers(w, Rotated, cur, S)
    <3>1. PICK m \in cur : m.inode = w.inode[Rotated] /\ m.head = HeadAt(w, Rotated)
      BY <2>2 DEF OwnCovers, HasOwn
    <3>2. \A n \in cur : n.inode = w.inode[Rotated] => n = m
      BY <3>1 DEF Paired
    <3>3. m.done /\ Covers(w, m, Rotated, S)
      BY <1>14, <2>2, <3>1 DEF OwnCovers
    <3>4. CASE m.path = Rotated
      <4>1. ASSUME NEW n \in cur \cup old, n.head = HeadAt(w, Rotated), n.path = Rotated
            PROVE  n = m
        <5>1. n.inode = w.inode[Rotated]
          BY <1>1, <4>1, ThreePaths DEF RotatedRows
        <5>2. n \notin old
          BY <1>1, <4>1, <5>1, ThreePaths DEF RotatedRows
        <5> QED BY <3>2, <5>1, <5>2
      <4>2. ReadRotated(v, cur, old, S)
        BY <1>4, <1>12, <3>1, <3>3, <3>4, <4>1 DEF ReadRotated
      <4> QED BY <4>2
    <3>5. CASE m.path # Rotated
      <4>1. m.path = Live
        BY <1>1, <3>1, <3>5 DEF RotatedRows
      <4>2. \A n \in cur : n.path = Live => n = m
        BY <4>1 DEF Paired
      <4>3. ASSUME NEW n \in cur \cup old, n.head = HeadAt(w, Rotated)
            PROVE  n = m
        <5>1. n.path = Live
          <6>1. n.path # Live => n.path = Rotated /\ n.inode = w.inode[Rotated]
            BY <1>1, <4>3 DEF RotatedRows
          <6>2. n.path # Live => n \notin old
            BY <1>1, <6>1, ThreePaths DEF RotatedRows
          <6> QED BY <3>2, <3>5, <6>1, <6>2
        <5>2. n \notin old
          <6>1. n \in old => m = n /\ m \notin cur
            BY <1>1, <1>4, <3>1, <4>1, <4>3, <5>1 DEF Single
          <6> QED BY <6>1
        <5> QED BY <4>2, <5>1, <5>2
      <4>4. ~SeenAt(w, Live, S)
        <5>1. SUFFICES ASSUME SeenAt(w, Live, S) PROVE FALSE
          OBVIOUS
        <5>2. PICK n \in cur : n.inode = w.inode[Live]
          BY <1>1, <5>1 DEF CoveredLive, OwnCovers, HasOwn
        <5>3. n = m
          BY <1>1, <4>2, <5>2 DEF LiveRows
        <5> QED BY <1>3, <1>4, <3>1, <5>2, <5>3, ThreePaths DEF Tidy
      <4>5. ASSUME NEW l \in S PROVE l <= EndAt(v, Packed)
        <5>1. l \in Line /\ l \in Nat /\ l <= w.end
          <6>1. l \in Line /\ l \in Nat
            BY ResumeAssumption DEF Line
          <6> QED BY <1>1, <6>1 DEF Counted
        <5>2. l \notin AllLines(w.at[Live])
          BY <1>4, <4>4 DEF SeenAt, SeenOf
        <5> QED BY <1>2, <1>3, <1>4, <5>1, <5>2, LinesAre
      <4>6. Alone(v, Packed, cur, old, S)
        BY <1>4, <1>12, <3>1, <3>3, <4>1, <4>2, <4>3, <4>5 DEF Alone
      <4> QED BY <4>6
    <3> QED BY <3>4, <3>5
  <2> QED BY <1>1, <1>14, <2>1, <2>2 DEF CoveredRotated
<1>15. CoveredPacked(v, cur, old, S)
  BY <1>7, <1>8, <1>11, <1>13, <1>14 DEF CoveredPacked, HasOwn
<1>16. CoveredRotated(v, cur, old, S)
  BY DEF CoveredRotated, SeenAt
<1>17. Counted(v, S)
  <2>1. \A l \in S : l \in Nat
    BY ResumeAssumption DEF Line
  <2>2. \A l \in S : l <= w.end /\ (w.only => l <= Edge(v))
    BY <1>1, <1>2, <1>3, <1>4, <2>1 DEF Counted
  <2> QED BY <2>2 DEF Counted
<1> QED BY <1>1, <1>6, <1>10, <1>15, <1>16, <1>17, SamePlaceRows DEF Book

\* The rotated file is appended to the packed one.
LEMMA BookAppends ==
  ASSUME HeadSize = 1, NEW w \in WorldType, NEW v \in WorldType, Tidy(w),
         w.only, v.only, v.end = w.end, SamePlace(w, v, Live),
         On(w, Rotated), ~On(v, Rotated), On(w, Packed), v.inode[Packed] = w.inode[Packed],
         v.at[Packed].from = w.at[Packed].from,
         v.at[Packed].size = w.at[Packed].size + w.at[Rotated].size,
         NEW cur \in SUBSET NoteType, NEW old \in SUBSET NoteType, NEW S \in SUBSET Line,
         Book(w, cur, old, S)
  PROVE  Tidy(v) /\ Book(v, cur, old, S)
<1>1. /\ \A n \in cur \cup old : WellMade(w, n) /\ \A p \in Paths : Sized(w, n, p)
      /\ Single(cur, old)
      /\ LiveRows(w, cur, old) /\ RotatedRows(w, cur, old) /\ PackedRows(w, cur, old)
      /\ Counted(w, S)
      /\ CoveredLive(w, cur, S) /\ CoveredRotated(w, cur, old, S) /\ CoveredPacked(w, cur, old, S)
  BY BookParts
<1>2. /\ w.end \in Nat
      /\ \A p \in Paths : /\ w.at[p] \in Content /\ w.at[p].from \in Nat /\ w.at[p].size \in Nat
                          /\ EndAt(w, p) = w.at[p].from + w.at[p].size
                          /\ v.at[p] \in Content /\ v.at[p].from \in Nat /\ v.at[p].size \in Nat
                          /\ EndAt(v, p) = v.at[p].from + v.at[p].size
                          /\ w.inode[p] \in Inodes \cup {NoInode}
  BY WorldIs DEF WorldType
<1>3. Live \in Paths /\ Rotated \in Paths /\ Packed \in Paths /\ \A p \in Paths : p = Live \/ p = Rotated \/ p = Packed
  BY ThreePaths
<1>4. /\ On(v, Packed) /\ On(v, Live) /\ On(w, Live) /\ EndAt(w, Live) = w.end
      /\ EndAt(v, Live) = w.end
      /\ w.at[Packed].size > 0 /\ HeadAt(v, Packed) = HeadAt(w, Packed)
      /\ EndAt(w, Packed) = Edge(w)
      /\ EndAt(v, Packed) = w.at[Live].from
      /\ Edge(v) = w.at[Live].from /\ Edge(w) < Edge(v)
      /\ v.at[Live] = w.at[Live]
  <2>1. On(v, Packed) /\ On(v, Live) /\ On(w, Live) /\ EndAt(w, Live) = w.end /\ v.at[Live] = w.at[Live]
    BY ThreePaths DEF On, Tidy, SamePlace
  <2>2. w.at[Rotated].size > 0 /\ EndAt(w, Rotated) = w.at[Live].from
        /\ w.at[Packed].size > 0 /\ EndAt(w, Packed) = Edge(w)
    BY DEF Tidy
  <2>3. HeadAt(v, Packed) = HeadAt(w, Packed)
    BY <1>2, <1>3, <2>2, HeadIs DEF HeadAt
  <2>4. Edge(v) = w.at[Live].from /\ Edge(w) = w.at[Rotated].from
    BY <2>1 DEF Edge
  <2>5. EndAt(v, Live) = w.end
    BY <2>1 DEF EndAt
  <2> QED BY <1>2, <1>3, <2>1, <2>2, <2>3, <2>4, <2>5
<1>5. \A p, q \in Paths : On(v, p) /\ v.inode[p] = v.inode[q] => p = q
  <2> SUFFICES ASSUME NEW p \in Paths, NEW q \in Paths, On(v, p), v.inode[p] = v.inode[q] PROVE p = q
    OBVIOUS
  <2>1. v.inode[Live] = w.inode[Live] /\ v.inode[Rotated] = NoInode /\ w.inode[Packed] # NoInode
        /\ v.inode[Live] # NoInode
    BY <1>4 DEF SamePlace, On
  <2>2. w.inode[Live] # w.inode[Packed]
    BY <1>3, <1>4, ThreePaths DEF Tidy
  <2> QED BY <1>3, <2>1, <2>2 DEF On
<1>6. Tidy(v)
  <2>1. v.at[Packed].size > 0
    BY <1>2, <1>3, <1>4
  <2>2. v.at[Live].size = 0 => v.at[Live].mtime = v.at[Live].from + 1
    BY <1>4 DEF Tidy
  <2> QED BY <1>4, <1>5, <2>1, <2>2 DEF Tidy
<1>8. ASSUME NEW n \in cur \cup old PROVE n.path = Packed /\ WellMade(v, n) /\ n.head # NoHead
  <2>1. WellMade(w, n) /\ n.path = Packed
    BY <1>1 DEF WellMade
  <2>2. n.head[1] < Edge(v) /\ n.head # NoHead
    <3>1. n.head[1] < Edge(w) /\ n.head # NoHead
      BY <2>1, ThreePaths DEF WellMade
    <3>2. n.head[1] \in Nat
      BY <3>1, NoteIs, HeadsAre
    <3> QED BY <1>2, <1>3, <1>4, <3>1, <3>2
  <2> QED BY <2>1, <2>2 DEF WellMade
<1>9. ASSUME NEW n \in cur \cup old, NEW p \in Paths PROVE Sized(v, n, p)
  <2>1. CASE p = Rotated
    BY <2>1 DEF Sized
  <2>2. CASE p = Live
    BY <1>1, <1>3, <2>2, SamePlaceIs
  <2>3. CASE p = Packed
    <3> SUFFICES ASSUME n.inode = w.inode[Packed]
                 PROVE  n.head = HeadAt(v, Packed) /\ n.size < v.at[Packed].size
      <4>1. n.size \in Nat
        BY NoteIs
      <4> QED BY <1>2, <1>3, <2>3, <4>1 DEF Sized
    <3>1. n.head = HeadAt(w, Packed) /\ n.size \in Nat
      BY <1>1, NoteIs DEF PackedRows
    <3>2. n.size <= w.at[Packed].size
      BY <1>1, <1>3, <1>8, <3>1 DEF Sized
    <3>3. w.at[Rotated].size > 0
      BY DEF Tidy
    <3> QED BY <1>2, <1>3, <1>4, <3>1, <3>2, <3>3
  <2> QED BY <1>3, <2>1, <2>2, <2>3
<1>10. Kinds(v, cur, old)
  <2>1. RotatedRows(v, cur, old)
    BY DEF RotatedRows
  <2>2. PackedRows(v, cur, old)
    BY <1>1, <1>4 DEF PackedRows
  <2> QED BY <1>1, <1>8, <1>9, <2>1, <2>2, SamePlaceRows DEF Kinds
<1>11. \A l \in S : l \in Line /\ l \in Nat /\ l <= Edge(w)
  <2>1. \A l \in S : l \in Nat
    BY ResumeAssumption DEF Line
  <2> QED BY <1>1, <2>1 DEF Counted
<1>12. SeenOf(v.at[Packed], S) = SeenOf(w.at[Packed], S)
  <2>1. ASSUME NEW l \in S PROVE l \in AllLines(v.at[Packed]) <=> l \in AllLines(w.at[Packed])
    BY <1>2, <1>3, <1>4, <1>11, LinesAre
  <2> QED BY <2>1 DEF SeenOf
<1>13. SeenAt(v, Packed, S) = SeenAt(w, Packed, S) /\ \A n : Covers(v, n, Packed, S) = Covers(w, n, Packed, S)
  BY <1>4, <1>12 DEF SeenAt, Covers, Within
<1>14. CoveredPacked(v, cur, old, S)
  <2> SUFFICES ASSUME SeenAt(w, Packed, S) PROVE OwnCovers(v, Packed, cur, S)
    BY <1>13 DEF CoveredPacked
  <2>1. ~ReadRotated(w, cur, old, S) /\ ~Alone(w, Packed, cur, old, S)
    BY <1>8, ThreePaths DEF ReadRotated, Alone
  <2>2. OwnCovers(w, Packed, cur, S)
    BY <1>1, <2>1 DEF CoveredPacked
  <2> QED BY <1>4, <1>13, <2>2 DEF OwnCovers, HasOwn
<1>15. CoveredRotated(v, cur, old, S)
  BY DEF CoveredRotated, SeenAt
<1>16. Counted(v, S)
  <2>1. \A l \in S : l <= w.end /\ l <= Edge(v)
    <3>1. \A l \in S : l <= w.end
      BY <1>1 DEF Counted
    <3> QED BY <1>2, <1>3, <1>4, <1>11, <3>1
  <2> QED BY <2>1 DEF Counted
<1> QED BY <1>1, <1>6, <1>10, <1>14, <1>15, <1>16, SamePlaceRows DEF Book

LEMMA WorldIsTyped ==
  ASSUME NEW g, NEW d \in [Paths -> Inodes \cup {NoInode}], NEW f \in [Inodes -> Content], NEW e \in 0..MaxLines
  PROVE  WorldOf(g, d, f, e) \in WorldType
<1> DEFINE a == [p \in Paths |-> IF d[p] = NoInode THEN Empty(0) ELSE f[d[p]]]
<1>1. Empty(0) \in Content
  BY EmptyIs, Constants DEF Lines0
<1>2. a \in [Paths -> Content]
  BY <1>1
<1>3. WorldOf(g, d, f, e) = [only |-> g = {Packed}, inode |-> d, end |-> e, at |-> a]
  BY DEF WorldOf
<1>4. (g = {Packed}) \in BOOLEAN
  OBVIOUS
<1> HIDE DEF a
<1> QED BY <1>2, <1>3, <1>4 DEF WorldType

LEMMA WorldIsOf ==
  ASSUME NEW g, NEW d, NEW f, NEW e
  PROVE  /\ WorldOf(g, d, f, e).only = (g = {Packed})
         /\ WorldOf(g, d, f, e).inode = d
         /\ WorldOf(g, d, f, e).end = e
BY DEF WorldOf

LEMMA WorldFiles ==
  ASSUME NEW g, NEW d, NEW f, NEW e, NEW p \in Paths
  PROVE  /\ On(WorldOf(g, d, f, e), p) <=> d[p] # NoInode
         /\ WorldOf(g, d, f, e).at[p] = IF d[p] = NoInode THEN Empty(0) ELSE f[d[p]]
BY DEF WorldOf, On

LEMMA ThisWorld ==
  ASSUME TypeOK
  PROVE  /\ World \in WorldType /\ World.only = (glob = {Packed}) /\ World.inode = dir /\ World.end = written
         /\ \A p \in Paths : dir[p] # NoInode =>
              On(World, p) /\ World.at[p] = file[dir[p]] /\ World.at[p] = At(p) /\ dir[p] \in Inodes
         /\ \A p \in Paths : dir[p] = NoInode => ~On(World, p) /\ World.at[p] = Empty(0)
<1>1. dir \in [Paths -> Inodes \cup {NoInode}] /\ file \in [Inodes -> Content] /\ written \in 0..MaxLines
  BY DEF TypeOK
<1>2. \A p \in Paths : dir[p] # NoInode => dir[p] \in Inodes
  BY <1>1
<1>3. World \in WorldType
  BY <1>1, WorldIsTyped DEF World
<1>4. World.only = (glob = {Packed}) /\ World.inode = dir /\ World.end = written
  BY WorldIsOf DEF World
<1>5. ASSUME NEW p \in Paths
      PROVE  (On(World, p) <=> dir[p] # NoInode)
             /\ World.at[p] = IF dir[p] = NoInode THEN Empty(0) ELSE file[dir[p]]
  BY WorldFiles DEF World
<1> QED BY <1>2, <1>3, <1>4, <1>5 DEF At

LEMMA NextWorld ==
  ASSUME dir' \in [Paths -> Inodes \cup {NoInode}], file' \in [Inodes -> Content], written' \in 0..MaxLines
  PROVE  /\ World' \in WorldType /\ World'.only = (glob' = {Packed}) /\ World'.inode = dir' /\ World'.end = written'
         /\ \A p \in Paths : dir'[p] # NoInode => On(World', p) /\ World'.at[p] = file'[dir'[p]]
         /\ \A p \in Paths : dir'[p] = NoInode => ~On(World', p) /\ World'.at[p] = Empty(0)
<1>1. World' = WorldOf(glob', dir', file', written')
  BY DEF World
<1>2. World' \in WorldType
  BY <1>1, WorldIsTyped
<1>3. World'.only = (glob' = {Packed}) /\ World'.inode = dir' /\ World'.end = written'
  BY <1>1, WorldIsOf
<1>4. ASSUME NEW p \in Paths
      PROVE  (On(World', p) <=> dir'[p] # NoInode)
             /\ World'.at[p] = IF dir'[p] = NoInode THEN Empty(0) ELSE file'[dir'[p]]
  BY <1>1, WorldFiles
<1> QED BY <1>2, <1>3, <1>4

LEMMA NoteOf ==
  ASSUME NEW r \in Row
  PROVE  /\ Note(r) \in NoteType /\ Note(r).path = r.path /\ Note(r).inode = r.inode
         /\ Note(r).head = r.uhead /\ Note(r).chead = r.chead /\ Note(r).upto = r.uoff
         /\ Note(r).mtime = r.mtime /\ Note(r).done = r.completed
         /\ r.path = Packed => Note(r).size = r.csize
         /\ r.path # Packed => Note(r).size = r.usize
<1>1. PreviousSize(r.path, r) \in 0..MaxLines
  BY DEF PreviousSize, Row
<1> QED BY <1>1 DEF Note, NoteType, Row, PreviousSize, IsCompressed

LEMMA NotesOf ==
  ASSUME NEW rows \in SUBSET Row
  PROVE  Notes(rows) \in SUBSET NoteType
BY NoteOf DEF Notes

LEMMA HandIs ==
  ASSUME TypeOK, Idle
  PROVE  /\ pending \in Seq(Row) /\ todo \in Seq(Row) /\ Range(pending) \subseteq Row /\ Range(todo) \subseteq Row
         /\ DOMAIN pending = 1..Len(pending) /\ DOMAIN todo = 1..Len(todo)
         /\ \A k \in DOMAIN pending : pending[k] \in Range(pending) /\ pending[k] \in Row
         /\ \A k \in DOMAIN todo : todo[k] \in Range(todo) /\ todo[k] \in Row
         /\ \A r \in Range(pending) : \E k \in DOMAIN pending : r = pending[k]
         /\ active # NoFile => /\ RowFor(active, FALSE) \in Row /\ SameFile(RowFor(active, FALSE), active.plan)
                               /\ active \in ActiveFile /\ active.plan \in Row /\ active.plan # NoRow
                               /\ active.inode \in Inodes /\ active.plan \in InHand
<1>1. pending \in Seq(Row) /\ todo \in Seq(Row)
  BY DEF TypeOK
<1>2. active # NoFile => /\ active \in ActiveFile /\ active.plan \in Row /\ active.plan # NoRow
                         /\ active.inode \in Inodes /\ active.plan \in InHand
  BY ActiveIs
<1>3. active # NoFile => RowFor(active, FALSE) \in Row /\ SameFile(RowFor(active, FALSE), active.plan)
  BY <1>2, RowForIs
<1>4. /\ Range(pending) \subseteq Row /\ DOMAIN pending = 1..Len(pending)
      /\ \A k \in DOMAIN pending : pending[k] \in Range(pending)
      /\ \A r \in Range(pending) : \E k \in DOMAIN pending : r = pending[k]
  BY <1>1, RangeIs
<1>5. /\ Range(todo) \subseteq Row /\ DOMAIN todo = 1..Len(todo)
      /\ \A k \in DOMAIN todo : todo[k] \in Range(todo)
  BY <1>1, RangeIs
<1>6. /\ \A k \in DOMAIN pending : pending[k] \in Row
      /\ \A k \in DOMAIN todo : todo[k] \in Row
  BY <1>4, <1>5
<1> QED BY <1>1, <1>2, <1>3, <1>4, <1>5, <1>6

LEMMA TablesTyped ==
  ASSUME ResumeInv
  PROVE  /\ Current \in SUBSET NoteType /\ Former \in SUBSET NoteType
         /\ Storing \in SUBSET NoteType /\ Notes(retired) \in SUBSET NoteType
         /\ NextCurrent \in SUBSET NoteType /\ NextFormer \in SUBSET NoteType
         /\ Seen \in SUBSET Line /\ SeenNext \in SUBSET Line
<1>1. parseState \subseteq Row /\ archive \subseteq Row /\ retired \subseteq Row /\ Unretired \subseteq Row
  BY DEF ResumeInv, TypeOK, Unretired
<1>2. Current \in SUBSET NoteType /\ Former \in SUBSET NoteType /\ Notes(retired) \in SUBSET NoteType
      /\ Notes(Unretired) \in SUBSET NoteType
  BY <1>1, NotesOf DEF Current, Former
<1>3. Storing \in SUBSET NoteType
  BY HandIs, NotesOf, NoteOf DEF Storing, ResumeInv
<1>4. NextCurrent \in SUBSET NoteType /\ NextFormer \in SUBSET NoteType
  BY <1>2, <1>3 DEF NextCurrent, NextFormer
<1> QED BY <1>2, <1>3, <1>4 DEF Seen, SeenNext

\* A path has one row and an inode has one, now and after the next commit.
LEMMA TablesPaired ==
  ASSUME ResumeInv, Distinct
  PROVE  Paired(Current) /\ Paired(NextCurrent)
<1>1. TypeOK /\ Idle /\ Fit /\ parseState \subseteq Row
  BY DEF ResumeInv, TypeOK
<1>2. Paired(Current)
  <2> SUFFICES ASSUME NEW r \in parseState, NEW s \in parseState,
                      Note(r).path = Note(s).path \/ Note(r).inode = Note(s).inode
               PROVE  Note(r) = Note(s)
    BY DEF Paired, Current, Notes
  <2>1. r.path = s.path \/ r.inode = s.inode
    BY <1>1, NoteOf
  <2>2. r = s
    BY <1>1, <2>1 DEF TypeOK
  <2> QED BY <2>2
<1>3. Paired(NextCurrent)
  <2> DEFINE hand == Range(pending) \cup (IF active = NoFile THEN {} ELSE {RowFor(active, FALSE)})
  <2>1. Storing = Notes(hand)
    BY DEF Storing, Notes
  <2>2. hand \subseteq Row /\ \A r \in hand : \E h \in InHand : SameFile(r, h)
    BY <1>1, HandIs DEF InHand, SameFile
  <2>3. ASSUME NEW r \in hand, NEW s \in hand, r.path = s.path PROVE r = s
    <3>1. CASE r \in Range(pending) /\ s \in Range(pending)
      BY <1>1, <2>3, <3>1, HandIs DEF Distinct
    <3>2. CASE r \notin Range(pending) /\ s \notin Range(pending)
      BY <3>2
    <3>3. ASSUME NEW x \in Range(pending), active # NoFile PROVE x.path # RowFor(active, FALSE).path
      BY <1>1, <3>3, HandIs DEF Distinct, SameFile
    <3> QED BY <2>3, <3>1, <3>2, <3>3
  <2>4. ASSUME NEW r \in hand, NEW s \in hand, r.inode = s.inode PROVE r = s
    <3>1. PICK h \in InHand, i \in InHand : SameFile(r, h) /\ SameFile(s, i)
      BY <2>2
    <3>2. h.path = i.path
      BY <1>1, <2>4, <3>1 DEF Fit, SameFile
    <3> QED BY <2>3, <3>1, <3>2 DEF SameFile
  <2>5. ASSUME NEW r \in hand, NEW s \in Unretired, r.inode = s.inode PROVE r.path = s.path
    <3>1. PICK h \in InHand : SameFile(r, h)
      BY <2>2
    <3> QED BY <1>1, <2>5, <3>1 DEF Fit, SameFile
  <2>6. Unretired \subseteq parseState
    BY DEF Unretired
  <2> HIDE DEF hand
  <2> SUFFICES ASSUME NEW n \in NextCurrent, NEW m \in NextCurrent, n.path = m.path \/ n.inode = m.inode
               PROVE  n = m
    BY DEF Paired
  <2>7. CASE n \in Storing /\ m \in Storing
    <3>1. PICK r \in hand, s \in hand : n = Note(r) /\ m = Note(s)
      BY <2>1, <2>7 DEF Notes
    <3>2. r.path = s.path \/ r.inode = s.inode
      BY <2>2, <3>1, NoteOf
    <3> QED BY <2>3, <2>4, <3>1, <3>2
  <2>8. CASE n \notin Storing /\ m \notin Storing
    <3>1. PICK r \in parseState, s \in parseState : n = Note(r) /\ m = Note(s)
      BY <2>6, <2>8 DEF Notes, NextCurrent
    <3>2. r.path = s.path \/ r.inode = s.inode
      BY <1>1, <3>1, NoteOf
    <3> QED BY <1>1, <3>1, <3>2 DEF TypeOK
  <2>9. ASSUME NEW x \in NextCurrent, NEW y \in Storing, x \notin Storing
        PROVE  x.path # y.path /\ x.inode # y.inode
    <3>1. x.path # y.path /\ x \in Notes(Unretired)
      BY <2>9 DEF NextCurrent
    <3>2. PICK r \in Unretired, s \in hand : x = Note(r) /\ y = Note(s)
      BY <2>1, <3>1 DEF Notes
    <3>3. r.inode = s.inode => r.path = s.path
      BY <2>5, <3>2
    <3> QED BY <1>1, <2>2, <2>6, <3>1, <3>2, <3>3, NoteOf
  <2> QED BY <2>7, <2>8, <2>9
<1> QED BY <1>2, <1>3

\* Where every row of the next tables comes from.
LEMMA NextNotes ==
  ASSUME ResumeInv, Done
  PROVE  /\ \A n \in NextCurrent : n \in Current \/ n \in Storing
         /\ \A n \in NextFormer : n \in Current \/ n \in Former
         /\ \A n \in Current : \E r \in parseState : n = Note(r)
         /\ \A n \in Former : \E r \in archive : n = Note(r)
         /\ \A n \in Storing : \/ \E r \in Range(pending) : n = Note(r)
                               \/ active # NoFile /\ n = Note(RowFor(active, FALSE))
<1>1. Unretired \subseteq parseState /\ retired \subseteq parseState \cup archive
  BY DEF Unretired, Done
<1> QED BY <1>1 DEF NextCurrent, NextFormer, Current, Former, Storing, Notes

LEMMA FreshFile ==
  ASSUME ResumeInv, Done, Reading, Trouble = {}, NEW i, IsFresh(i)
  PROVE  /\ IsNewInode(World, i, Current, Former) /\ IsNewInode(World, i, NextCurrent, NextFormer)
         /\ \A k \in DOMAIN todo : todo[k].inode # i
         /\ active # NoFile => active.inode # i
         /\ \A r \in Range(pending) : r.inode # i
<1>1. TypeOK /\ Idle /\ parseState \subseteq Row /\ archive \subseteq Row
  BY DEF ResumeInv, TypeOK
<1>2. i \in Inodes /\ \A p \in Paths : dir[p] # i
  BY FreshIs
<1>3. active.inode # i
  BY DEF IsFresh, Inuse
<1>4. \A r \in parseState \cup archive \cup Range(pending) \cup Range(todo) : r.inode # i
  BY DEF IsFresh, Remembered
<1>5. \A k \in DOMAIN todo : todo[k].inode # i
  BY <1>1, <1>4, HandIs
<1>6. \A n \in Current \cup Former \cup Storing : n.inode # i
  <2>1. \A n \in Current \cup Former : n.inode # i
    BY <1>1, <1>4, NextNotes, NoteOf
  <2>2. active # NoFile => RowFor(active, FALSE).inode # i
    BY <1>1, <1>3, HandIs DEF Reading, ReadFits, SameFile
  <2>3. ASSUME NEW n \in Storing PROVE n.inode # i
    <3>1. CASE \E r \in Range(pending) : n = Note(r)
      BY <1>1, <1>4, <3>1, NoteOf, HandIs
    <3>2. CASE active # NoFile /\ n = Note(RowFor(active, FALSE))
      BY <1>1, <2>2, <3>2, NoteOf, HandIs
    <3> QED BY <3>1, <3>2, NextNotes
  <2> QED BY <2>1, <2>3
<1>7. \A n \in NextCurrent \cup NextFormer : n.inode # i
  BY <1>6, NextNotes
<1>8. World.inode = dir
  BY <1>1, ThisWorld
<1> QED BY <1>2, <1>3, <1>4, <1>5, <1>6, <1>7, <1>8 DEF IsNewInode

\* Of a plan or of the file that is read, the lines stay where they begin, and a
\* path that is planned has its file or none.
LEMMA NotSwapped ==
  ASSUME ResumeInv, Trouble = {}, Disturb
  PROVE  /\ \A k \in DOMAIN todo : /\ dir'[todo[k].path] \in {todo[k].inode, NoInode}
                                   /\ file'[todo[k].inode].from = file[todo[k].inode].from
         /\ active # NoFile => file'[active.inode].from = file[active.inode].from
<1>1. TypeOK /\ Idle /\ NoInode \notin Inodes
  BY ThreePaths DEF ResumeInv
<1>2. pc = "run" => ~Swaps
  BY DEF Disturb
<1>3. pc \in {"idle", "run"}
  BY <1>1 DEF TypeOK
<1>4. CASE pc = "idle"
  BY <1>1, <1>4 DEF Idle
<1>5. CASE pc = "run"
  BY <1>1, <1>2, <1>5, HandIs DEF Swaps
<1> QED BY <1>3, <1>4, <1>5

LEMMA NothingStored ==
  ASSUME UNCHANGED <<glob, dbVars, runVars, targets>>
  PROVE  /\ Current' = Current /\ Former' = Former /\ Seen' = Seen
         /\ NextCurrent' = NextCurrent /\ NextFormer' = NextFormer /\ SeenNext' = SeenNext
         /\ Distinct' = Distinct /\ Once' = Once
<1>1. \A l : BeforeTarget(l)' = BeforeTarget(l)
  BY DEF BeforeTarget
<1>2. Current' = Current /\ Former' = Former
  BY DEF Current, Former, dbVars
<1>3. NextCurrent' = NextCurrent
  BY DEF NextCurrent, Unretired, Storing, dbVars, runVars
<1>4. NextFormer' = NextFormer
  BY DEF NextFormer, Former, dbVars, runVars
<1>5. Distinct' = Distinct
  BY DEF Distinct, runVars
<1>6. Seen' = Seen /\ SeenNext' = SeenNext /\ Once' = Once
  BY <1>1 DEF Seen, SeenNext, Once, dbVars, runVars
<1> QED BY <1>2, <1>3, <1>4, <1>5, <1>6

LEMMA EdgeIs ==
  ASSUME NEW w \in WorldType
  PROVE  Edge(w) \in Nat
BY WorldIs, ThreePaths DEF Edge

LEMMA WellMadeLater ==
  ASSUME HeadSize = 1, NEW w \in WorldType, NEW v \in WorldType, NEW n \in NoteType, WellMade(w, n),
         v.only = w.only, w.end <= v.end, w.only => Edge(w) <= Edge(v),
         w.only \/ n.path # Packed \/ v.inode[Packed] = w.inode[Packed]
  PROVE  WellMade(v, n)
<1>1. w.end \in Nat /\ v.end \in Nat /\ Edge(w) \in Nat /\ Edge(v) \in Nat
  BY WorldIs, EdgeIs
<1>2. n.head # NoHead => n.head[1] \in Nat
  BY NoteIs, HeadsAre
<1>3. n.head # NoHead => n.head[1] < v.end
  BY <1>1, <1>2 DEF WellMade
<1>4. w.only => n.head # NoHead
  BY ThreePaths DEF WellMade
<1>5. w.only => n.head[1] < Edge(v)
  <2>1. w.only => n.head[1] < Edge(w)
    BY DEF WellMade
  <2> QED BY <1>1, <1>2, <1>4, <2>1
<1> QED BY <1>3, <1>5 DEF WellMade

\* The file grows behind what is counted of it.
LEMMA SeenGrows ==
  ASSUME NEW c \in Content, NEW d \in Content, d.from = c.from, c.size <= d.size,
         NEW S \in SUBSET Line, \A l \in S : l <= c.from + c.size
  PROVE  SeenOf(d, S) = SeenOf(c, S) /\ \A upto : Within(d, upto, S) <=> Within(c, upto, S)
<1>1. c.from \in Nat /\ c.size \in Nat /\ d.size \in Nat
  BY ContentIs
<1>2. ASSUME NEW l \in S PROVE l \in AllLines(d) <=> l \in AllLines(c)
  <2>1. l \in Nat /\ l \in Line /\ l <= c.from + c.size
    BY ResumeAssumption DEF Line
  <2> QED BY <1>1, <2>1, LinesAre
<1>3. SeenOf(d, S) = SeenOf(c, S)
  BY <1>2 DEF SeenOf
<1> QED BY <1>3 DEF Within

LEMMA AboutGrows ==
  ASSUME HeadSize = 1, NEW w, NEW v, NEW n \in NoteType, NEW c \in Content, NEW d \in Content, About(w, n, c), WellMade(v, n),
         d.from = c.from, c.size > 0, c.size < d.size, n.path # Rotated
  PROVE  About(v, n, d)
<1>1. c.size \in Nat /\ d.size \in Nat /\ n.size \in Nat
  BY ContentIs, NoteIs
<1>2. HeadOf(d) = HeadOf(c)
  BY <1>1, HeadIs
<1>3. n.size < d.size
  BY <1>1 DEF About
<1> QED BY <1>1, <1>2, <1>3 DEF About

\* Plans stay as they are when files move behind their backs.
LEMMA PlansStay ==
  ASSUME NEW w, NEW v, NEW f, NEW h, NEW g, NEW plans, NEW cur, NEW old, NEW S,
         PlansFit(w, f, g, plans, cur, old, S),
         \A k \in DOMAIN plans : plans[k].path \in Paths /\ plans[k].inode # NoInode,
         \A k \in DOMAIN plans : h[plans[k].inode].from = f[plans[k].inode].from,
         \A k \in DOMAIN plans : v.inode[plans[k].path] \in {plans[k].inode, NoInode},
         \A k \in DOMAIN plans : \A p \in Paths : v.inode[p] = plans[k].inode => w.inode[p] = plans[k].inode,
         On(v, Live), On(w, Packed) => On(v, Packed),
         \A k \in DOMAIN plans :
           w.inode[plans[k].path] = plans[k].inode /\ v.inode[plans[k].path] = plans[k].inode =>
             About(v, Note(plans[k]), h[plans[k].inode]) /\ Within(h[plans[k].inode], plans[k].uoff, S),
         \A k \in DOMAIN plans : \A p \in {Rotated, Packed} :
           On(v, p) /\ EndAt(v, p) <= f[plans[k].inode].from =>
             \/ Settled(v, p, cur, old, S)
             \/ \E j \in DOMAIN plans : j < k /\ (~On(v, plans[j].path) \/ plans[j].path = p)
  PROVE  PlansFit(v, h, g, plans, cur, old, S)
<1> SUFFICES ASSUME NEW k \in DOMAIN plans
      PROVE  LET c == h[plans[k].inode]
             IN /\ plans[k].path \in g /\ PlanFits(v, plans[k], c, cur, S)
                /\ \A j \in DOMAIN plans : j < k => h[plans[j].inode].from < c.from
                /\ \A p \in {Rotated, Packed} : On(v, p) /\ EndAt(v, p) <= c.from =>
                     \/ Settled(v, p, cur, old, S)
                     \/ \E j \in DOMAIN plans : j < k /\ (~On(v, plans[j].path) \/ plans[j].path = p)
  BY DEF PlansFit
<1>1. /\ plans[k].path \in g /\ PlanFits(w, plans[k], f[plans[k].inode], cur, S)
      /\ \A j \in DOMAIN plans : j < k => f[plans[j].inode].from < f[plans[k].inode].from
  BY DEF PlansFit
<1>2. plans[k].path \in Paths
  OBVIOUS
<1>3. PlanFits(v, plans[k], h[plans[k].inode], cur, S)
  <2>1. \A p \in Paths : v.inode[p] = plans[k].inode => p = plans[k].path
    BY <1>1 DEF PlanFits
  <2>2. v.inode[plans[k].path] = plans[k].inode \/ (plans[k].path = Rotated /\ ~On(v, Rotated))
    <3> SUFFICES ASSUME ~On(v, plans[k].path), plans[k].path # Rotated PROVE FALSE
      BY <1>2, ThreePaths DEF On
    <3>1. plans[k].path = Packed
      BY <1>2, ThreePaths
    <3>2. v.inode[Packed] = NoInode /\ w.inode[Packed] = NoInode
      BY <3>1 DEF On
    <3>3. w.inode[Packed] = plans[k].inode
      BY <1>1, <3>1, ThreePaths DEF PlanFits
    <3> QED BY <3>1, <3>2, <3>3 DEF On
  <2>3. ASSUME v.inode[plans[k].path] = plans[k].inode
        PROVE  About(v, Note(plans[k]), h[plans[k].inode]) /\ Within(h[plans[k].inode], plans[k].uoff, S)
    BY <1>2, <2>3
  <2> QED BY <1>1, <2>1, <2>2, <2>3 DEF PlanFits
<1> QED BY <1>1, <1>3

\* What remains to be shown of a move of the files.
LEMMA FilesCovered ==
  ASSUME ResumeInv, CoverInv, UNCHANGED <<glob, dbVars, runVars, targets>>, ResumeInv', written <= written',
         Tidy(World'), Book(World', Current, Former, Seen), Book(World', NextCurrent, NextFormer, SeenNext),
         PlansFit(World', file', glob, todo, NextCurrent, NextFormer, SeenNext),
         active # NoFile => ReadFits(World', file', glob, active, todo, NextCurrent, NextFormer, SeenNext),
         \A r \in Range(pending) :
           r.inode = dir'[Live] /\ file'[dir'[Live]].size > 0 => r.uhead = HeadOf(file'[dir'[Live]])
  PROVE  CoverInv'
<1>1. /\ Current' = Current /\ Former' = Former /\ Seen' = Seen
      /\ NextCurrent' = NextCurrent /\ NextFormer' = NextFormer /\ SeenNext' = SeenNext
      /\ Distinct' = Distinct /\ Once' = Once
  BY NothingStored
<1>2. /\ glob' = glob /\ todo' = todo /\ active' = active /\ pending' = pending /\ acc' = acc /\ pc' = pc
      /\ retired' = retired /\ parseState' = parseState /\ archive' = archive /\ lastLog' = lastLog
      /\ count' = count /\ targets' = targets
  BY DEF dbVars, runVars
<1>3. Tidy(World)' /\ Books'
  BY <1>1 DEF Books
<1>4. Planned'
  BY <1>1, <1>2 DEF Planned
<1>5. Reading'
  BY <1>1, <1>2 DEF Reading
<1>6. Done'
  BY <1>2 DEF CoverInv, Done, At
<1>7. LastSeen'
  <2>1. lastLog \in Nat /\ written \in Nat /\ written' \in Nat /\ \A t \in targets : t \in Nat
    <3>1. MaxLines \in Nat /\ \A t \in Targets : t \in Nat
      BY ResumeAssumption
    <3> QED BY <3>1 DEF ResumeInv, TypeOK
  <2>2. \A l : BeforeTarget(l)' = BeforeTarget(l)
    BY <1>2 DEF BeforeTarget
  <2>3. lastLog <= written' /\ \A t \in targets : t <= written' + 1
    BY <2>1 DEF CoverInv, LastSeen
  <2> QED BY <1>1, <1>2, <2>2, <2>3 DEF CoverInv, LastSeen
<1> QED BY <1>1, <1>3, <1>4, <1>5, <1>6, <1>7 DEF CoverInv

LEMMA CoverParts ==
  ASSUME CoverInv
  PROVE  /\ Tidy(World) /\ Book(World, Current, Former, Seen) /\ Book(World, NextCurrent, NextFormer, SeenNext)
         /\ PlansFit(World, file, glob, todo, NextCurrent, NextFormer, SeenNext)
         /\ active # NoFile => ReadFits(World, file, glob, active, todo, NextCurrent, NextFormer, SeenNext)
         /\ Planned /\ Reading /\ Distinct /\ Done /\ LastSeen /\ Once
BY DEF CoverInv, Books, Planned, Reading

\* What is read, or about to be.
LEMMA ActiveNote ==
  ASSUME TypeOK, Idle, active # NoFile
  PROVE  LET n == Note(active.plan)
             m == Note(RowFor(active, FALSE))
         IN /\ n \in NoteType /\ n.path = active.plan.path /\ n.inode = active.plan.inode
            /\ n.head = active.plan.uhead
            /\ m \in NoteType /\ m.path = n.path /\ m.inode = n.inode /\ m.head = n.head
            /\ m.chead = n.chead /\ m.mtime = n.mtime /\ m.size = n.size
            /\ m.upto = active.at /\ ~m.done
<1>1. active.plan \in Row /\ RowFor(active, FALSE) \in Row
  BY HandIs
<1>2. active.plan.path \in Paths
  BY <1>1 DEF Row
<1>3. LET r == RowFor(active, FALSE)
      IN /\ r.path = active.plan.path /\ r.inode = active.plan.inode /\ r.uhead = active.plan.uhead
         /\ r.chead = active.plan.chead /\ r.mtime = active.plan.mtime
         /\ r.csize = active.plan.csize /\ (r.path # Packed => r.usize = active.plan.usize)
         /\ r.uoff = active.at /\ ~r.completed
  BY <1>1 DEF RowFor, Row, IsCompressed
<1>4. PreviousSize(active.plan.path, RowFor(active, FALSE)) = PreviousSize(active.plan.path, active.plan)
  BY <1>3 DEF PreviousSize, IsCompressed
<1> HIDE DEF Note
<1>5. Note(active.plan).size = PreviousSize(active.plan.path, active.plan)
      /\ Note(RowFor(active, FALSE)).size = PreviousSize(RowFor(active, FALSE).path, RowFor(active, FALSE))
  BY DEF Note
<1> QED BY <1>1, <1>3, <1>4, <1>5, NoteOf

LEMMA InRun ==
  ASSUME ResumeInv
  PROVE  pc # "run" => todo = <<>> /\ active = NoFile /\ pending = <<>> /\ Range(pending) = {} /\ DOMAIN todo = {}
<1>1. pc # "run" => pc = "idle"
  BY DEF ResumeInv, TypeOK
<1>2. pc = "idle" => todo = <<>> /\ active = NoFile /\ pending = <<>>
  BY DEF ResumeInv, Idle
<1>3. pending = <<>> => Range(pending) = {}
  BY DEF Range
<1> QED BY <1>1, <1>2, <1>3

LEMMA WriteLineCovers ==
  ASSUME ResumeInv, CoverInv, Untroubled, WriteLine
  PROVE  CoverInv'
<1> DEFINE w == World
           v == World'
           i == dir[Live]
<1>1. /\ TypeOK /\ Idle /\ Disk /\ HeadSize = 1 /\ Trouble = {} /\ ResumeInv'
      /\ UNCHANGED <<glob, dir, dbVars, runVars, histVars>>
      /\ written' = written + 1
  BY WriteLineKeeps DEF ResumeInv, Untroubled, WriteLine
<1>2. /\ written \in Nat /\ written' \in 0..MaxLines /\ dir' \in [Paths -> Inodes \cup {NoInode}]
      /\ file' \in [Inodes -> Content] /\ i \in Inodes /\ file[i] \in Content /\ file[i] = At(Live)
  BY <1>1, OrderedNumbers DEF ResumeInv, TypeOK, At
<1>3. /\ file'[i].from = file[i].from /\ file'[i].size = file[i].size + 1
      /\ \A j \in Inodes : j # i => file'[j] = file[j]
  BY <1>1, <1>2 DEF WriteLine, TypeOK, Content
<1>4. /\ w \in WorldType /\ v \in WorldType /\ v.only = w.only /\ v.inode = w.inode /\ v.end = w.end + 1
      /\ w.inode = dir /\ w.end = written
      /\ SamePlace(w, v, Rotated) /\ SamePlace(w, v, Packed)
      /\ w.at[Live] = file[i] /\ v.at[Live] = file'[i] /\ On(w, Live) /\ On(v, Live)
  <2>1. \A p \in Paths : dir[p] # NoInode => dir[p] \in Inodes
    BY <1>1 DEF TypeOK
  <2>2. \A p \in Paths : p # Live /\ dir[p] # NoInode => dir[p] # i
    BY <1>1, ThreePaths DEF Disk
  <2>3. ASSUME NEW p \in Paths, p # Live PROVE w.inode[p] = v.inode[p] /\ v.at[p] = w.at[p]
    <3>1. CASE dir[p] = NoInode
      BY <1>1, <1>2, <3>1, ThisWorld, NextWorld
    <3>2. CASE dir[p] # NoInode
      BY <1>1, <1>2, <1>3, <2>1, <2>2, <2>3, <3>2, ThisWorld, NextWorld
    <3> QED BY <3>1, <3>2
  <2>4. SamePlace(w, v, Rotated) /\ SamePlace(w, v, Packed)
    BY <2>3, ThreePaths DEF SamePlace
  <2>5. On(w, Live) /\ On(v, Live) /\ w.at[Live] = file[i] /\ v.at[Live] = file'[i]
    BY <1>1, <1>2, ThisWorld, NextWorld, ThreePaths
  <2> QED BY <1>1, <1>2, <2>4, <2>5, ThisWorld, NextWorld
<1>5. /\ Tidy(w) /\ Book(w, Current, Former, Seen) /\ Book(w, NextCurrent, NextFormer, SeenNext)
      /\ PlansFit(w, file, glob, todo, NextCurrent, NextFormer, SeenNext)
      /\ active # NoFile => ReadFits(w, file, glob, active, todo, NextCurrent, NextFormer, SeenNext)
      /\ Distinct /\ Done /\ Reading
  BY CoverParts
<1>6. /\ Current \in SUBSET NoteType /\ Former \in SUBSET NoteType
      /\ NextCurrent \in SUBSET NoteType /\ NextFormer \in SUBSET NoteType
      /\ Seen \in SUBSET Line /\ SeenNext \in SUBSET Line
  BY TablesTyped
<1>7. pc = "run" => file[i].size > 0
  BY <1>1, <1>2 DEF WriteLine
<1> HIDE DEF w, v
<1>8. ASSUME NEW n \in Current \cup Former, n.inode = w.inode[Live], n.head # NoHead, n.head # HeadAt(w, Live)
      PROVE  n.size > w.at[Live].size + 1
  <2>1. PICK r \in parseState \cup archive : n = Note(r)
    BY <1>5, NextNotes
  <2>2. r \in Row
    BY <1>1 DEF TypeOK
  <2>3. n.path = Live
    BY <1>5, <1>8, BookParts DEF LiveRows
  <2>4. r.inode = i /\ r.uhead # NoHead /\ n.size = r.usize /\ r.usize \in Nat /\ r.uhead \in HeadType /\ n.head = r.uhead
    BY <1>4, <1>8, <2>1, <2>2, <2>3, NoteOf, NoteIs, ThreePaths DEF Row
  <2>5. r.uhead[1] # file[i].from
    <3>1. CASE file[i].size # 0
      BY <1>1, <1>2, <1>4, <1>8, <2>4, <3>1, SameHeads DEF HeadAt
    <3>2. CASE file[i].size = 0
      <4>1. r.uhead[1] < w.end
        BY <1>5, <1>8, <2>4, BookParts DEF WellMade
      <4>2. w.end = file[i].from + 0
        BY <1>4, <1>5, <3>2 DEF Tidy, EndAt, EndOfAll
      <4>3. r.uhead[1] \in Nat /\ file[i].from \in Nat
        BY <1>1, <1>2, <2>4, SameHeads, ContentIs
      <4> QED BY <4>1, <4>2, <4>3
    <3> QED BY <3>1, <3>2
  <2>6. ~(file[i].size + 1 >= r.usize)
    BY <1>1, <2>4, <2>5 DEF WriteLine, Outgrows
  <2>7. file[i].size \in Nat
    BY <1>2, ContentIs
  <2> QED BY <1>4, <2>4, <2>6, <2>7
<1>9. ASSUME NEW n \in NextCurrent \cup NextFormer, n.inode = w.inode[Live], n.head # NoHead, n.head # HeadAt(w, Live)
      PROVE  n.size > w.at[Live].size + 1
  <2>1. n \notin Storing
    <3> SUFFICES ASSUME n \in Storing PROVE FALSE
      OBVIOUS
    <3>1. pc = "run"
      <4>1. pc # "run" => Storing = {}
        BY InRun DEF Storing, Notes
      <4> QED BY <4>1
    <3>2. CASE \E r \in Range(pending) : n = Note(r)
      <4>1. PICK r \in Range(pending) : n = Note(r)
        BY <3>2
      <4>2. r \in Row
        BY <1>1, HandIs
      <4>3. r.inode = dir[Live] /\ n.head = r.uhead
        BY <1>4, <1>9, <4>1, <4>2, NoteOf
      <4>4. r.uhead = HeadOf(At(Live))
        BY <1>2, <1>5, <1>7, <3>1, <4>3 DEF Done
      <4> QED BY <1>2, <1>4, <1>9, <4>3, <4>4 DEF HeadAt
    <3>3. CASE active # NoFile /\ n = Note(RowFor(active, FALSE))
      <4>1. n.head = Note(active.plan).head /\ n.inode = active.plan.inode
        BY <1>1, <3>3, ActiveNote
      <4>2. active.plan.inode = active.inode /\ Note(active.plan).head = HeadOf(file[active.inode])
        BY <1>5, <3>3 DEF ReadFits, About
      <4> QED BY <1>4, <1>9, <4>1, <4>2 DEF HeadAt
    <3> QED BY <1>5, <3>2, <3>3, NextNotes
  <2>2. n \in Current \cup Former
    BY <1>5, <2>1, NextNotes
  <2> QED BY <1>8, <1>9, <2>2
<1>10. Tidy(v) /\ Book(v, Current, Former, Seen)
  BY <1>1, <1>3, <1>4, <1>5, <1>6, <1>8, BookGrows
<1>11. Book(v, NextCurrent, NextFormer, SeenNext)
  BY <1>1, <1>3, <1>4, <1>5, <1>6, <1>9, BookGrows
<1>12. \A p \in {Rotated, Packed} : /\ On(v, p) = On(w, p) /\ EndAt(v, p) = EndAt(w, p)
                                    /\ \A S : Settled(v, p, NextCurrent, NextFormer, S) = Settled(w, p, NextCurrent, NextFormer, S)
  <2>1. ASSUME NEW p \in {Rotated, Packed}, NEW S
        PROVE  /\ On(v, p) = On(w, p) /\ EndAt(v, p) = EndAt(w, p)
               /\ SeenAt(v, p, S) = SeenAt(w, p, S) /\ HasOwn(v, p, NextCurrent) = HasOwn(w, p, NextCurrent)
               /\ p = Packed => ReadRotated(v, NextCurrent, NextFormer, S) = ReadRotated(w, NextCurrent, NextFormer, S)
    BY <1>4, SamePlaceIs
  <2> QED BY <2>1 DEF Settled
<1>13. ASSUME NEW n \in NoteType, WellMade(w, n) PROVE WellMade(v, n)
  <2>1. Edge(v) = Edge(w) /\ Edge(w) \in Nat /\ w.end \in Nat
    <3>1. Edge(v) = Edge(w)
      BY <1>3, <1>4, SamePlaceIs DEF Edge, SamePlace
    <3> QED BY <1>4, <3>1, EdgeIs, WorldIs
  <2> QED BY <1>1, <1>4, <1>13, <2>1, WellMadeLater
<1>14. ASSUME NEW n \in NoteType, NEW j \in Inodes, pc = "run", About(w, n, file[j]), n.path = Rotated => j # i
       PROVE  About(v, n, file'[j]) /\ \A upto : Within(file[j], upto, SeenNext) => Within(file'[j], upto, SeenNext)
  <2>1. WellMade(v, n)
    BY <1>13, <1>14 DEF About
  <2>2. CASE j # i
    BY <1>3, <1>14, <2>1, <2>2 DEF About
  <2>3. CASE j = i
    <3>1. file[i].size > 0 /\ file[i].size \in Nat /\ file'[i] \in Content
      BY <1>2, <1>7, <1>14, ContentIs
    <3>2. About(v, n, file'[j])
      BY <1>1, <1>2, <1>3, <1>14, <2>1, <2>3, <3>1, AboutGrows
    <3>3. \A l \in SeenNext : l <= file[i].from + file[i].size
      <4>1. \A l \in SeenNext : l <= w.end
        BY <1>5, BookParts DEF Counted
      <4> QED BY <1>4, <1>5, <4>1 DEF Tidy, EndAt, EndOfAll
    <3>4. \A upto : Within(file'[i], upto, SeenNext) <=> Within(file[i], upto, SeenNext)
      <4>1. file'[i].from = file[i].from /\ file[i].size <= file'[i].size
        BY <1>3, <3>1
      <4> HIDE DEF i
      <4> QED BY <1>2, <1>6, <3>1, <3>3, <4>1, SeenGrows
    <3> QED BY <2>3, <3>2, <3>4
  <2> QED BY <2>2, <2>3
<1>15. PlansFit(v, file', glob, todo, NextCurrent, NextFormer, SeenNext)
  <2>1. ASSUME NEW k \in DOMAIN todo
        PROVE  /\ todo[k] \in Row /\ pc = "run" /\ todo[k].path \in Paths /\ todo[k].inode \in Inodes
               /\ todo[k].inode # NoInode /\ PlanFits(w, todo[k], file[todo[k].inode], NextCurrent, SeenNext)
               /\ Note(todo[k]) \in NoteType /\ Note(todo[k]).path = todo[k].path
    <3>1. todo[k] \in Row
      BY <1>1, HandIs
    <3>2. PlanFits(w, todo[k], file[todo[k].inode], NextCurrent, SeenNext)
      BY <1>5 DEF PlansFit
    <3> QED BY <3>1, <3>2, InRun, NoteOf, ThreePaths DEF Row
  <2>2. ASSUME NEW k \in DOMAIN todo
        PROVE  /\ file'[todo[k].inode].from = file[todo[k].inode].from
               /\ v.inode[todo[k].path] \in {todo[k].inode, NoInode}
    BY <1>3, <1>4, <2>1 DEF PlanFits, On
  <2>3. ASSUME NEW k \in DOMAIN todo, w.inode[todo[k].path] = todo[k].inode
        PROVE  About(v, Note(todo[k]), file'[todo[k].inode]) /\ Within(file'[todo[k].inode], todo[k].uoff, SeenNext)
    <3>1. About(w, Note(todo[k]), file[todo[k].inode]) /\ Within(file[todo[k].inode], todo[k].uoff, SeenNext)
      BY <2>1, <2>3 DEF PlanFits
    <3>2. todo[k].path = Rotated => todo[k].inode # i
      BY <1>4, <2>1, ThreePaths DEF PlanFits
    <3> QED BY <1>14, <2>1, <3>1, <3>2
  <2>4. ASSUME NEW k \in DOMAIN todo, NEW p \in {Rotated, Packed}, On(v, p), EndAt(v, p) <= file[todo[k].inode].from
        PROVE  \/ Settled(v, p, NextCurrent, NextFormer, SeenNext)
               \/ \E j \in DOMAIN todo : j < k /\ (~On(v, todo[j].path) \/ todo[j].path = p)
    <3>1. \/ Settled(w, p, NextCurrent, NextFormer, SeenNext)
          \/ \E j \in DOMAIN todo : j < k /\ (~On(w, todo[j].path) \/ todo[j].path = p)
      BY <1>5, <1>12, <2>4 DEF PlansFit
    <3> QED BY <1>4, <1>12, <3>1 DEF On
  <2> QED BY <1>4, <1>5, <2>1, <2>2, <2>3, <2>4, PlansStay DEF On
<1>16. ASSUME active # NoFile
       PROVE  ReadFits(v, file', glob, active, todo, NextCurrent, NextFormer, SeenNext)
  <2>1. /\ ReadFits(w, file, glob, active, todo, NextCurrent, NextFormer, SeenNext)
        /\ active.inode \in Inodes /\ pc = "run" /\ Note(active.plan) \in NoteType
        /\ Note(active.plan).path = active.plan.path
    BY <1>1, <1>5, <1>16, HandIs, ActiveNote, ActiveIs
  <2>2. \A j \in Inodes : file'[j].from = file[j].from
    BY <1>3
  <2>3. \A k \in DOMAIN todo : todo[k].inode \in Inodes
    BY <1>1, HandIs DEF Row
  <2>4. active.plan.path = Rotated => active.inode # i
    <3> SUFFICES ASSUME active.plan.path = Rotated, active.inode = w.inode[Live] PROVE FALSE
      BY <1>4
    <3>1. w.inode[Rotated] # w.inode[Live]
      BY <1>4, <1>5, ThreePaths DEF Tidy
    <3> QED BY <2>1, <3>1, ThreePaths DEF ReadFits, Placed
  <2>5. /\ About(v, Note(active.plan), file'[active.inode])
        /\ Within(file'[active.inode], active.at, SeenNext)
    BY <1>14, <2>1, <2>4 DEF ReadFits
  <2>6. SettledBefore(v, file'[active.inode].from, NextCurrent, NextFormer, SeenNext)
    BY <1>12, <2>1, <2>2 DEF ReadFits, SettledBefore
  <2>7. Placed(v, active.plan.path, active.inode, file'[active.inode])
    <3>1. Edge(v) = Edge(w)
      BY <1>3, <1>4, SamePlaceIs DEF Edge, SamePlace
    <3>2. v.inode = w.inode /\ v.only = w.only /\ v.at[Packed] = w.at[Packed] /\ On(v, Packed) = On(w, Packed)
      BY <1>4, <1>12 DEF SamePlace
    <3>3. active.inode # i => file'[active.inode] = file[active.inode]
      BY <1>3, <2>1
    <3>4. Placed(w, active.plan.path, active.inode, file[active.inode])
      BY <2>1 DEF ReadFits
    <3> QED BY <1>4, <3>1, <3>2, <3>3, <3>4, ThreePaths DEF Placed
  <2> QED BY <2>1, <2>2, <2>3, <2>5, <2>6, <2>7 DEF ReadFits
<1>17. \A r \in Range(pending) :
         r.inode = dir'[Live] /\ file'[dir'[Live]].size > 0 => r.uhead = HeadOf(file'[dir'[Live]])
  <2> SUFFICES ASSUME NEW r \in Range(pending), r.inode = i PROVE r.uhead = HeadOf(file'[i])
    BY <1>1
  <2>1. pc = "run"
    BY InRun
  <2>2. r.uhead = HeadOf(file[i])
    BY <1>2, <1>5, <1>7, <2>1 DEF Done
  <2>3. HeadOf(file'[i]) = HeadOf(file[i])
    <3>1. file[i].size # 0 /\ file'[i].size # 0 /\ file'[i] \in Content
      BY <1>2, <1>3, <1>7, <2>1, ContentIs
    <3> QED BY <1>1, <1>2, <1>3, <3>1, HeadIs
  <2> QED BY <2>2, <2>3
<1>18. written <= written' /\ UNCHANGED <<glob, dbVars, runVars, targets>>
  BY <1>1, <1>2 DEF histVars
<1> QED BY <1>1, <1>10, <1>11, <1>15, <1>16, <1>17, <1>18, FilesCovered DEF v

\* A plan, and the file that is read, as the invariant has them.
LEMMA PlanIs ==
  ASSUME ResumeInv, CoverInv, NEW k \in DOMAIN todo
  PROVE  /\ todo[k] \in Row /\ pc = "run" /\ todo[k].path \in Paths /\ todo[k].inode \in Inodes
         /\ todo[k].inode # NoInode /\ todo[k].path \in glob
         /\ PlanFits(World, todo[k], file[todo[k].inode], NextCurrent, SeenNext)
         /\ Note(todo[k]) \in NoteType /\ Note(todo[k]).path = todo[k].path
<1>1. TypeOK /\ Idle
  BY DEF ResumeInv
<1>2. todo[k] \in Row
  BY <1>1, HandIs
<1>3. todo[k].path \in glob /\ PlanFits(World, todo[k], file[todo[k].inode], NextCurrent, SeenNext)
  BY CoverParts DEF PlansFit
<1> QED BY <1>2, <1>3, InRun, NoteOf, ThreePaths DEF Row

LEMMA ReadingIs ==
  ASSUME ResumeInv, CoverInv, active # NoFile
  PROVE  /\ ReadFits(World, file, glob, active, todo, NextCurrent, NextFormer, SeenNext)
         /\ active.inode \in Inodes /\ active.inode # NoInode /\ pc = "run" /\ active.plan.path \in Paths
         /\ Note(active.plan) \in NoteType /\ Note(active.plan).path = active.plan.path
         /\ \A k \in DOMAIN todo : todo[k].inode \in Inodes
         /\ active.plan.inode = active.inode
<1>1. TypeOK /\ Idle
  BY DEF ResumeInv
<1>2. /\ active.inode \in Inodes /\ pc = "run" /\ active.plan \in Row
      /\ Note(active.plan) \in NoteType /\ Note(active.plan).path = active.plan.path
      /\ \A k \in DOMAIN todo : todo[k].inode \in Inodes
  BY <1>1, HandIs, ActiveNote, ActiveIs DEF Row
<1>3. ReadFits(World, file, glob, active, todo, NextCurrent, NextFormer, SeenNext)
  BY CoverParts
<1> QED BY <1>2, <1>3, ThreePaths DEF Row, ReadFits

LEMMA RenameCovers ==
  ASSUME ResumeInv, CoverInv, Untroubled, Rename
  PROVE  CoverInv'
<1> DEFINE w == World
           v == World'
<1>1. /\ TypeOK /\ Idle /\ Disk /\ HeadSize = 1 /\ Trouble = {} /\ ResumeInv' /\ Disturb
      /\ UNCHANGED <<glob, written, dbVars, runVars, targets, rollbacks, crashes>>
      /\ dir[Rotated] = NoInode /\ At(Live).size > 0
  BY RenameKeeps DEF ResumeInv, Untroubled, Rename
<1>2. PICK i \in Inodes : /\ IsFresh(i)
                          /\ dir' = [dir EXCEPT ![Rotated] = dir[Live], ![Live] = i]
                          /\ file' = [file EXCEPT ![i] = Empty(written)]
  BY DEF Rename
<1>3. /\ written' \in 0..MaxLines /\ dir' \in [Paths -> Inodes \cup {NoInode}] /\ file' \in [Inodes -> Content]
      /\ written \in Nat /\ dir[Live] \in Inodes /\ dir[Live] # NoInode /\ i # NoInode
  BY <1>1, OrderedNumbers, ThreePaths DEF ResumeInv, TypeOK
<1>4. dir'[Live] = i /\ dir'[Rotated] = dir[Live] /\ dir'[Packed] = dir[Packed]
  BY <1>1, <1>2, ThreePaths DEF TypeOK
<1>5. file'[i] = Empty(written) /\ \A j \in Inodes : j # i => file'[j] = file[j]
  BY <1>1, <1>2 DEF TypeOK
<1>6. /\ Tidy(w) /\ Book(w, Current, Former, Seen) /\ Book(w, NextCurrent, NextFormer, SeenNext)
      /\ PlansFit(w, file, glob, todo, NextCurrent, NextFormer, SeenNext)
      /\ Distinct /\ Done /\ Reading
  BY CoverParts
<1>7. /\ IsNewInode(w, i, Current, Former) /\ IsNewInode(w, i, NextCurrent, NextFormer)
      /\ \A k \in DOMAIN todo : todo[k].inode # i
      /\ active # NoFile => active.inode # i
      /\ \A r \in Range(pending) : r.inode # i
      /\ \A p \in Paths : dir[p] # i
  BY <1>1, <1>2, <1>6, FreshFile, FreshIs
<1>8. /\ w \in WorldType /\ v \in WorldType /\ v.only = w.only /\ v.end = w.end /\ w.inode = dir /\ v.inode = dir'
      /\ SamePlace(w, v, Packed) /\ ~On(w, Rotated) /\ w.at[Live].size > 0
      /\ v.inode[Live] = i /\ v.at[Live] = Empty(w.end)
      /\ v.inode[Rotated] = w.inode[Live] /\ v.at[Rotated] = w.at[Live] /\ w.at[Live] = file[dir[Live]]
  <2>1. SamePlace(w, v, Packed)
    <3>1. CASE dir[Packed] = NoInode
      BY <1>1, <1>3, <1>4, <3>1, ThisWorld, NextWorld, ThreePaths DEF SamePlace
    <3>2. CASE dir[Packed] # NoInode
      BY <1>1, <1>3, <1>4, <1>5, <1>7, <3>2, ThisWorld, NextWorld, ThreePaths DEF SamePlace
    <3> QED BY <3>1, <3>2
  <2>2. w.at[Live] = file[dir[Live]] /\ w.at[Live] = At(Live)
    BY <1>1, <1>3, ThisWorld, ThreePaths
  <2>3. v.at[Live] = Empty(w.end)
    BY <1>1, <1>3, <1>4, <1>5, ThisWorld, NextWorld, ThreePaths
  <2>4. v.at[Rotated] = w.at[Live]
    BY <1>3, <1>4, <1>5, <1>7, <2>2, NextWorld, ThreePaths
  <2> QED BY <1>1, <1>3, <1>4, <2>1, <2>2, <2>3, <2>4, ThisWorld, NextWorld, ThreePaths
<1>9. /\ Current \in SUBSET NoteType /\ Former \in SUBSET NoteType
      /\ NextCurrent \in SUBSET NoteType /\ NextFormer \in SUBSET NoteType
      /\ Seen \in SUBSET Line /\ SeenNext \in SUBSET Line
  BY TablesTyped
<1> HIDE DEF w, v
<1>10. Tidy(v) /\ Book(v, Current, Former, Seen)
  BY <1>1, <1>6, <1>7, <1>8, <1>9, BookRenames
<1>11. Book(v, NextCurrent, NextFormer, SeenNext)
  BY <1>1, <1>6, <1>7, <1>8, <1>9, BookRenames
<1>12. Settled(v, Rotated, NextCurrent, NextFormer, SeenNext)
  <2>1. SeenAt(w, Live, SeenNext) => HasOwn(w, Live, NextCurrent)
    BY <1>6, BookParts DEF CoveredLive, OwnCovers
  <2>2. On(w, Live)
    BY <1>6 DEF Tidy
  <2> QED BY <1>8, <2>1, <2>2 DEF Settled, SeenAt, HasOwn
<1>13. /\ On(v, Packed) = On(w, Packed) /\ EndAt(v, Packed) = EndAt(w, Packed) /\ Edge(v) = Edge(w)
       /\ Settled(v, Packed, NextCurrent, NextFormer, SeenNext) = Settled(w, Packed, NextCurrent, NextFormer, SeenNext)
  <2>1. /\ On(v, Packed) = On(w, Packed) /\ EndAt(v, Packed) = EndAt(w, Packed)
        /\ SeenAt(v, Packed, SeenNext) = SeenAt(w, Packed, SeenNext)
        /\ HasOwn(v, Packed, NextCurrent) = HasOwn(w, Packed, NextCurrent)
        /\ ReadRotated(v, NextCurrent, NextFormer, SeenNext) = ReadRotated(w, NextCurrent, NextFormer, SeenNext)
    BY <1>8, SamePlaceIs
  <2>2. On(v, Rotated)
    BY <1>3, <1>4, <1>8 DEF On
  <2>3. Edge(v) = Edge(w)
    BY <1>8, <2>2 DEF Edge
  <2> QED BY <2>1, <2>3 DEF Settled
<1>14. ASSUME NEW n \in NoteType, NEW c, About(w, n, c) PROVE About(v, n, c)
  <2>1. WellMade(v, n)
    BY <1>8, <1>13, <1>14 DEF About, WellMade, SamePlace
  <2> QED BY <1>14, <2>1 DEF About
<1>15. PlansFit(v, file', glob, todo, NextCurrent, NextFormer, SeenNext)
  <2>1. ASSUME NEW k \in DOMAIN todo
        PROVE  /\ todo[k].path \in Paths /\ todo[k].inode # NoInode
               /\ file'[todo[k].inode] = file[todo[k].inode]
               /\ v.inode[todo[k].path] \in {todo[k].inode, NoInode}
    BY <1>1, <1>5, <1>7, <1>8, PlanIs, NotSwapped
  <2>2. ASSUME NEW k \in DOMAIN todo, NEW p \in Paths, v.inode[p] = todo[k].inode
        PROVE  w.inode[p] = todo[k].inode
    <3>1. CASE p = Live
      BY <1>7, <1>8, <2>2, <3>1
    <3>2. CASE p = Rotated
      <4>1. w.inode[Live] = todo[k].inode
        BY <1>8, <2>2, <3>2
      <4>2. todo[k].path = Live
        BY <4>1, PlanIs, ThreePaths DEF PlanFits, w
      <4> QED BY <1>3, <1>7, <1>8, <2>1, <4>2
    <3>3. CASE p = Packed
      BY <1>4, <1>8, <2>2, <3>3
    <3> QED BY <3>1, <3>2, <3>3, ThreePaths
  <2>3. ASSUME NEW k \in DOMAIN todo, w.inode[todo[k].path] = todo[k].inode
        PROVE  About(v, Note(todo[k]), file'[todo[k].inode]) /\ Within(file'[todo[k].inode], todo[k].uoff, SeenNext)
    BY <1>14, <2>1, <2>3, PlanIs DEF PlanFits, w
  <2>4. ASSUME NEW k \in DOMAIN todo, NEW p \in {Rotated, Packed}, On(v, p), EndAt(v, p) <= file[todo[k].inode].from
        PROVE  \/ Settled(v, p, NextCurrent, NextFormer, SeenNext)
               \/ \E j \in DOMAIN todo : j < k /\ (~On(v, todo[j].path) \/ todo[j].path = p)
    <3>1. CASE p = Rotated
      BY <1>12, <3>1
    <3>2. CASE p = Packed
      <4>1. \/ Settled(w, p, NextCurrent, NextFormer, SeenNext)
            \/ \E j \in DOMAIN todo : j < k /\ (~On(w, todo[j].path) \/ todo[j].path = p)
        BY <1>6, <1>13, <2>4, <3>2 DEF PlansFit
      <4>2. \A j \in DOMAIN todo : ~On(w, todo[j].path) => ~On(v, todo[j].path)
        <5> SUFFICES ASSUME NEW j \in DOMAIN todo, On(v, todo[j].path) PROVE On(w, todo[j].path)
          OBVIOUS
        <5>1. v.inode[todo[j].path] = todo[j].inode
          BY <2>1 DEF On
        <5> QED BY <2>1, <2>2, <5>1 DEF On
      <4> QED BY <1>13, <3>2, <4>1, <4>2
    <3> QED BY <3>1, <3>2
  <2>5. On(v, Live) /\ (On(w, Packed) => On(v, Packed))
    BY <1>3, <1>8, <1>13 DEF On
  <2> QED BY <1>6, <2>1, <2>2, <2>3, <2>4, <2>5, PlansStay
<1>16. ASSUME active # NoFile
       PROVE  ReadFits(v, file', glob, active, todo, NextCurrent, NextFormer, SeenNext)
  <2>1. /\ ReadFits(w, file, glob, active, todo, NextCurrent, NextFormer, SeenNext)
        /\ active.inode \in Inodes /\ active.inode # NoInode /\ Note(active.plan) \in NoteType
        /\ \A k \in DOMAIN todo : todo[k].inode \in Inodes
        /\ active.plan.path \in Paths
    BY <1>16, ReadingIs DEF w
  <2>2. file'[active.inode] = file[active.inode] /\ \A k \in DOMAIN todo : file'[todo[k].inode] = file[todo[k].inode]
    BY <1>5, <1>7, <1>16, <2>1
  <2>3. About(v, Note(active.plan), file[active.inode])
    BY <1>14, <2>1 DEF ReadFits
  <2>4. SettledBefore(v, file[active.inode].from, NextCurrent, NextFormer, SeenNext)
    BY <1>12, <1>13, <2>1 DEF ReadFits, SettledBefore
  <2>5. Placed(v, active.plan.path, active.inode, file[active.inode])
    <3>1. v.at[Packed] = w.at[Packed] /\ v.inode[Packed] = w.inode[Packed] /\ w.inode[Rotated] = NoInode
      BY <1>8 DEF SamePlace, On
    <3>2. Placed(w, active.plan.path, active.inode, file[active.inode])
      BY <2>1 DEF ReadFits
    <3>3. CASE w.inode[active.plan.path] = active.inode
      BY <1>8, <2>1, <3>1, <3>3, ThreePaths DEF Placed
    <3>4. CASE w.inode[Rotated] = active.inode
      BY <2>1, <3>1, <3>4
    <3>5. CASE /\ w.only /\ \A p \in Paths : w.inode[p] # active.inode
               /\ EndOfAll(file[active.inode]) <= Edge(w)
               /\ (On(w, Packed) => EndOfAll(file[active.inode]) <= w.at[Packed].from)
      <4>1. \A p \in Paths : v.inode[p] # active.inode
        BY <1>7, <1>8, <1>16, <3>1, <3>5, ThreePaths
      <4> QED BY <1>8, <1>13, <3>1, <3>5, <4>1 DEF Placed
    <3> QED BY <3>2, <3>3, <3>4, <3>5 DEF Placed
  <2> QED BY <2>1, <2>2, <2>3, <2>4, <2>5 DEF ReadFits
<1>17. \A r \in Range(pending) : r.inode # dir'[Live]
  BY <1>4, <1>7
<1>18. written <= written' /\ UNCHANGED <<glob, dbVars, runVars, targets>>
  BY <1>1, <1>3
<1> QED BY <1>1, <1>10, <1>11, <1>15, <1>16, <1>17, <1>18, FilesCovered DEF v

LEMMA CopyTruncateCovers ==
  ASSUME ResumeInv, CoverInv, Untroubled, CopyTruncate
  PROVE  CoverInv'
<1> DEFINE w == World
           v == World'
           e == dir[Live]
<1>1. /\ TypeOK /\ Idle /\ Disk /\ HeadSize = 1 /\ Trouble = {} /\ ResumeInv' /\ Disturb
      /\ UNCHANGED <<glob, written, dbVars, runVars, targets, rollbacks, crashes>>
      /\ dir[Rotated] = NoInode /\ At(Live).size > 0
      /\ \A r \in parseState \cup Range(pending) \cup Range(todo) : r.path # Rotated
      /\ Globs \subseteq {Paths, {Packed}}
  BY CopyTruncateKeeps DEF ResumeInv, Untroubled, CopyTruncate
<1>2. PICK i \in Inodes : /\ IsFresh(i)
                          /\ dir' = [dir EXCEPT ![Rotated] = i]
                          /\ file' = [file EXCEPT ![i] = [At(Live) EXCEPT !.mtime = written + 1],
                                                  ![dir[Live]] = Empty(written)]
  BY DEF CopyTruncate
<1>3. /\ written' \in 0..MaxLines /\ dir' \in [Paths -> Inodes \cup {NoInode}] /\ file' \in [Inodes -> Content]
      /\ written \in Nat /\ e \in Inodes /\ e # NoInode /\ i # NoInode /\ At(Live) \in Content /\ At(Live) = file[e]
  BY <1>1, OrderedNumbers, ThreePaths DEF ResumeInv, TypeOK, At
<1>4. dir'[Rotated] = i /\ dir'[Live] = e /\ dir'[Packed] = dir[Packed]
  BY <1>1, <1>2, ThreePaths DEF TypeOK
<1>5. /\ Tidy(w) /\ Book(w, Current, Former, Seen) /\ Book(w, NextCurrent, NextFormer, SeenNext)
      /\ PlansFit(w, file, glob, todo, NextCurrent, NextFormer, SeenNext)
      /\ Distinct /\ Done /\ Reading
  BY CoverParts
<1>6. /\ IsNewInode(w, i, Current, Former) /\ IsNewInode(w, i, NextCurrent, NextFormer)
      /\ \A k \in DOMAIN todo : todo[k].inode # i
      /\ active # NoFile => active.inode # i
      /\ \A p \in Paths : dir[p] # i
  BY <1>1, <1>2, <1>5, FreshFile, FreshIs
<1>7. /\ file'[i] = [At(Live) EXCEPT !.mtime = written + 1] /\ file'[e] = Empty(written)
      /\ \A j \in Inodes : j # i /\ j # e => file'[j] = file[j]
  <2>1. i # e
    BY <1>6, ThreePaths
  <2> QED BY <1>1, <1>2, <1>3, <2>1 DEF TypeOK
<1>8. /\ w \in WorldType /\ v \in WorldType /\ v.only = w.only /\ v.end = w.end /\ w.inode = dir /\ v.inode = dir'
      /\ SamePlace(w, v, Packed) /\ ~On(w, Rotated) /\ w.at[Live].size > 0
      /\ v.inode[Live] = w.inode[Live] /\ v.at[Live] = Empty(w.end)
      /\ v.inode[Rotated] = i /\ w.at[Live] = file[e]
      /\ v.at[Rotated].from = w.at[Live].from /\ v.at[Rotated].size = w.at[Live].size
      /\ w.end = written /\ w.only = (glob = {Packed})
  <2>1. SamePlace(w, v, Packed)
    <3>1. CASE dir[Packed] = NoInode
      BY <1>1, <1>3, <1>4, <3>1, ThisWorld, NextWorld, ThreePaths DEF SamePlace
    <3>2. CASE dir[Packed] # NoInode
      <4>1. dir[Packed] # e /\ dir[Packed] # i /\ dir[Packed] \in Inodes
        BY <1>1, <1>6, <3>2, ThreePaths DEF Disk, TypeOK
      <4> QED BY <1>1, <1>3, <1>4, <1>7, <3>2, <4>1, ThisWorld, NextWorld, ThreePaths DEF SamePlace
    <3> QED BY <3>1, <3>2
  <2>2. w.at[Live] = file[e] /\ w.at[Live] = At(Live)
    BY <1>1, <1>3, ThisWorld, ThreePaths
  <2>3. v.at[Live] = Empty(w.end)
    BY <1>1, <1>3, <1>4, <1>7, ThisWorld, NextWorld, ThreePaths
  <2>4. v.at[Rotated] = file'[i]
    BY <1>3, <1>4, NextWorld, ThreePaths
  <2>5. file'[i].from = At(Live).from /\ file'[i].size = At(Live).size
    BY <1>3, <1>7 DEF Content
  <2>6. w.end = written /\ w.only = (glob = {Packed}) /\ w.inode = dir /\ w \in WorldType
    BY <1>1, ThisWorld
  <2>7. v.end = written' /\ v.only = (glob' = {Packed}) /\ v.inode = dir' /\ v \in WorldType
    BY <1>3, NextWorld
  <2>8. ~On(w, Rotated)
    BY <1>1, <2>6 DEF On
  <2> QED BY <1>1, <1>4, <2>1, <2>2, <2>3, <2>4, <2>5, <2>6, <2>7, <2>8
<1>9. /\ Current \in SUBSET NoteType /\ Former \in SUBSET NoteType
      /\ NextCurrent \in SUBSET NoteType /\ NextFormer \in SUBSET NoteType
      /\ Seen \in SUBSET Line /\ SeenNext \in SUBSET Line
      /\ Paired(Current) /\ Paired(NextCurrent)
  BY <1>5, TablesTyped, TablesPaired
<1> HIDE DEF w, v
<1>10. /\ On(w, Live) /\ EndAt(w, Live) = w.end /\ w.at[Live].from \in Nat /\ w.at[Live].from < w.end /\ w.end \in Nat
       /\ On(v, Rotated) /\ EndAt(v, Rotated) = w.end
       /\ Edge(w) = w.at[Live].from /\ Edge(v) = Edge(w)
       /\ \A p \in Paths : w.at[p].from \in Nat /\ w.at[p].size \in Nat /\ EndAt(w, p) = w.at[p].from + w.at[p].size
  <2>1. On(w, Live) /\ EndAt(w, Live) = w.end
    BY <1>5 DEF Tidy
  <2>2. /\ w.end \in Nat
        /\ \A p \in Paths : w.at[p].from \in Nat /\ w.at[p].size \in Nat /\ EndAt(w, p) = w.at[p].from + w.at[p].size
    BY <1>8, WorldIs
  <2>3. On(v, Rotated) /\ EndAt(v, Rotated) = w.end
    BY <1>3, <1>8, <2>1 DEF On, EndAt, EndOfAll
  <2>4. Edge(w) = w.at[Live].from /\ Edge(v) = Edge(w)
    BY <1>8, <2>3 DEF Edge
  <2> QED BY <1>8, <2>1, <2>2, <2>3, <2>4, ThreePaths
<1>11. ASSUME NEW j \in Inodes, file'[j].from = file[j].from PROVE j # e
  <2>1. Empty(written).from = written
    BY <1>1, OrderedNumbers, EmptyIs
  <2> QED BY <1>7, <1>8, <1>10, <1>11, <2>1
<1>12. ASSUME NEW k \in DOMAIN todo
       PROVE  /\ todo[k].path \in Paths /\ todo[k].inode # NoInode /\ todo[k].path # Rotated
              /\ file'[todo[k].inode] = file[todo[k].inode] /\ todo[k].inode # e
              /\ v.inode[todo[k].path] \in {todo[k].inode, NoInode}
              /\ todo[k].path = Packed /\ w.inode[Packed] = todo[k].inode
  <2>1. /\ todo[k].path \in Paths /\ todo[k].inode \in Inodes /\ todo[k].inode # NoInode
        /\ PlanFits(w, todo[k], file[todo[k].inode], NextCurrent, SeenNext)
    BY PlanIs DEF w
  <2>2. todo[k].path # Rotated
    BY <1>1, HandIs
  <2>3. file'[todo[k].inode].from = file[todo[k].inode].from /\ v.inode[todo[k].path] \in {todo[k].inode, NoInode}
    BY <1>1, <1>8, NotSwapped
  <2>4. todo[k].inode # e
    BY <1>11, <2>1, <2>3
  <2>5. file'[todo[k].inode] = file[todo[k].inode]
    BY <1>6, <1>7, <2>1, <2>4
  <2>6. todo[k].path = Packed /\ w.inode[Packed] = todo[k].inode
    BY <1>8, <2>1, <2>2, <2>4, ThreePaths DEF PlanFits
  <2> QED BY <2>1, <2>2, <2>3, <2>4, <2>5, <2>6
<1>13. ASSUME active # NoFile
       PROVE  /\ ReadFits(w, file, glob, active, todo, NextCurrent, NextFormer, SeenNext)
              /\ active.inode \in Inodes /\ active.inode # NoInode /\ Note(active.plan) \in NoteType
              /\ \A k \in DOMAIN todo : todo[k].inode \in Inodes
              /\ active.plan.path \in Paths /\ active.plan.path # Rotated
              /\ file'[active.inode] = file[active.inode] /\ active.inode # e
  <2>1. /\ ReadFits(w, file, glob, active, todo, NextCurrent, NextFormer, SeenNext)
        /\ active.inode \in Inodes /\ active.inode # NoInode /\ Note(active.plan) \in NoteType
        /\ \A k \in DOMAIN todo : todo[k].inode \in Inodes
        /\ active.plan.path \in Paths
    BY <1>13, ReadingIs DEF w
  <2>2. active.inode # e /\ file'[active.inode] = file[active.inode]
    BY <1>1, <1>6, <1>7, <1>11, <1>13, <2>1, NotSwapped
  <2>3. active.plan.path # Rotated
    <3> SUFFICES ASSUME active.plan.path = Rotated PROVE FALSE
      OBVIOUS
    <3>1. w.inode[Rotated] # active.inode
      BY <1>1, <1>8, <2>1
    <3>2. w.only /\ active.plan.path \in glob
      BY <2>1, <3>1, ThreePaths DEF ReadFits, Placed
    <3> QED BY <1>8, <3>2, ThreePaths
  <2> QED BY <2>1, <2>2, <2>3
<1>14. (\A n \in Current : n.path # Rotated) /\ (\A n \in NextCurrent : n.path # Rotated)
  <2>1. \A n \in Current : n.path # Rotated
    <3>1. parseState \subseteq Row
      BY <1>1 DEF TypeOK
    <3> QED BY <1>1, <1>5, <3>1, NextNotes, NoteOf
  <2>2. ASSUME NEW n \in Storing PROVE n.path # Rotated
    <3>1. CASE \E r \in Range(pending) : n = Note(r)
      BY <1>1, <3>1, NoteOf, HandIs
    <3>2. CASE active # NoFile /\ n = Note(RowFor(active, FALSE))
      BY <1>1, <1>13, <3>2, ActiveNote
    <3> QED BY <1>5, <3>1, <3>2, NextNotes
  <2> QED BY <1>5, <2>1, <2>2, NextNotes
<1>15. Tidy(v) /\ Book(v, Current, Former, Seen)
  BY <1>1, <1>5, <1>6, <1>8, <1>9, <1>14, BookCopies
<1>16. Book(v, NextCurrent, NextFormer, SeenNext)
  BY <1>1, <1>5, <1>6, <1>8, <1>9, <1>14, BookCopies
<1>17. /\ On(v, Packed) = On(w, Packed) /\ EndAt(v, Packed) = EndAt(w, Packed)
       /\ Settled(v, Packed, NextCurrent, NextFormer, SeenNext) = Settled(w, Packed, NextCurrent, NextFormer, SeenNext)
  <2>1. /\ On(v, Packed) = On(w, Packed) /\ EndAt(v, Packed) = EndAt(w, Packed)
        /\ SeenAt(v, Packed, SeenNext) = SeenAt(w, Packed, SeenNext)
        /\ HasOwn(v, Packed, NextCurrent) = HasOwn(w, Packed, NextCurrent)
        /\ ReadRotated(v, NextCurrent, NextFormer, SeenNext) = ReadRotated(w, NextCurrent, NextFormer, SeenNext)
    BY <1>8, SamePlaceIs
  <2> QED BY <2>1 DEF Settled
<1>18. ASSUME NEW n \in NoteType, NEW c, About(w, n, c) PROVE About(v, n, c)
  <2>1. WellMade(v, n)
    BY <1>8, <1>10, <1>18 DEF About, WellMade, SamePlace
  <2> QED BY <1>18, <2>1 DEF About
<1>19. On(w, Packed) => w.at[Packed].from < w.end
  <2>1. On(w, Packed) => w.at[Packed].size > 0 /\ EndAt(w, Packed) = Edge(w)
    BY <1>5 DEF Tidy
  <2> QED BY <1>10, <2>1, ThreePaths
<1>20. PlansFit(v, file', glob, todo, NextCurrent, NextFormer, SeenNext)
  <2>1. ASSUME NEW k \in DOMAIN todo, NEW p \in Paths, v.inode[p] = todo[k].inode
        PROVE  w.inode[p] = todo[k].inode
    BY <1>4, <1>6, <1>8, <2>1, ThreePaths
  <2>2. ASSUME NEW k \in DOMAIN todo, w.inode[todo[k].path] = todo[k].inode
        PROVE  About(v, Note(todo[k]), file'[todo[k].inode]) /\ Within(file'[todo[k].inode], todo[k].uoff, SeenNext)
    BY <1>12, <1>18, <2>2, PlanIs DEF PlanFits, w
  <2>3. ASSUME NEW k \in DOMAIN todo, NEW p \in {Rotated, Packed}, On(v, p), EndAt(v, p) <= file[todo[k].inode].from
        PROVE  \/ Settled(v, p, NextCurrent, NextFormer, SeenNext)
               \/ \E j \in DOMAIN todo : j < k /\ (~On(v, todo[j].path) \/ todo[j].path = p)
    <3>1. CASE p = Rotated
      <4>1. w.at[Packed] = file[todo[k].inode] /\ On(w, Packed)
        BY <1>1, <1>8, <1>12, ThisWorld, ThreePaths DEF On, w
      <4> QED BY <1>10, <1>19, <2>3, <3>1, <4>1, ThreePaths
    <3>2. CASE p = Packed
      <4>1. \/ Settled(w, p, NextCurrent, NextFormer, SeenNext)
            \/ \E j \in DOMAIN todo : j < k /\ (~On(w, todo[j].path) \/ todo[j].path = p)
        BY <1>5, <1>17, <2>3, <3>2 DEF PlansFit
      <4> QED BY <1>12, <1>17, <3>2, <4>1
    <3> QED BY <3>1, <3>2
  <2>4. On(v, Live) /\ (On(w, Packed) => On(v, Packed))
    BY <1>8, <1>10, <1>17 DEF On
  <2> QED BY <1>5, <1>12, <2>1, <2>2, <2>3, <2>4, PlansStay
<1>21. ASSUME active # NoFile
       PROVE  ReadFits(v, file', glob, active, todo, NextCurrent, NextFormer, SeenNext)
  <2>1. About(v, Note(active.plan), file[active.inode])
    BY <1>13, <1>18, <1>21 DEF ReadFits
  <2>2. Placed(w, active.plan.path, active.inode, file[active.inode])
    BY <1>13, <1>21 DEF ReadFits
  <2>3. v.at[Packed] = w.at[Packed] /\ v.inode[Packed] = w.inode[Packed] /\ w.inode[Rotated] = NoInode
    BY <1>8 DEF SamePlace, On
  <2>4. Placed(v, active.plan.path, active.inode, file[active.inode])
    <3>1. CASE w.inode[active.plan.path] = active.inode
      BY <1>8, <1>13, <1>21, <2>3, <3>1, ThreePaths DEF Placed
    <3>2. CASE w.inode[Rotated] = active.inode
      BY <1>13, <1>21, <2>3, <3>2
    <3>3. CASE /\ w.only /\ \A p \in Paths : w.inode[p] # active.inode
               /\ EndOfAll(file[active.inode]) <= Edge(w)
               /\ (On(w, Packed) => EndOfAll(file[active.inode]) <= w.at[Packed].from)
      <4>1. \A p \in Paths : v.inode[p] # active.inode
        BY <1>6, <1>8, <1>21, <2>3, <3>3, ThreePaths
      <4> QED BY <1>8, <1>10, <1>17, <2>3, <3>3, <4>1 DEF Placed
    <3> QED BY <2>2, <3>1, <3>2, <3>3 DEF Placed
  <2>5. file[active.inode].from < w.end
    <3>1. CASE w.inode[active.plan.path] = active.inode
      <4>1. active.plan.path = Packed
        BY <1>8, <1>13, <1>21, <3>1, ThreePaths
      <4>2. w.at[Packed] = file[active.inode] /\ On(w, Packed)
        BY <1>1, <1>8, <1>13, <1>21, <3>1, <4>1, ThisWorld, ThreePaths DEF On, w
      <4> QED BY <1>19, <4>2
    <3>2. CASE EndOfAll(file[active.inode]) <= Edge(w)
      <4>1. file[active.inode].from \in Nat /\ file[active.inode].size \in Nat
        BY <1>1, <1>13, <1>21, ContentIs DEF TypeOK
      <4> QED BY <1>10, <3>2, <4>1 DEF EndOfAll
    <3> QED BY <1>13, <1>21, <2>2, <2>3, <3>1, <3>2 DEF Placed
  <2>6. SettledBefore(v, file[active.inode].from, NextCurrent, NextFormer, SeenNext)
    <3>1. file[active.inode].from \in Nat
      BY <1>1, <1>13, <1>21, ContentIs DEF TypeOK
    <3>2. ~(EndAt(v, Rotated) <= file[active.inode].from)
      BY <1>10, <2>5, <3>1
    <3> QED BY <1>13, <1>17, <1>21, <3>2 DEF ReadFits, SettledBefore
  <2> QED BY <1>12, <1>13, <1>21, <2>1, <2>4, <2>6 DEF ReadFits
<1>22. file'[dir'[Live]].size = 0
  BY <1>1, <1>4, <1>7, OrderedNumbers, EmptyIs
<1>23. written <= written' /\ UNCHANGED <<glob, dbVars, runVars, targets>>
  BY <1>1, <1>3
<1> QED BY <1>1, <1>15, <1>16, <1>20, <1>21, <1>22, <1>23, FilesCovered DEF v

\* A file that was read to its end as the rotated one.
LEMMA WasReadRotated ==
  ASSUME NEW w \in WorldType, NEW v \in WorldType,
         On(w, Rotated), v.at[Packed] = w.at[Rotated],
         NEW cur \in SUBSET NoteType, NEW old \in SUBSET NoteType, NEW S \in SUBSET Line,
         Paired(cur), Book(w, cur, old, S), SeenAt(w, Rotated, S),
         NEW m \in cur, m.inode = w.inode[Rotated], m.path = Rotated, m.done
  PROVE  ReadRotated(v, cur, old, S)
<1>1. RotatedRows(w, cur, old) /\ CoveredRotated(w, cur, old, S)
  BY BookParts
<1>2. HeadAt(v, Packed) = HeadAt(w, Rotated) /\ \A n : Covers(v, n, Packed, S) = Covers(w, n, Rotated, S)
  BY DEF HeadAt, Covers
<1>3. HasOwn(w, Rotated, cur)
  BY DEF HasOwn
<1>4. m.head = HeadAt(w, Rotated) /\ Covers(w, m, Rotated, S)
  BY <1>1, <1>3 DEF CoveredRotated, OwnCovers
<1>5. ASSUME NEW n \in cur \cup old, n.head = HeadAt(w, Rotated), n.path = Rotated
      PROVE  n = m
  <2>1. n.inode = w.inode[Rotated]
    BY <1>1, <1>5, ThreePaths DEF RotatedRows
  <2>2. n \notin old
    BY <1>1, <1>5, <2>1, ThreePaths DEF RotatedRows
  <2> QED BY <2>1, <2>2 DEF Paired
<1> QED BY <1>2, <1>4, <1>5 DEF ReadRotated

LEMMA PackNewCovers ==
  ASSUME ResumeInv, CoverInv, Untroubled, PackNew
  PROVE  CoverInv'
<1> DEFINE w == World
           v == World'
<1>1. /\ TypeOK /\ Idle /\ Disk /\ HeadSize = 1 /\ Trouble = {} /\ ResumeInv' /\ Disturb
      /\ UNCHANGED <<glob, written, dbVars, runVars, targets, rollbacks, crashes>>
      /\ dir[Rotated] # NoInode
      /\ glob = {Packed} \/ (dir[Packed] = NoInode /\ ~PartlyRead(dir[Rotated]))
  BY PackNewKeeps DEF ResumeInv, Untroubled, PackNew
<1>2. PICK i \in Inodes : /\ IsFresh(i)
                          /\ dir' = [dir EXCEPT ![Rotated] = NoInode, ![Packed] = i]
                          /\ file' = [file EXCEPT ![i] = At(Rotated)]
  BY DEF PackNew
<1>3. /\ written' \in 0..MaxLines /\ dir' \in [Paths -> Inodes \cup {NoInode}] /\ file' \in [Inodes -> Content]
      /\ written \in Nat /\ dir[Live] \in Inodes /\ dir[Live] # NoInode /\ i # NoInode
      /\ dir[Rotated] \in Inodes /\ At(Rotated) = file[dir[Rotated]]
  BY <1>1, OrderedNumbers, ThreePaths DEF ResumeInv, TypeOK, At
<1>4. dir'[Live] = dir[Live] /\ dir'[Rotated] = NoInode /\ dir'[Packed] = i
  BY <1>1, <1>2, ThreePaths DEF TypeOK
<1>5. file'[i] = file[dir[Rotated]] /\ \A j \in Inodes : j # i => file'[j] = file[j]
  BY <1>1, <1>2, <1>3 DEF TypeOK
<1>6. /\ Tidy(w) /\ Book(w, Current, Former, Seen) /\ Book(w, NextCurrent, NextFormer, SeenNext)
      /\ PlansFit(w, file, glob, todo, NextCurrent, NextFormer, SeenNext)
      /\ Distinct /\ Done /\ Reading
  BY CoverParts
<1>7. /\ IsNewInode(w, i, Current, Former) /\ IsNewInode(w, i, NextCurrent, NextFormer)
      /\ \A k \in DOMAIN todo : todo[k].inode # i
      /\ active # NoFile => active.inode # i
      /\ \A p \in Paths : dir[p] # i
  BY <1>1, <1>2, <1>6, FreshFile, FreshIs
<1>8. /\ w \in WorldType /\ v \in WorldType /\ v.only = w.only /\ v.end = w.end /\ w.inode = dir /\ v.inode = dir'
      /\ SamePlace(w, v, Live) /\ On(w, Rotated) /\ ~On(v, Rotated) /\ On(v, Packed)
      /\ v.inode[Packed] = i /\ v.at[Packed] = w.at[Rotated] /\ w.at[Rotated] = file[dir[Rotated]]
      /\ w.at[Live] = file[dir[Live]] /\ w.only = (glob = {Packed})
  <2>1. SamePlace(w, v, Live)
    BY <1>1, <1>3, <1>4, <1>5, <1>7, ThisWorld, NextWorld, ThreePaths DEF SamePlace
  <2>2. w.at[Rotated] = file[dir[Rotated]] /\ w.at[Live] = file[dir[Live]] /\ On(w, Rotated)
    BY <1>1, <1>3, ThisWorld, ThreePaths
  <2>3. v.at[Packed] = file[dir[Rotated]] /\ On(v, Packed)
    BY <1>3, <1>4, <1>5, NextWorld, ThreePaths
  <2>4. w.only = (glob = {Packed}) /\ w.inode = dir /\ w \in WorldType /\ w.end = written
    BY <1>1, ThisWorld
  <2>5. v.only = (glob' = {Packed}) /\ v.inode = dir' /\ v \in WorldType /\ v.end = written'
    BY <1>3, NextWorld
  <2> QED BY <1>1, <1>4, <2>1, <2>2, <2>3, <2>4, <2>5 DEF On
<1>9. /\ Current \in SUBSET NoteType /\ Former \in SUBSET NoteType
      /\ NextCurrent \in SUBSET NoteType /\ NextFormer \in SUBSET NoteType
      /\ Seen \in SUBSET Line /\ SeenNext \in SUBSET Line
      /\ Paired(Current) /\ Paired(NextCurrent)
  BY <1>6, TablesTyped, TablesPaired
<1> HIDE DEF w, v
<1>10. /\ w.at[Live].from \in Nat /\ w.at[Rotated].from \in Nat
       /\ EndAt(w, Rotated) = w.at[Live].from /\ EndAt(v, Packed) = w.at[Live].from
       /\ w.at[Rotated].from < w.at[Live].from
       /\ Edge(w) = w.at[Rotated].from /\ Edge(v) = w.at[Live].from
       /\ On(v, Live) /\ (On(w, Packed) => EndAt(w, Packed) = Edge(w) /\ w.at[Packed].from < w.at[Live].from)
       /\ v.at[Live] = w.at[Live]
  <2>1. \A p \in Paths : w.at[p].from \in Nat /\ w.at[p].size \in Nat /\ EndAt(w, p) = w.at[p].from + w.at[p].size
    BY <1>8, WorldIs
  <2>2. /\ w.at[Rotated].size > 0 /\ EndAt(w, Rotated) = w.at[Live].from
        /\ On(w, Packed) => w.at[Packed].size > 0 /\ EndAt(w, Packed) = Edge(w)
    BY <1>6, <1>8 DEF Tidy
  <2>3. EndAt(v, Packed) = EndAt(w, Rotated)
    BY <1>8 DEF EndAt
  <2>4. Edge(w) = w.at[Rotated].from /\ Edge(v) = w.at[Live].from /\ v.at[Live] = w.at[Live]
    BY <1>8 DEF Edge, SamePlace
  <2>5. On(v, Live)
    BY <1>3, <1>4, <1>8 DEF On
  <2> QED BY <2>1, <2>2, <2>3, <2>4, <2>5, ThreePaths
<1>11. w.only \/ (~On(w, Packed) /\ active.inode # dir[Rotated]
                  /\ \A r \in parseState : r.inode = dir[Rotated] => r.completed)
  BY <1>1, <1>8 DEF PartlyRead, On
<1>12. w.only \/ \A n \in Current : n.inode = w.inode[Rotated] => n.done
  <2>1. parseState \subseteq Row
    BY <1>1 DEF TypeOK
  <2> QED BY <1>6, <1>8, <1>11, <2>1, NextNotes, NoteOf
<1>13. ASSUME active # NoFile
       PROVE  /\ ReadFits(w, file, glob, active, todo, NextCurrent, NextFormer, SeenNext)
              /\ active.inode \in Inodes /\ active.inode # NoInode /\ Note(active.plan) \in NoteType
              /\ Note(active.plan).path = active.plan.path /\ Note(active.plan).inode = active.inode
              /\ \A k \in DOMAIN todo : todo[k].inode \in Inodes
              /\ active.plan.path \in Paths
  BY <1>1, <1>13, ReadingIs, ActiveNote DEF w
<1>14. w.only \/ \A n \in NextCurrent : n.inode = w.inode[Rotated] => n.done
  <2> SUFFICES ASSUME ~w.only, NEW n \in NextCurrent, n.inode = w.inode[Rotated] PROVE n.done
    OBVIOUS
  <2>1. CASE n \in Current
    BY <1>12, <2>1
  <2>2. CASE \E r \in Range(pending) : n = Note(r)
    BY <1>1, <1>6, <2>2, HandIs, NoteOf DEF Done
  <2>3. CASE active # NoFile /\ n = Note(RowFor(active, FALSE))
    BY <1>1, <1>8, <1>11, <1>13, <2>3, ActiveNote
  <2> QED BY <1>6, <2>1, <2>2, <2>3, NextNotes
<1>15. Tidy(v) /\ Book(v, Current, Former, Seen)
  BY <1>1, <1>6, <1>7, <1>8, <1>9, <1>11, <1>12, BookPacks
<1>16. Book(v, NextCurrent, NextFormer, SeenNext)
  BY <1>1, <1>6, <1>7, <1>8, <1>9, <1>11, <1>14, BookPacks
<1>17. ASSUME ~w.only, Settled(w, Rotated, NextCurrent, NextFormer, SeenNext),
              \A n \in NextCurrent : n.path = Live => n.inode # w.inode[Rotated]
       PROVE  Settled(v, Packed, NextCurrent, NextFormer, SeenNext)
  <2> SUFFICES ASSUME SeenAt(v, Packed, SeenNext) PROVE ReadRotated(v, NextCurrent, NextFormer, SeenNext)
    BY DEF Settled
  <2>1. SeenAt(w, Rotated, SeenNext)
    BY <1>8 DEF SeenAt
  <2>2. PICK m \in NextCurrent : m.inode = w.inode[Rotated]
    BY <1>17, <2>1, ThreePaths DEF Settled, HasOwn
  <2>3. m.path = Rotated
    BY <1>6, <1>8, <1>17, <2>2, BookParts DEF RotatedRows
  <2> QED BY <1>6, <1>8, <1>9, <1>14, <1>17, <2>1, <2>2, <2>3, WasReadRotated
<1>18. ASSUME NEW n \in NoteType, NEW c, About(w, n, c), w.only \/ n.path # Packed PROVE About(v, n, c)
  <2>1. w.end \in Nat /\ v.end = w.end
    BY <1>8, WorldIs
  <2>2. WellMade(v, n)
    BY <1>1, <1>8, <1>10, <1>18, <2>1, WellMadeLater DEF About
  <2> QED BY <1>18, <2>2 DEF About
<1>19. PlansFit(v, file', glob, todo, NextCurrent, NextFormer, SeenNext)
  <2>1. ASSUME NEW k \in DOMAIN todo
        PROVE  /\ todo[k].path \in Paths /\ todo[k].inode # NoInode /\ todo[k].path \in glob
               /\ file'[todo[k].inode] = file[todo[k].inode]
               /\ PlanFits(w, todo[k], file[todo[k].inode], NextCurrent, SeenNext)
               /\ v.inode[todo[k].path] \in {todo[k].inode, NoInode}
               /\ todo[k].path # Packed
               /\ w.inode[todo[k].path] = todo[k].inode
    <3>1. /\ todo[k].path \in Paths /\ todo[k].inode \in Inodes /\ todo[k].inode # NoInode /\ todo[k].path \in glob
          /\ PlanFits(w, todo[k], file[todo[k].inode], NextCurrent, SeenNext)
          /\ v.inode[todo[k].path] \in {todo[k].inode, NoInode}
      BY <1>1, <1>8, PlanIs, NotSwapped DEF w
    <3>2. file'[todo[k].inode] = file[todo[k].inode]
      BY <1>5, <1>7, <3>1
    <3>3. todo[k].path # Packed
      BY <1>3, <1>7, <1>8, <3>1
    <3>4. w.inode[todo[k].path] = todo[k].inode
      BY <1>8, <3>1 DEF PlanFits
    <3> QED BY <3>1, <3>2, <3>3, <3>4
  <2>2. ASSUME NEW k \in DOMAIN todo, NEW p \in Paths, v.inode[p] = todo[k].inode
        PROVE  w.inode[p] = todo[k].inode
    BY <1>4, <1>7, <1>8, <2>1, <2>2, ThreePaths
  <2>3. ASSUME NEW k \in DOMAIN todo
        PROVE  About(v, Note(todo[k]), file'[todo[k].inode]) /\ Within(file'[todo[k].inode], todo[k].uoff, SeenNext)
    <3>1. Note(todo[k]) \in NoteType /\ Note(todo[k]).path = todo[k].path
      BY PlanIs
    <3> QED BY <1>18, <2>1, <3>1 DEF PlanFits
  <2>4. ASSUME NEW k \in DOMAIN todo, NEW p \in {Rotated, Packed}, On(v, p), EndAt(v, p) <= file[todo[k].inode].from
        PROVE  \/ Settled(v, p, NextCurrent, NextFormer, SeenNext)
               \/ \E j \in DOMAIN todo : j < k /\ (~On(v, todo[j].path) \/ todo[j].path = p)
    <3>1. p = Packed
      BY <1>8, <2>4
    <3>2. todo[k].path # Rotated
      BY <1>8, <1>10, <2>1, <2>4, <3>1
    <3>3. todo[k].path = Live /\ ~w.only /\ w.inode[Live] = todo[k].inode
      BY <1>8, <2>1, <3>2, ThreePaths
    <3>4. \/ Settled(w, Rotated, NextCurrent, NextFormer, SeenNext)
          \/ \E j \in DOMAIN todo : j < k /\ (~On(w, todo[j].path) \/ todo[j].path = Rotated)
      <4>1. EndAt(w, Rotated) <= file[todo[k].inode].from
        BY <1>10, <2>4, <3>1
      <4> QED BY <1>6, <1>8, <4>1 DEF PlansFit
    <3>5. CASE Settled(w, Rotated, NextCurrent, NextFormer, SeenNext)
      <4>1. w.inode[Live] # w.inode[Rotated]
        BY <1>3, <1>6, <1>8, ThreePaths DEF Tidy, On
      <4>2. \A n \in NextCurrent : n.path = Live => n.inode # w.inode[Rotated]
        BY <2>1, <3>3, <4>1 DEF PlanFits
      <4> QED BY <1>17, <3>1, <3>3, <3>5, <4>2
    <3>6. CASE \E j \in DOMAIN todo : j < k /\ (~On(w, todo[j].path) \/ todo[j].path = Rotated)
      <4>1. PICK j \in DOMAIN todo : j < k /\ (~On(w, todo[j].path) \/ todo[j].path = Rotated)
        BY <3>6
      <4>2. todo[j].path = Rotated
        BY <2>1, <4>1 DEF On
      <4> QED BY <1>8, <4>1, <4>2
    <3> QED BY <3>4, <3>5, <3>6
  <2> QED BY <1>6, <1>8, <1>10, <2>1, <2>2, <2>3, <2>4, PlansStay
<1>20. ASSUME active # NoFile
       PROVE  ReadFits(v, file', glob, active, todo, NextCurrent, NextFormer, SeenNext)
  <2> DEFINE c == file[active.inode]
             path == active.plan.path
  <2>1. /\ file'[active.inode] = c /\ \A k \in DOMAIN todo : file'[todo[k].inode] = file[todo[k].inode]
        /\ c \in Content /\ c.from \in Nat /\ c.size \in Nat /\ EndOfAll(c) = c.from + c.size
    <3>1. file'[active.inode] = c /\ \A k \in DOMAIN todo : file'[todo[k].inode] = file[todo[k].inode]
      BY <1>5, <1>7, <1>13, <1>20
    <3>2. c \in Content
      BY <1>1, <1>13, <1>20 DEF TypeOK
    <3> QED BY <3>1, <3>2, ContentIs DEF EndOfAll
  <2>2. /\ active.plan.path \in glob /\ About(w, Note(active.plan), c)
        /\ SettledBefore(w, c.from, NextCurrent, NextFormer, SeenNext)
        /\ Placed(w, path, active.inode, c)
    BY <1>13, <1>20 DEF ReadFits
  <2>3. ~w.only => path # Packed
    <3> SUFFICES ASSUME ~w.only, path = Packed PROVE FALSE
      OBVIOUS
    <3>1. active.inode = w.inode[Packed]
      BY <1>13, <1>20, <2>2 DEF About, WellMade
    <3> QED BY <1>11, <1>13, <1>20, <3>1 DEF On
  <2>4. w.only => path = Packed
    BY <1>8, <2>2
  <2>5. About(v, Note(active.plan), c)
    BY <1>13, <1>18, <1>20, <2>2, <2>3
  <2>6. \/ path = Live /\ ~w.only /\ w.inode[Live] = active.inode /\ c = w.at[Live]
        \/ path = Packed /\ w.only /\ w.inode[Packed] = active.inode /\ On(w, Packed) /\ c = w.at[Packed]
        \/ /\ w.only /\ \A p \in Paths : w.inode[p] # active.inode
           /\ EndOfAll(c) <= Edge(w)
    <3>1. w.only \/ w.inode[Rotated] # active.inode
      BY <1>8, <1>11
    <3>2. CASE w.inode[path] = active.inode
      <4>1. CASE path = Live
        BY <1>8, <2>4, <3>2, <4>1, ThreePaths
      <4>2. CASE path = Rotated
        BY <2>4, <3>1, <3>2, <4>2, ThreePaths
      <4>3. CASE path = Packed
        <5>1. On(w, Packed) /\ dir[Packed] # NoInode
          BY <1>8, <1>13, <1>20, <3>2, <4>3 DEF On
        <5>2. w.at[Packed] = file[dir[Packed]]
          BY <1>1, <5>1, ThisWorld, ThreePaths DEF w
        <5> QED BY <1>8, <2>3, <3>2, <4>3, <5>1, <5>2
      <4> QED BY <1>13, <1>20, <4>1, <4>2, <4>3, ThreePaths
    <3>3. CASE path = Live /\ w.inode[Rotated] = active.inode
      BY <2>4, <3>1, <3>3, ThreePaths
    <3> QED BY <2>2, <3>2, <3>3 DEF Placed
  <2>7. SettledBefore(v, c.from, NextCurrent, NextFormer, SeenNext)
    <3> SUFFICES ASSUME w.at[Live].from <= c.from PROVE Settled(v, Packed, NextCurrent, NextFormer, SeenNext)
      BY <1>8, <1>10 DEF SettledBefore
    <3>1. path = Live /\ ~w.only /\ w.inode[Live] = active.inode
      BY <1>10, <2>1, <2>6
    <3>2. Settled(w, Rotated, NextCurrent, NextFormer, SeenNext)
      BY <1>8, <1>10, <2>2 DEF SettledBefore
    <3>3. w.inode[Live] # w.inode[Rotated]
      BY <1>3, <1>6, <1>8, ThreePaths DEF Tidy, On
    <3>4. Note(RowFor(active, FALSE)) \in NextCurrent
      BY <1>20 DEF NextCurrent, Storing
    <3>5. Note(RowFor(active, FALSE)).path = Live /\ Note(RowFor(active, FALSE)).inode = active.inode
      BY <1>1, <1>13, <1>20, <3>1, ActiveNote
    <3>6. \A n \in NextCurrent : n.path = Live => n.inode # w.inode[Rotated]
      BY <1>9, <3>1, <3>3, <3>4, <3>5 DEF Paired
    <3> QED BY <1>17, <3>1, <3>2, <3>6
  <2>8. Placed(v, path, active.inode, c)
    <3>1. v.inode[Live] = w.inode[Live] /\ v.inode[Rotated] = NoInode
      BY <1>4, <1>8
    <3>2. CASE path = Live /\ ~w.only /\ w.inode[Live] = active.inode
      BY <3>1, <3>2 DEF Placed
    <3>3. CASE path = Packed /\ w.only /\ w.inode[Packed] = active.inode /\ On(w, Packed) /\ c = w.at[Packed]
      <4>1. w.inode[Live] # w.inode[Packed]
        BY <1>6, <3>3, ThreePaths DEF Tidy
      <4>2. \A p \in Paths : v.inode[p] # active.inode
        BY <1>7, <1>8, <1>13, <1>20, <3>1, <3>3, <4>1, ThreePaths
      <4>3. EndOfAll(c) = Edge(w)
        BY <1>10, <3>3 DEF EndAt
      <4> QED BY <1>8, <1>10, <3>3, <4>2, <4>3 DEF Placed
    <3>4. CASE /\ w.only /\ \A p \in Paths : w.inode[p] # active.inode
               /\ EndOfAll(c) <= Edge(w)
      <4>1. \A p \in Paths : v.inode[p] # active.inode
        BY <1>7, <1>8, <1>13, <1>20, <3>1, <3>4, ThreePaths
      <4> QED BY <1>8, <1>10, <2>1, <3>4, <4>1 DEF Placed
    <3> QED BY <2>6, <3>2, <3>3, <3>4
  <2> QED BY <1>13, <1>20, <2>1, <2>5, <2>7, <2>8 DEF ReadFits
<1>21. \A r \in Range(pending) :
         r.inode = dir'[Live] /\ file'[dir'[Live]].size > 0 => r.uhead = HeadOf(file'[dir'[Live]])
  <2>1. file'[dir'[Live]] = At(Live)
    BY <1>3, <1>4, <1>5, <1>7, ThreePaths DEF At
  <2> QED BY <1>4, <1>6, <2>1 DEF Done
<1>22. written <= written' /\ UNCHANGED <<glob, dbVars, runVars, targets>>
  BY <1>1, <1>3
<1> QED BY <1>1, <1>15, <1>16, <1>19, <1>20, <1>21, <1>22, FilesCovered DEF v

LEMMA PackMemberCovers ==
  ASSUME ResumeInv, CoverInv, Untroubled, PackMember
  PROVE  CoverInv'
<1> DEFINE w == World
           v == World'
           i == dir[Packed]
<1>1. /\ TypeOK /\ Idle /\ Disk /\ HeadSize = 1 /\ Trouble = {} /\ ResumeInv' /\ Disturb
      /\ UNCHANGED <<glob, written, dbVars, runVars, targets, rollbacks, crashes>>
      /\ dir[Rotated] # NoInode /\ i # NoInode /\ glob = {Packed}
      /\ dir' = [dir EXCEPT ![Rotated] = NoInode]
      /\ file' = [file EXCEPT ![i] = [from  |-> @.from,
                                      size  |-> @.size + At(Rotated).size,
                                      mtime |-> written + 1]]
  BY PackMemberKeeps DEF ResumeInv, Untroubled, PackMember
<1>2. /\ written' \in 0..MaxLines /\ dir' \in [Paths -> Inodes \cup {NoInode}] /\ file' \in [Inodes -> Content]
      /\ written \in Nat /\ dir[Live] \in Inodes /\ dir[Live] # NoInode
      /\ dir[Rotated] \in Inodes /\ i \in Inodes /\ At(Rotated) = file[dir[Rotated]]
      /\ file[i] \in Content
  BY <1>1, OrderedNumbers, ThreePaths DEF ResumeInv, TypeOK, At
<1>3. dir'[Live] = dir[Live] /\ dir'[Rotated] = NoInode /\ dir'[Packed] = i
  BY <1>1, ThreePaths DEF TypeOK
<1>4. /\ file'[i].from = file[i].from /\ file'[i].size = file[i].size + At(Rotated).size
      /\ \A j \in Inodes : j # i => file'[j] = file[j]
  <2>1. file'[i] = [from  |-> file[i].from, size  |-> file[i].size + At(Rotated).size, mtime |-> written + 1]
    BY <1>1, <1>2 DEF TypeOK
  <2> QED BY <1>1, <1>2, <2>1 DEF TypeOK
<1>5. /\ Tidy(w) /\ Book(w, Current, Former, Seen) /\ Book(w, NextCurrent, NextFormer, SeenNext)
      /\ PlansFit(w, file, glob, todo, NextCurrent, NextFormer, SeenNext)
      /\ Distinct /\ Done /\ Reading
  BY CoverParts
<1>6. dir[Live] # i /\ dir[Rotated] # i
  BY <1>1, ThreePaths DEF Disk
<1>7. /\ w \in WorldType /\ v \in WorldType /\ w.only /\ v.only /\ v.only = w.only /\ v.end = w.end /\ w.inode = dir /\ v.inode = dir'
      /\ SamePlace(w, v, Live) /\ On(w, Rotated) /\ ~On(v, Rotated) /\ On(v, Packed) /\ On(w, Packed)
      /\ v.inode[Packed] = i /\ w.inode[Packed] = i /\ w.at[Rotated] = file[dir[Rotated]]
      /\ w.at[Packed] = file[i] /\ v.at[Packed] = file'[i]
      /\ w.at[Live] = file[dir[Live]]
  <2>1. SamePlace(w, v, Live)
    BY <1>1, <1>2, <1>3, <1>4, <1>6, ThisWorld, NextWorld, ThreePaths DEF SamePlace
  <2>2. w.at[Rotated] = file[dir[Rotated]] /\ w.at[Live] = file[dir[Live]] /\ w.at[Packed] = file[i]
    BY <1>1, <1>2, ThisWorld, ThreePaths
  <2>3. v.at[Packed] = file'[i]
    BY <1>1, <1>2, <1>3, NextWorld, ThreePaths
  <2>4. w.only = (glob = {Packed}) /\ w.inode = dir /\ w \in WorldType /\ w.end = written
    BY <1>1, ThisWorld
  <2>5. v.only = (glob' = {Packed}) /\ v.inode = dir' /\ v \in WorldType /\ v.end = written'
    BY <1>2, NextWorld
  <2> QED BY <1>1, <1>3, <2>1, <2>2, <2>3, <2>4, <2>5 DEF On
<1>8. /\ Current \in SUBSET NoteType /\ Former \in SUBSET NoteType
      /\ NextCurrent \in SUBSET NoteType /\ NextFormer \in SUBSET NoteType
      /\ Seen \in SUBSET Line /\ SeenNext \in SUBSET Line
  BY TablesTyped
<1> HIDE DEF w, v
<1>9. /\ w.at[Live].from \in Nat /\ w.at[Rotated].from \in Nat /\ w.at[Packed].from \in Nat
      /\ file[i].size \in Nat /\ file'[i].size \in Nat /\ 0 < file[i].size /\ file[i].size < file'[i].size
      /\ w.at[Rotated].from < w.at[Live].from /\ w.at[Packed].from < w.at[Live].from
      /\ Edge(w) = w.at[Rotated].from /\ Edge(v) = w.at[Live].from
      /\ EndAt(w, Packed) = Edge(w) /\ EndAt(v, Packed) = w.at[Live].from
      /\ v.at[Packed].from = w.at[Packed].from
      /\ On(v, Live)
  <2>1. \A p \in Paths : w.at[p].from \in Nat /\ w.at[p].size \in Nat /\ EndAt(w, p) = w.at[p].from + w.at[p].size
                         /\ v.at[p].size \in Nat /\ EndAt(v, p) = v.at[p].from + v.at[p].size
    BY <1>7, WorldIs
  <2>2. /\ w.at[Rotated].size > 0 /\ EndAt(w, Rotated) = w.at[Live].from
        /\ w.at[Packed].size > 0 /\ EndAt(w, Packed) = Edge(w)
    BY <1>5, <1>7 DEF Tidy
  <2>3. Edge(w) = w.at[Rotated].from /\ Edge(v) = w.at[Live].from
    BY <1>7 DEF Edge, SamePlace
  <2>4. On(v, Live)
    BY <1>2, <1>3, <1>7 DEF On
  <2> QED BY <1>2, <1>4, <1>7, <2>1, <2>2, <2>3, <2>4, ThreePaths
<1>19. /\ v.at[Packed].from = w.at[Packed].from /\ v.inode[Packed] = w.inode[Packed]
       /\ v.at[Packed].size = w.at[Packed].size + w.at[Rotated].size
  BY <1>2, <1>4, <1>7
<1>10. Tidy(v) /\ Book(v, Current, Former, Seen)
  BY <1>1, <1>5, <1>7, <1>8, <1>19, BookAppends
<1>11. Book(v, NextCurrent, NextFormer, SeenNext)
  BY <1>1, <1>5, <1>7, <1>8, <1>19, BookAppends
<1>12. ASSUME NEW n \in NoteType, NEW c, About(w, n, c) PROVE WellMade(v, n)
  <2>1. w.end \in Nat /\ w.end <= v.end /\ Edge(w) <= Edge(v)
    BY <1>7, <1>9, WorldIs
  <2>2. WellMade(w, n)
    BY <1>12 DEF About
  <2>3. w.inode[Packed] = v.inode[Packed] /\ v.only = w.only
    BY <1>7
  <2> QED BY <1>1, <1>7, <2>1, <2>2, <2>3, WellMadeLater
<1>13. ASSUME NEW n \in NoteType, n.path # Rotated, About(w, n, file[i])
       PROVE  About(v, n, file'[i])
  <2>1. file'[i] \in Content
    BY <1>2
  <2> QED BY <1>1, <1>2, <1>4, <1>9, <1>12, <1>13, <2>1, AboutGrows
<1>14. \A upto : Within(file'[i], upto, SeenNext) <=> Within(file[i], upto, SeenNext)
  <2>1. \A l \in SeenNext : l <= file[i].from + file[i].size
    BY <1>5, <1>7, <1>9, BookParts DEF Counted, EndAt, EndOfAll
  <2>2. file'[i] \in Content /\ file'[i].from = file[i].from /\ file[i].size <= file'[i].size
    BY <1>2, <1>4, <1>9
  <2> HIDE DEF i
  <2> QED BY <1>2, <1>8, <2>1, <2>2, SeenGrows
<1>15. PlansFit(v, file', glob, todo, NextCurrent, NextFormer, SeenNext)
  <2>1. ASSUME NEW k \in DOMAIN todo
        PROVE  /\ todo[k].path = Packed /\ todo[k].inode = i
               /\ PlanFits(w, todo[k], file[i], NextCurrent, SeenNext)
               /\ Note(todo[k]) \in NoteType /\ Note(todo[k]).path = Packed
    <3>1. /\ todo[k].path \in glob
          /\ PlanFits(w, todo[k], file[todo[k].inode], NextCurrent, SeenNext)
          /\ Note(todo[k]) \in NoteType /\ Note(todo[k]).path = todo[k].path
      BY PlanIs DEF w
    <3>2. todo[k].path = Packed
      BY <1>1, <3>1
    <3>3. todo[k].inode = i
      BY <1>7, <3>1, <3>2, ThreePaths DEF PlanFits
    <3> QED BY <3>1, <3>2, <3>3
  <2>2. ASSUME NEW k \in DOMAIN todo
        PROVE  About(v, Note(todo[k]), file'[todo[k].inode]) /\ Within(file'[todo[k].inode], todo[k].uoff, SeenNext)
    BY <1>7, <1>13, <1>14, <2>1, ThreePaths DEF PlanFits
  <2>3. ASSUME NEW k \in DOMAIN todo, NEW p \in {Rotated, Packed}, On(v, p), EndAt(v, p) <= file[todo[k].inode].from
        PROVE  FALSE
    BY <1>7, <1>9, <2>1, <2>3
  <2>4. ASSUME NEW k \in DOMAIN todo, NEW p \in Paths, v.inode[p] = todo[k].inode
        PROVE  w.inode[p] = todo[k].inode
    BY <1>1, <1>3, <1>7, <2>1, <2>4, ThreePaths
  <2>5. \A k \in DOMAIN todo : /\ todo[k].path \in Paths /\ todo[k].inode # NoInode
                               /\ file'[todo[k].inode].from = file[todo[k].inode].from
                               /\ v.inode[todo[k].path] \in {todo[k].inode, NoInode}
    BY <1>1, <1>4, <1>7, <2>1, ThreePaths
  <2> HIDE DEF i
  <2> QED BY <1>5, <1>7, <1>9, <2>2, <2>3, <2>4, <2>5, PlansStay
<1>16. ASSUME active # NoFile
       PROVE  ReadFits(v, file', glob, active, todo, NextCurrent, NextFormer, SeenNext)
  <2> DEFINE c == file[active.inode]
             d == file'[active.inode]
  <2>1. /\ ReadFits(w, file, glob, active, todo, NextCurrent, NextFormer, SeenNext)
        /\ active.inode \in Inodes /\ active.inode # NoInode
        /\ Note(active.plan) \in NoteType /\ Note(active.plan).path = active.plan.path
        /\ \A k \in DOMAIN todo : todo[k].inode \in Inodes
    BY <1>16, ReadingIs DEF w
  <2>2. /\ active.plan.path = Packed /\ active.plan.inode = active.inode
        /\ About(w, Note(active.plan), c) /\ Within(c, active.at, SeenNext)
        /\ SettledBefore(w, c.from, NextCurrent, NextFormer, SeenNext)
        /\ Placed(w, Packed, active.inode, c)
    BY <1>1, <2>1 DEF ReadFits
  <2>3. \A j \in Inodes : file'[j].from = file[j].from
    BY <1>4
  <2>4. c \in Content /\ c.from \in Nat /\ c.size \in Nat /\ EndOfAll(c) = c.from + c.size
    <3>1. c \in Content
      BY <1>1, <2>1 DEF TypeOK
    <3> QED BY <3>1, ContentIs DEF EndOfAll
  <2>5. \/ active.inode = i
        \/ /\ \A p \in Paths : w.inode[p] # active.inode
           /\ EndOfAll(c) <= Edge(w) /\ EndOfAll(c) <= w.at[Packed].from
    BY <1>7, <2>2, ThreePaths DEF Placed
  <2>6. About(v, Note(active.plan), d) /\ Within(d, active.at, SeenNext)
    <3>1. CASE active.inode = i
      BY <1>13, <1>14, <2>1, <2>2, <3>1, ThreePaths
    <3>2. CASE active.inode # i
      <4>1. d = c
        BY <1>4, <2>1, <3>2
      <4> QED BY <1>12, <2>1, <2>2, <4>1 DEF About
    <3> QED BY <3>1, <3>2
  <2>7. c.from < w.at[Live].from
    BY <1>7, <1>9, <2>4, <2>5
  <2>8. SettledBefore(v, d.from, NextCurrent, NextFormer, SeenNext)
    <3>1. d.from = c.from
      BY <2>1, <2>3
    <3>2. ~(EndAt(v, Packed) <= d.from)
      BY <1>9, <2>4, <2>7, <3>1
    <3> QED BY <1>7, <3>2 DEF SettledBefore
  <2>9. Placed(v, Packed, active.inode, d)
    <3>1. CASE active.inode = i
      BY <1>7, <3>1 DEF Placed
    <3>2. CASE active.inode # i
      <4>1. d = c
        BY <1>4, <2>1, <3>2
      <4>2. \A p \in Paths : v.inode[p] # active.inode
        BY <1>3, <1>7, <2>1, <2>5, <3>2, ThreePaths
      <4>3. EndOfAll(c) <= Edge(w) /\ EndOfAll(c) <= w.at[Packed].from
        BY <2>5, <3>2
      <4>4. EndOfAll(c) <= Edge(v)
        BY <1>9, <2>4, <4>3
      <4> QED BY <1>7, <1>9, <4>1, <4>2, <4>3, <4>4 DEF Placed
    <3> QED BY <3>1, <3>2
  <2> QED BY <1>1, <2>1, <2>2, <2>3, <2>6, <2>8, <2>9 DEF ReadFits
<1>17. \A r \in Range(pending) :
         r.inode = dir'[Live] /\ file'[dir'[Live]].size > 0 => r.uhead = HeadOf(file'[dir'[Live]])
  <2>1. file'[dir'[Live]] = At(Live)
    BY <1>2, <1>3, <1>4, <1>6 DEF At
  <2> QED BY <1>3, <1>5, <2>1 DEF Done
<1>18. written <= written' /\ UNCHANGED <<glob, dbVars, runVars, targets>>
  BY <1>1, <1>2
<1> QED BY <1>1, <1>10, <1>11, <1>15, <1>16, <1>17, <1>18, FilesCovered DEF v

\* Between runs the next commit has nothing to store.
LEMMA NothingInHand ==
  ASSUME ResumeInv, pending = <<>>, active = NoFile, retired = {}, acc = NoCount
  PROVE  NextCurrent = Current /\ NextFormer = Former /\ SeenNext = Seen
<1>1. Range(pending) = {}
  BY DEF Range
<1>2. Storing = {} /\ Notes(retired) = {}
  BY <1>1 DEF Storing, Notes
<1>3. Unretired = parseState
  BY DEF Unretired
<1>4. \A l \in Line : count[l] + acc[l] = count[l]
  BY DEF ResumeInv, TypeOK, NoCount
<1> QED BY <1>2, <1>3, <1>4 DEF NextCurrent, NextFormer, SeenNext, Seen, Current, Former

LEMMA NothingInHandThen ==
  ASSUME count' \in [Line -> Nat], pending' = <<>>, active' = NoFile, retired' = {}, acc' = NoCount
  PROVE  NextCurrent' = Current' /\ NextFormer' = Former' /\ SeenNext' = Seen'
<1>1. Range(pending)' = {}
  BY DEF Range
<1>2. Storing' = {} /\ Notes(retired)' = {}
  BY <1>1 DEF Storing, Notes
<1>3. Unretired' = parseState'
  BY DEF Unretired
<1>4. \A l \in Line : count'[l] + acc'[l] = count'[l]
  BY DEF NoCount
<1> QED BY <1>2, <1>3, <1>4 DEF NextCurrent, NextFormer, SeenNext, Seen, Current, Former

\* What remains to be shown where a run stands still or has ended.
LEMMA IdleCovered ==
  ASSUME ResumeInv, CoverInv, UNCHANGED fsVars, count' \in [Line -> Nat],
         todo' = <<>>, pending' = <<>>, active' = NoFile, retired' = {}, acc' = NoCount,
         Book(World, Current', Former', Seen'), LastSeen', Once'
  PROVE  CoverInv'
<1>1. World' = World /\ file' = file
  BY DEF World, fsVars
<1>2. NextCurrent' = Current' /\ NextFormer' = Former' /\ SeenNext' = Seen'
  BY NothingInHandThen
<1>3. Tidy(World)' /\ Books'
  BY <1>1, <1>2, CoverParts DEF Books
<1>4. DOMAIN todo' = {} /\ DOMAIN pending' = {} /\ Range(pending)' = {}
  BY DEF Range
<1>5. Planned' /\ Reading' /\ Distinct' /\ Done'
  BY <1>4 DEF Planned, PlansFit, Reading, Distinct, Done
<1> QED BY <1>3, <1>5 DEF CoverInv

LEMMA StopCovers ==
  ASSUME ResumeInv, CoverInv, Stop, UNCHANGED fsVars, UNCHANGED dbVars, UNCHANGED targets
  PROVE  CoverInv'
<1>1. /\ todo' = <<>> /\ pending' = <<>> /\ active' = NoFile /\ retired' = {} /\ acc' = NoCount
      /\ count' = count /\ parseState' = parseState /\ archive' = archive /\ lastLog' = lastLog
      /\ written' = written
  BY DEF Stop, dbVars, fsVars
<1>2. \A l : BeforeTarget(l)' = BeforeTarget(l)
  BY DEF BeforeTarget
<1>3. Current' = Current /\ Former' = Former /\ Seen' = Seen
  BY <1>1, <1>2 DEF Current, Former, Seen
<1>4. Book(World, Current, Former, Seen) /\ LastSeen /\ Once
  BY CoverParts
<1>5. LastSeen'
  BY <1>1, <1>2, <1>3, <1>4 DEF LastSeen
<1>6. Once'
  <2>1. \A l \in Line : count[l] \in Nat /\ acc[l] \in Nat /\ acc'[l] = 0
    BY <1>1 DEF ResumeInv, TypeOK, NoCount
  <2>2. \A l \in Line : count[l] + 0 > 1 => count[l] + acc[l] > 1
    BY <2>1
  <2> QED BY <1>1, <1>2, <1>4, <2>1, <2>2 DEF Once
<1>7. count' \in [Line -> Nat]
  BY <1>1 DEF ResumeInv, TypeOK
<1> QED BY <1>1, <1>3, <1>4, <1>5, <1>6, <1>7, IdleCovered

LEMMA AbortRunCovers == ASSUME ResumeInv, CoverInv, AbortRun PROVE CoverInv'
BY StopCovers DEF AbortRun

LEMMA CrashCovers == ASSUME ResumeInv, CoverInv, Crash PROVE CoverInv'
BY StopCovers DEF Crash

\* A row that was rewound is as it was but for its offset.
Alike(n, m) ==
  /\ n.path = m.path /\ n.inode = m.inode /\ n.head = m.head /\ n.chead = m.chead
  /\ n.size = m.size /\ n.mtime = m.mtime
  /\ n.head = NoHead => n.upto \in {m.upto, 0}

LEMMA KindsRewound ==
  ASSUME NEW w, NEW cur, NEW old, NEW cur2, NEW old2, Kinds(w, cur, old), old2 \subseteq old,
         \A n \in cur2 : \E m \in cur \cup (old \ old2) : Alike(n, m)
  PROVE  Kinds(w, cur2, old2)
<1>1. /\ \A n \in cur \cup old : WellMade(w, n) /\ \A p \in Paths : Sized(w, n, p)
      /\ Single(cur, old)
      /\ LiveRows(w, cur, old) /\ RotatedRows(w, cur, old) /\ PackedRows(w, cur, old)
  BY DEF Kinds
<1>2. ASSUME NEW n \in cur2 \cup old2
      PROVE  \E m \in cur \cup old : Alike(n, m)
  <2>1. Alike(n, n)
    BY DEF Alike
  <2> QED BY <1>2, <2>1
<1>3. ASSUME NEW n \in cur2 \cup old2
      PROVE  WellMade(w, n) /\ \A p \in Paths : Sized(w, n, p)
  <2>1. PICK m \in cur \cup old : Alike(n, m)
    BY <1>2
  <2>2. WellMade(w, m) /\ \A p \in Paths : Sized(w, m, p)
    BY <1>1
  <2>3. WellMade(w, n)
    BY <2>1, <2>2 DEF WellMade, Alike
  <2>4. \A p \in Paths : Sized(w, n, p)
    BY <2>1, <2>2 DEF Sized, Alike
  <2> QED BY <2>3, <2>4
<1>4. Single(cur2, old2)
  <2>1. ASSUME NEW n \in cur2 \cup old2, NEW m \in cur2 \cup old2, n.path = Rotated, SameKey(n, m)
        PROVE  n.head = m.head
    <3>1. PICK x \in cur \cup old : Alike(n, x)
      BY <1>2
    <3>2. PICK y \in cur \cup old : Alike(m, y)
      BY <1>2
    <3>3. x.path = Rotated /\ SameKey(x, y)
      BY <2>1, <3>1, <3>2 DEF Alike, SameKey
    <3>4. x.head = y.head
      BY <1>1, <3>3 DEF Single
    <3> QED BY <3>1, <3>2, <3>4 DEF Alike
  <2>2. ASSUME NEW n \in cur2, NEW m \in old2, n.path = Live, m.path = Live, n.head = m.head, n.head # NoHead
        PROVE  FALSE
    <3>1. PICK x \in cur \cup (old \ old2) : Alike(n, x)
      OBVIOUS
    <3>2. x.path = Live /\ x.head = m.head /\ x.head # NoHead /\ m \in old
      BY <2>2, <3>1 DEF Alike
    <3>3. x = m /\ x \notin cur
      BY <1>1, <2>2, <3>2 DEF Single
    <3> QED BY <3>3
  <2>3. ASSUME NEW n \in old2, NEW m \in old2, n.path = Live, m.path = Live, n.head = m.head, n.head # NoHead
        PROVE  n = m
    BY <1>1, <2>3 DEF Single
  <2> QED BY <2>1, <2>2, <2>3 DEF Single
<1>5. LiveRows(w, cur2, old2)
  <2> SUFFICES ASSUME NEW n \in cur2 \cup old2
               PROVE  /\ n.inode = w.inode[Live] => n.path = Live
                      /\ n.head = HeadAt(w, Live) /\ n.head # NoHead =>
                           n.path = Live /\ n.inode = w.inode[Live] /\ n \notin old2
    BY DEF LiveRows
  <2>1. PICK m \in cur \cup old : Alike(n, m)
    BY <1>2
  <2>2. /\ m.inode = w.inode[Live] => m.path = Live
        /\ m.head = HeadAt(w, Live) /\ m.head # NoHead => m.path = Live /\ m.inode = w.inode[Live]
        /\ n \in old2 => ~(n.head = HeadAt(w, Live) /\ n.head # NoHead)
    BY <1>1 DEF LiveRows
  <2> QED BY <2>1, <2>2 DEF Alike
<1>6. RotatedRows(w, cur2, old2)
  <2> SUFFICES ASSUME On(w, Rotated), NEW n \in cur2 \cup old2
               PROVE  /\ n.inode = w.inode[Rotated] =>
                           \/ n.path = Live
                           \/ n.path = Rotated /\ n.head = HeadAt(w, Rotated) /\ n.size = w.at[Rotated].size /\ n \notin old2
                      /\ n.head = HeadAt(w, Rotated) =>
                           n.path = Live \/ (n.path = Rotated /\ n.inode = w.inode[Rotated])
    BY DEF RotatedRows
  <2>1. PICK m \in cur \cup old : Alike(n, m)
    BY <1>2
  <2>2. /\ m.inode = w.inode[Rotated] =>
             m.path = Live \/ (m.path = Rotated /\ m.head = HeadAt(w, Rotated) /\ m.size = w.at[Rotated].size)
        /\ m.head = HeadAt(w, Rotated) => m.path = Live \/ (m.path = Rotated /\ m.inode = w.inode[Rotated])
        /\ n \in old2 /\ n.inode = w.inode[Rotated] => n.path = Live
    BY <1>1 DEF RotatedRows
  <2> QED BY <2>1, <2>2 DEF Alike
<1>7. PackedRows(w, cur2, old2)
  <2> SUFFICES ASSUME On(w, Packed), NEW n \in cur2 \cup old2
               PROVE  /\ n.inode = w.inode[Packed] => n.path = Packed /\ n.head = HeadAt(w, Packed) /\ n \notin old2
                      /\ n.path = Packed /\ n.head = HeadAt(w, Packed) => n.inode = w.inode[Packed]
    BY DEF PackedRows
  <2>1. PICK m \in cur \cup old : Alike(n, m)
    BY <1>2
  <2>2. /\ m.inode = w.inode[Packed] => m.path = Packed /\ m.head = HeadAt(w, Packed)
        /\ m.path = Packed /\ m.head = HeadAt(w, Packed) => m.inode = w.inode[Packed]
        /\ n \in old2 => n.inode # w.inode[Packed]
    BY <1>1 DEF PackedRows
  <2> QED BY <2>1, <2>2 DEF Alike
<1> QED BY <1>3, <1>4, <1>5, <1>6, <1>7 DEF Kinds

LEMMA ReplacesComeFrom ==
  ASSUME NEW table \in SUBSET Row, NEW rows \in Seq(Row)
  PROVE  \A s \in Replaces(table, rows)[Len(rows)] : s \in table \/ \E j \in 1..Len(rows) : s = rows[j]
<1> DEFINE f == Replaces(table, rows)
           From(k) == \A s \in f[k] : s \in table \/ \E j \in 1..Len(rows) : s = rows[j]
           S == {k \in 0..Len(rows) : From(k)}
<1>0. Len(rows) \in Nat /\ \A k \in 1..Len(rows) : rows[k] \in Row
  OBVIOUS
<1>1. /\ Len(rows) \in Nat /\ f \in [0..Len(rows) -> SUBSET Row] /\ f[0] = table
      /\ \A k \in 1..Len(rows) : f[k] = Replace(f[k - 1], rows[k])
  BY <1>0, ReplacesInTurn
<1> HIDE DEF f
<1>2. 0 \in S
  BY <1>1
<1>3. ASSUME NEW k \in 1..Len(rows), k - 1 \in S PROVE k \in S
  BY <1>1, <1>3 DEF Replace
<1>4. \A k \in 0..Len(rows) : k \in S
  <2> HIDE DEF S
  <2> QED BY <1>1, <1>2, <1>3, InductionUpTo
<1> QED BY <1>1, <1>4 DEF f

LEMMA RewoundNote ==
  ASSUME NEW r \in Row, NEW t \in Targets
  PROVE  Alike(Note(Rewound(r, t)), Note(r)) /\ Alike(Note(r), Note(r))
<1>1. Rewound(r, t) \in Row
  BY RewoundIsRow
<1>2. LET s == Rewound(r, t)
      IN /\ s.path = r.path /\ s.inode = r.inode /\ s.uhead = r.uhead /\ s.chead = r.chead
         /\ s.csize = r.csize /\ s.usize = r.usize /\ s.mtime = r.mtime /\ s.uoff = 0
  BY DEF Rewound, Row
<1>3. Note(Rewound(r, t)).size = Note(r).size
  BY <1>2 DEF Note, PreviousSize
<1> QED BY <1>1, <1>2, <1>3, NoteOf DEF Alike

LEMMA RollbackCovers ==
  ASSUME ResumeInv, CoverInv, NEW t \in Targets, Rollback(t)
  PROVE  CoverInv'
<1> DEFINE rewound == {IF Affected(r, t) THEN Rewound(r, t) ELSE r : r \in parseState}
           back == {r \in archive : Affected(r, t)}
<1>1. /\ pc = "idle" /\ t <= written + 1
      /\ count' = [l \in Line |-> IF l >= t THEN 0 ELSE count[l]] /\ lastLog' = t - 1
      /\ archive' = archive \ back /\ targets' = targets \cup {t}
      /\ UNCHANGED fsVars /\ UNCHANGED runVars
  BY DEF Rollback
<1>2. TypeOK /\ Finite /\ Idle /\ Done /\ LastSeen /\ Book(World, Current, Former, Seen) /\ ResumeInv'
  BY RollbackKeeps, CoverParts DEF ResumeInv
<1>3. todo = <<>> /\ active = NoFile /\ pending = <<>> /\ retired = {} /\ acc = NoCount
  BY <1>1, <1>2 DEF Idle, Done
<1>4. /\ t \in Nat /\ t > 0 /\ \A l \in Line : l \in Nat
      /\ written \in Nat /\ written' = written
      /\ \A s \in targets : s \in Nat /\ s <= written + 1
  <2>1. MaxLines \in Nat /\ Targets \subseteq 2..MaxLines
    BY ResumeAssumption
  <2> QED BY <1>1, <1>2, <2>1 DEF TypeOK, fsVars, LastSeen, Line
<1>5. \A l \in Line : l < t => BeforeTarget(l)'
  BY <1>1 DEF BeforeTarget
<1>6. \A l \in Line : count'[l] > 0 => l < t /\ BeforeTarget(l)'
  BY <1>1, <1>4, <1>5
<1>7. Seen' = {}
  BY <1>6 DEF Seen
<1>8. PICK order \in SetToSeqs(back) :
        LET rows == [k \in DOMAIN order |-> Rewound(order[k], t)]
        IN parseState' = InTurn(Replace, rewound, rows)[Len(rows)]
  BY DEF Rollback
<1>9. parseState \in SUBSET Row /\ archive \in SUBSET Row /\ back \in SUBSET archive /\ rewound \in SUBSET Row
  <2>1. parseState \in SUBSET Row /\ archive \in SUBSET Row
    BY <1>2 DEF TypeOK
  <2> QED BY <2>1, RewoundIsRow
<1>10. IsFiniteSet(back) /\ Cardinality(back) \in Nat
  BY <1>2, <1>9, FS_Subset, FS_CardinalityType DEF Finite
<1> HIDE DEF back
<1>11. order \in [1..Cardinality(back) -> back]
  BY DEF SetToSeqs
<1>12. ASSUME NEW s \in parseState'
       PROVE  \E r \in parseState \cup back : s \in {r, Rewound(r, t)}
  <2> DEFINE rows == [k \in 1..Cardinality(back) |-> Rewound(order[k], t)]
  <2>1. rows \in Seq(Row) /\ Len(rows) = Cardinality(back)
    <3>1. \A k \in 1..Cardinality(back) : Rewound(order[k], t) \in Row
      BY <1>9, <1>11, RewoundIsRow
    <3> QED BY <1>10, <3>1
  <2>2. parseState' = Replaces(rewound, rows)[Len(rows)]
    <3>1. DOMAIN order = 1..Cardinality(back)
      BY <1>11
    <3> HIDE DEF rewound
    <3> QED BY <1>8, <3>1 DEF Replaces
  <2>3. \A k \in 1..Len(rows) : \E r \in back : rows[k] = Rewound(r, t)
    BY <1>11, <2>1
  <2>4. \A r \in rewound : \E q \in parseState : r \in {q, Rewound(q, t)}
    OBVIOUS
  <2>5. s \in rewound \/ \E k \in 1..Len(rows) : s = rows[k]
    <3> HIDE DEF rows, rewound
    <3> QED BY <1>9, <1>12, <2>1, <2>2, ReplacesComeFrom
  <2> HIDE DEF rows, rewound
  <2> QED BY <2>3, <2>4, <2>5
<1>13. Former' \subseteq Former
  BY <1>1, <1>9 DEF Former, Notes
<1>14. ASSUME NEW r \in back PROVE Note(r) \in Former /\ Note(r) \notin Former'
  <2>1. Note(r) \in Former
    BY <1>9 DEF Former, Notes
  <2>2. ASSUME NEW s \in archive, Note(s) = Note(r) PROVE s = r
    BY <1>2, <1>9, <2>2, NoteOf DEF TypeOK
  <2> QED BY <1>1, <2>1, <2>2 DEF Former, Notes
<1>15. ASSUME NEW n \in Current'
       PROVE  \E m \in Current \cup (Former \ Former') : Alike(n, m)
  <2>1. PICK s \in parseState' : n = Note(s)
    BY <1>15 DEF Current, Notes
  <2>2. PICK r \in parseState \cup back : s \in {r, Rewound(r, t)}
    BY <1>12
  <2>3. Note(r) \in Current \cup (Former \ Former')
    BY <1>14 DEF Current, Notes
  <2>4. Alike(n, Note(r))
    BY <1>9, <2>1, <2>2, RewoundNote
  <2> QED BY <2>3, <2>4
<1>16. Kinds(World, Current', Former')
  BY <1>2, <1>13, <1>15, KindsRewound DEF Book
<1>17. Book(World, Current', Former', Seen')
  BY <1>7, <1>16 DEF Book, Counted, CoveredLive, CoveredRotated, CoveredPacked, SeenAt, SeenOf
<1>18. LastSeen'
  <2>1. lastLog' <= written' /\ \A s \in targets' : s <= written' + 1
    BY <1>1, <1>4
  <2>2. \A l \in Line : count'[l] > 0 => l <= lastLog'
    BY <1>1, <1>4, <1>6
  <2>3. lastLog' \in Line => BeforeTarget(lastLog)'
    BY <1>1, <1>4 DEF BeforeTarget
  <2> QED BY <2>1, <2>2, <2>3 DEF LastSeen
<1>19. Once'
  <2>1. \A l \in Line : count'[l] + acc'[l] > 1 => count'[l] > 0
    BY <1>1, <1>2, <1>3 DEF ResumeInv, TypeOK, NoCount, runVars
  <2> QED BY <1>6, <2>1 DEF Once
<1>20. count' \in [Line -> Nat]
  BY <1>2 DEF ResumeInv, TypeOK
<1> QED BY <1>1, <1>3, <1>17, <1>18, <1>19, <1>20, IdleCovered DEF runVars

\* Files begin at different lines.
LEMMA OtherHeads ==
  ASSUME HeadSize = 1, NEW w \in WorldType, Tidy(w)
  PROVE  /\ On(w, Live)
         /\ On(w, Rotated) => HeadAt(w, Rotated) # NoHead /\ HeadAt(w, Rotated) # HeadAt(w, Live)
         /\ On(w, Packed) => HeadAt(w, Packed) # NoHead /\ HeadAt(w, Packed) # HeadAt(w, Live)
         /\ On(w, Rotated) /\ On(w, Packed) => HeadAt(w, Packed) # HeadAt(w, Rotated)
         /\ \A p, q \in Paths : On(w, p) /\ p # q => w.inode[p] # w.inode[q]
<1>1. \A p \in Paths : w.at[p] \in Content /\ w.at[p].from \in Nat /\ w.at[p].size \in Nat
                       /\ EndAt(w, p) = w.at[p].from + w.at[p].size
  BY WorldIs
<1>2. /\ On(w, Live)
      /\ On(w, Rotated) => w.at[Rotated].size > 0 /\ EndAt(w, Rotated) = w.at[Live].from
      /\ On(w, Packed) => w.at[Packed].size > 0 /\ EndAt(w, Packed) = Edge(w)
      /\ \A p, q \in Paths : On(w, p) /\ w.inode[p] = w.inode[q] => p = q
  BY DEF Tidy
<1>3. /\ On(w, Rotated) => w.at[Rotated].from < w.at[Live].from
      /\ On(w, Packed) => w.at[Packed].from < w.at[Live].from
      /\ On(w, Rotated) /\ On(w, Packed) => w.at[Packed].from < w.at[Rotated].from
  BY <1>1, <1>2, ThreePaths DEF Edge
<1>4. \A p \in Paths : /\ w.at[p].size # 0 => HeadAt(w, p) = <<w.at[p].from, 1>> /\ HeadAt(w, p) # NoHead
                       /\ w.at[p].size = 0 => HeadAt(w, p) = NoHead
  BY <1>1, HeadIs DEF HeadAt
<1>5. ASSUME NEW p \in Paths, NEW q \in Paths, w.at[p].size > 0, w.at[p].from # w.at[q].from
      PROVE  HeadAt(w, p) # HeadAt(w, q)
  BY <1>1, <1>4, <1>5
<1> QED BY <1>1, <1>2, <1>3, <1>4, <1>5, ThreePaths

\* The row m of a file takes the place of the one of its path.
Stored(cur, m) == {n \in cur : n.path # m.path} \cup {m}

LEMMA BookStores ==
  ASSUME HeadSize = 1, NEW w \in WorldType, Tidy(w),
         NEW cur \in SUBSET NoteType, NEW old \in SUBSET NoteType, NEW S \in SUBSET Line,
         Book(w, cur, old, S), NEW m \in NoteType,
         m.inode = w.inode[m.path], About(w, m, w.at[m.path]), Covers(w, m, m.path, S),
         \A n \in cur : n.path = m.path => n.inode = m.inode /\ n.head \in {m.head, NoHead},
         \A n \in cur : n.inode = m.inode => n.path = m.path,
         m.path = Live => \A p \in {Rotated, Packed} : Settled(w, p, cur, old, S)
  PROVE  /\ Book(w, Stored(cur, m), old, S) /\ HasOwn(w, m.path, Stored(cur, m))
         /\ \A p \in {Rotated, Packed} : Settled(w, p, cur, old, S) => Settled(w, p, Stored(cur, m), old, S)
<1> DEFINE cur2 == Stored(cur, m)
<1>1. /\ \A n \in cur \cup old : WellMade(w, n) /\ \A p \in Paths : Sized(w, n, p)
      /\ Single(cur, old)
      /\ LiveRows(w, cur, old) /\ RotatedRows(w, cur, old) /\ PackedRows(w, cur, old)
      /\ Counted(w, S)
      /\ CoveredLive(w, cur, S) /\ CoveredRotated(w, cur, old, S) /\ CoveredPacked(w, cur, old, S)
  BY BookParts
<1>2. /\ On(w, Live)
      /\ On(w, Rotated) => HeadAt(w, Rotated) # NoHead /\ HeadAt(w, Rotated) # HeadAt(w, Live)
      /\ On(w, Packed) => HeadAt(w, Packed) # NoHead /\ HeadAt(w, Packed) # HeadAt(w, Live)
      /\ On(w, Rotated) /\ On(w, Packed) => HeadAt(w, Packed) # HeadAt(w, Rotated)
      /\ \A p, q \in Paths : On(w, p) /\ p # q => w.inode[p] # w.inode[q]
  BY OtherHeads
<1>3. /\ m.path \in Paths /\ m.inode \in Inodes /\ On(w, m.path)
      /\ m.head = HeadAt(w, m.path) /\ m.size \in Nat /\ m.size <= w.at[m.path].size
      /\ m.size = w.at[m.path].size => m.mtime = w.at[m.path].mtime
      /\ m.path = Rotated => m.size = w.at[m.path].size
      /\ WellMade(w, m)
      /\ \A p \in Paths : p # m.path => w.inode[p] # m.inode
  <2>1. m.path \in Paths /\ m.inode \in Inodes /\ m.size \in Nat
    BY NoteIs
  <2>2. On(w, m.path)
    BY <2>1, ThreePaths DEF On
  <2>3. \A p \in Paths : p # m.path => w.inode[p] # m.inode
    BY <1>2, <2>1, <2>2
  <2> QED BY <2>1, <2>2, <2>3 DEF About, HeadAt
<1>4. /\ \A n \in cur2 : n = m \/ (n \in cur /\ n.path # m.path)
      /\ \A n \in cur : n.path # m.path => n \in cur2
      /\ m \in cur2
  BY DEF Stored
<1> HIDE DEF cur2
<1>5. ASSUME NEW n \in cur2 \cup old PROVE WellMade(w, n) /\ \A p \in Paths : Sized(w, n, p)
  <2>1. \A p \in Paths : Sized(w, m, p)
    BY <1>3 DEF Sized
  <2> QED BY <1>1, <1>3, <1>4, <2>1
<1>6. ASSUME NEW x \in old, x.path = Live, m.path = Live, x.head = m.head, x.head # NoHead PROVE FALSE
  BY <1>1, <1>3, <1>6 DEF LiveRows
<1>7. ASSUME NEW x \in cur \cup old, x.path = Rotated, m.path = Rotated, SameKey(x, m) PROVE x.head = m.head
  BY <1>1, <1>3, <1>7, ThreePaths DEF RotatedRows, SameKey
<1>8. Single(cur2, old)
  <2>1. ASSUME NEW n \in cur2 \cup old, NEW x \in cur2 \cup old, n.path = Rotated, SameKey(n, x)
        PROVE  n.head = x.head
    <3>1. CASE n = m \/ x = m
      BY <1>4, <1>7, <2>1, <3>1 DEF SameKey
    <3>2. CASE n # m /\ x # m
      BY <1>1, <1>4, <2>1, <3>2 DEF Single
    <3> QED BY <3>1, <3>2
  <2>2. ASSUME NEW n \in cur2 \cup old, NEW x \in old,
               n.path = Live, x.path = Live, n.head = x.head, n.head # NoHead
        PROVE  n = x /\ n \notin cur2
    <3>1. n # m
      BY <1>6, <2>2
    <3>2. n \in cur \cup old
      BY <1>4, <3>1
    <3>3. n = x /\ n \notin cur
      BY <1>1, <2>2, <3>2 DEF Single
    <3> QED BY <1>4, <3>1, <3>3
  <2> QED BY <2>1, <2>2 DEF Single
<1>9. LiveRows(w, cur2, old)
  <2>1. /\ m.inode = w.inode[Live] => m.path = Live
        /\ m.head = HeadAt(w, Live) /\ m.head # NoHead => m.path = Live /\ m.inode = w.inode[Live]
    BY <1>2, <1>3, ThreePaths
  <2> QED BY <1>1, <1>4, <2>1 DEF LiveRows
<1>10. RotatedRows(w, cur2, old)
  <2> SUFFICES ASSUME On(w, Rotated)
               PROVE  /\ m.inode = w.inode[Rotated] =>
                           m.path = Rotated /\ m.head = HeadAt(w, Rotated) /\ m.size = w.at[Rotated].size
                      /\ m.head = HeadAt(w, Rotated) => m.path = Rotated /\ m.inode = w.inode[Rotated]
    <3>1. ASSUME On(w, Rotated), m \in old, m.inode = w.inode[Rotated] PROVE m.path = Live
      BY <1>1, <3>1 DEF RotatedRows
    <3> QED BY <1>1, <1>4, <3>1 DEF RotatedRows
  <2>1. m.inode = w.inode[Rotated] => m.path = Rotated
    BY <1>3, ThreePaths
  <2>2. m.head = HeadAt(w, Rotated) => m.path = Rotated
    BY <1>2, <1>3, ThreePaths
  <2> QED BY <1>3, <2>1, <2>2
<1>11. PackedRows(w, cur2, old)
  <2> SUFFICES ASSUME On(w, Packed)
               PROVE  /\ m.inode = w.inode[Packed] => m.path = Packed /\ m.head = HeadAt(w, Packed)
                      /\ m.path = Packed => m.inode = w.inode[Packed]
    BY <1>1, <1>4 DEF PackedRows
  <2> QED BY <1>3, ThreePaths
<1>12. OwnCovers(w, m.path, cur2, S) /\ HasOwn(w, m.path, cur2)
  <2>1. \A n \in cur2 : n.inode = w.inode[m.path] => n = m
    BY <1>4
  <2> QED BY <1>3, <1>4, <2>1 DEF OwnCovers, HasOwn
<1>13. ASSUME NEW q \in Paths, q # m.path
       PROVE  /\ HasOwn(w, q, cur2) = HasOwn(w, q, cur)
              /\ OwnCovers(w, q, cur, S) => OwnCovers(w, q, cur2, S)
  <2>1. \A n \in cur : n.inode = w.inode[q] => n.path # m.path
    BY <1>3, <1>13
  <2>2. \A n : n \in cur2 /\ n.inode = w.inode[q] <=> n \in cur /\ n.inode = w.inode[q]
    BY <1>3, <1>4, <1>13, <2>1
  <2>3. HasOwn(w, q, cur2) = HasOwn(w, q, cur)
    BY <2>2 DEF HasOwn
  <2> QED BY <2>2, <2>3 DEF OwnCovers
<1>14. ASSUME On(w, Packed), ReadRotated(w, cur, old, S) PROVE ReadRotated(w, cur2, old, S)
  <2>1. m.head = HeadAt(w, Packed) => m.path # Rotated
    BY <1>2, <1>3, <1>14
  <2>2. ASSUME NEW n \in cur, n.head = HeadAt(w, Packed), n.path = Rotated PROVE n.path # m.path
    <3> SUFFICES ASSUME m.path = Rotated PROVE FALSE
      BY <2>2
    <3>1. n.inode = w.inode[Rotated] /\ On(w, Rotated)
      BY <1>3, <2>2
    <3>2. n.head = HeadAt(w, Rotated)
      BY <1>1, <2>2, <3>1, ThreePaths DEF RotatedRows
    <3> QED BY <1>2, <1>14, <2>2, <3>1, <3>2
  <2> QED BY <1>4, <1>14, <2>1, <2>2 DEF ReadRotated
<1>15. CoveredLive(w, cur2, S)
  BY <1>1, <1>12, <1>13, ThreePaths DEF CoveredLive
<1>16. CoveredRotated(w, cur2, old, S)
  <2> SUFFICES ASSUME SeenAt(w, Rotated, S), m.path # Rotated, ~OwnCovers(w, Rotated, cur, S)
               PROVE  /\ ~HasOwn(w, Rotated, cur2)
                      /\ \A n \in cur2 : n.path # Rotated
                      /\ \A n \in old : n.inode = w.inode[Rotated] => n.head = HeadAt(w, Rotated)
                      /\ Alone(w, Rotated, cur2, old, S)
    BY <1>12, <1>13, ThreePaths DEF CoveredRotated
  <2>1. /\ ~HasOwn(w, Rotated, cur)
        /\ \A n \in cur : n.path # Rotated
        /\ \A n \in old : n.inode = w.inode[Rotated] => n.head = HeadAt(w, Rotated)
        /\ Alone(w, Rotated, cur, old, S)
    BY <1>1 DEF CoveredRotated
  <2>2. m.path # Live /\ On(w, Rotated)
    BY <2>1, ThreePaths DEF Settled, SeenAt
  <2>3. m.head # HeadAt(w, Rotated)
    BY <1>2, <1>3, <2>2, ThreePaths
  <2>4. Alone(w, Rotated, cur2, old, S)
    BY <1>4, <2>1, <2>2, <2>3 DEF Alone
  <2> QED BY <1>4, <1>13, <2>1, <2>4, ThreePaths
<1>17. CoveredPacked(w, cur2, old, S)
  <2> SUFFICES ASSUME SeenAt(w, Packed, S), m.path # Packed, ~OwnCovers(w, Packed, cur, S)
               PROVE  /\ ~HasOwn(w, Packed, cur2)
                      /\ \A n \in cur2 : n.path # Packed
                      /\ ReadRotated(w, cur2, old, S) \/ Alone(w, Packed, cur2, old, S)
    BY <1>12, <1>13, ThreePaths DEF CoveredPacked
  <2>1. /\ ~HasOwn(w, Packed, cur)
        /\ \A n \in cur : n.path # Packed
        /\ ReadRotated(w, cur, old, S) \/ Alone(w, Packed, cur, old, S)
    BY <1>1 DEF CoveredPacked
  <2>2. On(w, Packed)
    BY DEF SeenAt
  <2>3. m.path = Live => ReadRotated(w, cur, old, S)
    BY <2>1, ThreePaths DEF Settled
  <2>4. ASSUME m.path = Rotated, Alone(w, Packed, cur, old, S) PROVE Alone(w, Packed, cur2, old, S)
    <3>1. m.head # HeadAt(w, Packed)
      BY <1>2, <1>3, <2>2, <2>4
    <3> QED BY <1>4, <2>4, <3>1, ThreePaths DEF Alone
  <2> QED BY <1>3, <1>4, <1>13, <1>14, <2>1, <2>2, <2>3, <2>4, ThreePaths
<1>18. Book(w, cur2, old, S)
  BY <1>1, <1>5, <1>8, <1>9, <1>10, <1>11, <1>15, <1>16, <1>17 DEF Book, Kinds
<1>19. ASSUME NEW p \in {Rotated, Packed}, Settled(w, p, cur, old, S) PROVE Settled(w, p, cur2, old, S)
  <2>1. HasOwn(w, p, cur) => HasOwn(w, p, cur2)
    BY <1>12, <1>13, ThreePaths
  <2> QED BY <1>14, <1>19, <2>1 DEF Settled, SeenAt
<1> QED BY <1>12, <1>18, <1>19 DEF cur2

\* The row of a file that is read is about what was planned.
LEMMA FileNote ==
  ASSUME NEW f \in ActiveFile, NEW completed \in BOOLEAN
  PROVE  LET n == Note(f.plan)
             m == Note(RowFor(f, completed))
         IN /\ m \in NoteType /\ m.path = f.plan.path /\ m.inode = f.plan.inode /\ m.head = f.plan.uhead
            /\ m.path = n.path /\ m.inode = n.inode /\ m.head = n.head
            /\ m.chead = n.chead /\ m.mtime = n.mtime /\ m.size = n.size
            /\ m.upto = f.at /\ m.done = completed
<1>1. f.plan \in Row /\ RowFor(f, completed) \in Row
  BY RowForIs DEF ActiveFile
<1>2. f.plan.path \in Paths
  BY <1>1 DEF Row
<1>3. LET r == RowFor(f, completed)
      IN /\ r.path = f.plan.path /\ r.inode = f.plan.inode /\ r.uhead = f.plan.uhead
         /\ r.chead = f.plan.chead /\ r.mtime = f.plan.mtime
         /\ r.csize = f.plan.csize /\ (r.path # Packed => r.usize = f.plan.usize)
         /\ r.uoff = f.at /\ r.completed = completed
  BY <1>1 DEF RowFor, Row, IsCompressed
<1>4. PreviousSize(f.plan.path, RowFor(f, completed)) = PreviousSize(f.plan.path, f.plan)
  BY <1>3 DEF PreviousSize, IsCompressed
<1> HIDE DEF Note
<1>5. Note(f.plan).size = PreviousSize(f.plan.path, f.plan)
      /\ Note(RowFor(f, completed)).size = PreviousSize(RowFor(f, completed).path, RowFor(f, completed))
  BY DEF Note
<1> QED BY <1>1, <1>3, <1>4, <1>5, NoteOf

\* What remains to be shown of a step of the run that stores nothing.
LEMMA RunCovered ==
  ASSUME ResumeInv, CoverInv, UNCHANGED fsVars, UNCHANGED dbVars, UNCHANGED targets, pc' = pc, pc = "run",
         Book(World, NextCurrent', NextFormer', SeenNext'),
         PlansFit(World, file, glob, todo', NextCurrent', NextFormer', SeenNext'),
         active' # NoFile => ReadFits(World, file, glob, active', todo', NextCurrent', NextFormer', SeenNext'),
         Distinct', Once',
         retired' = retired,
         \A r \in Range(pending)' :
           r.completed /\ (r.inode = dir[Live] /\ At(Live).size > 0 => r.uhead = HeadOf(At(Live)))
  PROVE  CoverInv'
<1>1. World' = World /\ file' = file /\ dir' = dir /\ glob' = glob /\ written' = written
  BY DEF World, fsVars
<1>2. count' = count /\ parseState' = parseState /\ archive' = archive /\ lastLog' = lastLog
  BY DEF dbVars
<1>3. \A l : BeforeTarget(l)' = BeforeTarget(l)
  BY DEF BeforeTarget
<1>4. Current' = Current /\ Former' = Former /\ Seen' = Seen
  BY <1>2, <1>3 DEF Current, Former, Seen
<1>5. Tidy(World)' /\ Books'
  BY <1>1, <1>4, CoverParts DEF Books
<1>6. Planned' /\ Reading'
  BY <1>1 DEF Planned, Reading
<1>7. Done'
  BY <1>1, <1>2, CoverParts DEF Done, At
<1>8. LastSeen'
  BY <1>1, <1>2, <1>3, <1>4, CoverParts DEF LastSeen
<1> QED BY <1>5, <1>6, <1>7, <1>8 DEF CoverInv

LEMMA OpenFileCovers ==
  ASSUME ResumeInv, CoverInv, Untroubled, OpenFile
  PROVE  CoverInv'
<1> DEFINE w == World
           p == todo[1]
           c == file[p.inode]
           f == [plan |-> p, inode |-> p.inode, at |-> p.uoff, earliest |-> NoTs, latest |-> NoTs]
           m == Note(RowFor(f, FALSE))
<1>1. /\ TypeOK /\ Idle /\ Fit /\ HeadSize = 1 /\ pc = "run" /\ active = NoFile /\ todo # <<>>
      /\ dir[Head(todo).path] # NoInode /\ todo' = Tail(todo)
      /\ active' = [plan |-> Head(todo), inode |-> dir[Head(todo).path], at |-> Head(todo).uoff,
                    earliest |-> NoTs, latest |-> NoTs]
      /\ UNCHANGED <<fsVars, dbVars, pc, acc, pending, retired, histVars>>
  BY DEF ResumeInv, Untroubled, OpenFile
<1>2. /\ Len(todo) \in Nat /\ 1 \in DOMAIN todo /\ Head(todo) = p
      /\ DOMAIN todo' \subseteq 1..(Len(todo) - 1)
      /\ \A k \in DOMAIN todo' : k \in Nat /\ k >= 1 /\ k + 1 \in DOMAIN todo /\ todo'[k] = todo[k + 1]
      /\ \A j \in DOMAIN todo : j # 1 => j - 1 \in DOMAIN todo' /\ todo'[j - 1] = todo[j]
  <2>1. todo \in Seq(Row)
    BY <1>1 DEF TypeOK
  <2> QED BY <1>1, <2>1
<1>3. /\ Tidy(w) /\ Book(w, NextCurrent, NextFormer, SeenNext)
      /\ PlansFit(w, file, glob, todo, NextCurrent, NextFormer, SeenNext)
      /\ Distinct /\ Done /\ Once
  BY CoverParts
<1>4. /\ p \in Row /\ p.path \in Paths /\ p.inode \in Inodes /\ p.inode # NoInode /\ p.path \in glob
      /\ PlanFits(w, p, c, NextCurrent, SeenNext)
      /\ Note(p) \in NoteType /\ Note(p).path = p.path
  BY <1>2, PlanIs DEF w
<1>5. w \in WorldType /\ w.inode = dir /\ dir[p.path] # NoInode
  BY <1>1, <1>2, ThisWorld
<1>6. dir[p.path] = p.inode /\ On(w, p.path) /\ w.at[p.path] = c
  <2>1. dir[p.path] = p.inode
    BY <1>4, <1>5 DEF PlanFits, On
  <2> QED BY <1>1, <1>4, <1>5, <2>1, ThisWorld
<1>7. active' = f /\ f \in ActiveFile /\ active' # NoFile
  <2>1. p.uoff \in 0..MaxLines /\ NoTs \in 0..MaxLines
    <3>1. p \in Row
      BY <1>4
    <3>2. p.uoff \in 0..MaxLines
      BY <3>1 DEF Row
    <3>3. 0 \in 0..MaxLines
      BY Constants DEF Lines0
    <3> QED BY <3>2, <3>3 DEF NoTs
  <2>2. active' = f /\ f \in ActiveFile
    BY <1>1, <1>2, <1>4, <1>6, <2>1 DEF ActiveFile
  <2>3. f.inode # NoFile.inode
    BY <1>4 DEF NoFile
  <2> QED BY <2>2, <2>3
<1>8. /\ m \in NoteType /\ m.path = p.path /\ m.inode = p.inode /\ m.head = p.uhead
      /\ m.head = Note(p).head /\ m.chead = Note(p).chead /\ m.mtime = Note(p).mtime /\ m.size = Note(p).size
      /\ m.upto = p.uoff /\ Note(p).inode = p.inode /\ Note(p).upto = p.uoff
  <2>1. f.plan = p /\ f.at = p.uoff /\ FALSE \in BOOLEAN
    OBVIOUS
  <2>2. /\ m \in NoteType /\ m.path = f.plan.path /\ m.inode = f.plan.inode /\ m.head = f.plan.uhead
        /\ m.head = Note(f.plan).head /\ m.chead = Note(f.plan).chead
        /\ m.mtime = Note(f.plan).mtime /\ m.size = Note(f.plan).size /\ m.upto = f.at
    <3> HIDE DEF f
    <3> QED BY <1>7, FileNote
  <2> QED BY <1>4, <2>1, <2>2, NoteOf
<1>9. /\ NextCurrent \in SUBSET NoteType /\ NextFormer \in SUBSET NoteType /\ SeenNext \in SUBSET Line
  BY TablesTyped
<1>10. NextCurrent' = Stored(NextCurrent, m) /\ NextFormer' = NextFormer /\ SeenNext' = SeenNext
  <2>1. \A n \in Storing : n.path # m.path
    <3>1. \A r \in Range(pending) : r \in Row /\ r.path # p.path
      <4>1. \A j \in DOMAIN pending : pending[j].path # p.path
        BY <1>2, <1>3 DEF Distinct
      <4> QED BY <1>1, <4>1, HandIs
    <3> SUFFICES ASSUME NEW n \in Storing PROVE n.path # p.path
      BY <1>8
    <3>2. PICK r \in Range(pending) : n = Note(r)
      BY <1>1, <1>3, NextNotes
    <3> QED BY <3>1, <3>2, NoteOf
  <2>2. Storing' = Storing \cup {m}
    BY <1>1, <1>7 DEF Storing
  <2>3. Unretired' = Unretired
    BY <1>1 DEF Unretired, dbVars
  <2>4. NextCurrent' = {n \in Notes(Unretired) : \A s \in Storing \cup {m} : n.path # s.path} \cup (Storing \cup {m})
    BY <2>2, <2>3 DEF NextCurrent
  <2>5. NextCurrent' = Stored(NextCurrent, m)
    <3> HIDE DEF m
    <3> QED BY <2>1, <2>4 DEF NextCurrent, Stored
  <2>6. NextFormer' = NextFormer
    BY <1>1 DEF NextFormer, Former, dbVars
  <2>7. \A l : BeforeTarget(l)' = BeforeTarget(l)
    BY <1>1 DEF BeforeTarget, histVars
  <2>8. SeenNext' = SeenNext
    BY <1>1, <2>7 DEF SeenNext, dbVars
  <2> QED BY <2>5, <2>6, <2>8
<1>11. \A k \in DOMAIN todo' : c.from < file[todo'[k].inode].from /\ todo'[k].path # p.path
  <2> SUFFICES ASSUME NEW k \in DOMAIN todo'
               PROVE  c.from < file[todo'[k].inode].from /\ todo'[k].path # p.path
    OBVIOUS
  <2>1. k + 1 \in DOMAIN todo /\ 1 < k + 1 /\ todo'[k] = todo[k + 1]
    BY <1>2
  <2>2. c.from < file[todo[k + 1].inode].from
    BY <1>2, <1>3, <2>1 DEF PlansFit
  <2>3. c.from \in Nat
    BY <1>1, <1>4, ContentIs DEF TypeOK
  <2>4. p \in InHand /\ todo[k + 1] \in InHand
    BY <1>1, <1>2, <2>1, HandIs DEF InHand
  <2>5. todo[k + 1].path = p.path => todo[k + 1].inode = p.inode
    BY <1>1, <2>4 DEF Fit, SameFile
  <2> QED BY <2>1, <2>2, <2>3, <2>5
<1>12. SettledBefore(w, c.from, NextCurrent, NextFormer, SeenNext)
  <2>1. ~(\E j \in DOMAIN todo : j < 1)
    BY <1>2, <1>1, HandIs
  <2>2. \A q \in {Rotated, Packed} : On(w, q) /\ EndAt(w, q) <= file[todo[1].inode].from =>
          Settled(w, q, NextCurrent, NextFormer, SeenNext)
    BY <1>2, <1>3, <2>1 DEF PlansFit
  <2> QED BY <2>2 DEF SettledBefore
<1>13. \A n \in NextCurrent : n.inode = m.inode => n.path = m.path
  <2> SUFFICES ASSUME NEW n \in NextCurrent, n.inode = p.inode PROVE n.path = p.path
    BY <1>8
  <2>1. p \in InHand
    BY <1>1, <1>2, HandIs DEF InHand
  <2>2. CASE n \in Storing
    <3>1. PICK r \in Range(pending) : n = Note(r)
      BY <1>1, <1>3, <2>2, NextNotes
    <3> QED BY <1>1, <2>1, <3>1, HandIs, NoteOf DEF Fit, SameFile, InHand
  <2>3. CASE n \in Notes(Unretired)
    <3>1. PICK s \in Unretired : n = Note(s)
      BY <2>3 DEF Notes
    <3>2. s \in Row
      BY <1>1 DEF TypeOK, Unretired
    <3> QED BY <1>1, <2>1, <3>1, <3>2, NoteOf DEF Fit
  <2> QED BY <2>2, <2>3 DEF NextCurrent
<1> HIDE DEF w, p, c, f, m
<1>14. About(w, m, c) /\ Covers(w, m, m.path, SeenNext) /\ About(w, Note(p), c) /\ Within(c, p.uoff, SeenNext)
  <2>1. About(w, Note(p), c) /\ Within(c, p.uoff, SeenNext)
    BY <1>4, <1>5, <1>6 DEF PlanFits
  <2>2. WellMade(w, m)
    BY <1>4, <1>8, <2>1 DEF About, WellMade
  <2> QED BY <1>4, <1>6, <1>8, <2>1, <2>2 DEF About, Covers
<1>15. m.path = Live => \A q \in {Rotated, Packed} : Settled(w, q, NextCurrent, NextFormer, SeenNext)
  <2> SUFFICES ASSUME m.path = Live, NEW q \in {Rotated, Packed}
               PROVE  Settled(w, q, NextCurrent, NextFormer, SeenNext)
    OBVIOUS
  <2>1. CASE ~On(w, q)
    BY <2>1 DEF Settled, SeenAt
  <2>2. CASE On(w, q)
    <3>1. EndAt(w, q) <= c.from
      <4>1. c = w.at[Live]
        BY <1>6, <1>8
      <4>2. \A r \in Paths : w.at[r].from \in Nat /\ w.at[r].size \in Nat /\ EndAt(w, r) = w.at[r].from + w.at[r].size
        BY <1>5, WorldIs
      <4> QED BY <1>3, <2>2, <4>1, <4>2, ThreePaths DEF Tidy, Edge
    <3> QED BY <1>12, <2>2, <3>1 DEF SettledBefore
  <2> QED BY <2>1, <2>2
<1>16. \A n \in NextCurrent : n.path = m.path => n.inode = m.inode /\ n.head \in {m.head, NoHead}
  BY <1>4, <1>8 DEF PlanFits
<1>17. /\ Book(w, NextCurrent', NextFormer', SeenNext') /\ HasOwn(w, p.path, NextCurrent')
       /\ \A q \in {Rotated, Packed} : Settled(w, q, NextCurrent, NextFormer, SeenNext) =>
            Settled(w, q, NextCurrent', NextFormer', SeenNext')
  <2>1. m.inode = w.inode[m.path] /\ About(w, m, w.at[m.path])
    BY <1>5, <1>6, <1>8, <1>14
  <2> QED BY <1>1, <1>3, <1>5, <1>8, <1>9, <1>10, <1>13, <1>14, <1>15, <1>16, <2>1, BookStores
<1>18. PlansFit(w, file, glob, todo', NextCurrent', NextFormer', SeenNext')
  <2> SUFFICES ASSUME NEW k \in DOMAIN todo'
        PROVE  LET d == file[todo'[k].inode]
               IN /\ todo'[k].path \in glob /\ PlanFits(w, todo'[k], d, NextCurrent', SeenNext')
                  /\ \A j \in DOMAIN todo' : j < k => file[todo'[j].inode].from < d.from
                  /\ \A q \in {Rotated, Packed} : On(w, q) /\ EndAt(w, q) <= d.from =>
                       \/ Settled(w, q, NextCurrent', NextFormer', SeenNext')
                       \/ \E j \in DOMAIN todo' : j < k /\ (~On(w, todo'[j].path) \/ todo'[j].path = q)
    BY DEF PlansFit
  <2> DEFINE d == file[todo'[k].inode]
  <2>1. k + 1 \in DOMAIN todo /\ todo'[k] = todo[k + 1] /\ k \in Nat
    BY <1>2
  <2>2. /\ todo[k + 1].path \in glob /\ PlanFits(w, todo[k + 1], d, NextCurrent, SeenNext)
        /\ \A j \in DOMAIN todo : j < k + 1 => file[todo[j].inode].from < d.from
        /\ \A q \in {Rotated, Packed} : On(w, q) /\ EndAt(w, q) <= d.from =>
             \/ Settled(w, q, NextCurrent, NextFormer, SeenNext)
             \/ \E j \in DOMAIN todo : j < k + 1 /\ (~On(w, todo[j].path) \/ todo[j].path = q)
    BY <1>3, <2>1 DEF PlansFit
  <2>3. PlanFits(w, todo'[k], d, NextCurrent', SeenNext')
    <3>1. m.path # todo[k + 1].path
      BY <1>8, <1>11, <2>1
    <3>2. \A n \in NextCurrent' : n.path = todo[k + 1].path => n \in NextCurrent
      BY <1>10, <3>1 DEF Stored
    <3> QED BY <1>10, <2>1, <2>2, <3>2 DEF PlanFits
  <2>4. ASSUME NEW j \in DOMAIN todo', j < k PROVE file[todo'[j].inode].from < d.from
    <3>1. j + 1 \in DOMAIN todo /\ todo'[j] = todo[j + 1] /\ j + 1 < k + 1
      BY <1>2, <2>1, <2>4
    <3> QED BY <2>2, <3>1
  <2>5. ASSUME NEW q \in {Rotated, Packed}, On(w, q), EndAt(w, q) <= d.from
        PROVE  \/ Settled(w, q, NextCurrent', NextFormer', SeenNext')
               \/ \E j \in DOMAIN todo' : j < k /\ (~On(w, todo'[j].path) \/ todo'[j].path = q)
    <3>1. CASE Settled(w, q, NextCurrent, NextFormer, SeenNext)
      BY <1>17, <3>1
    <3>2. CASE \E j \in DOMAIN todo : j < k + 1 /\ (~On(w, todo[j].path) \/ todo[j].path = q)
      <4>1. PICK j \in DOMAIN todo : j < k + 1 /\ (~On(w, todo[j].path) \/ todo[j].path = q)
        BY <3>2
      <4>2. CASE j = 1
        <5>1. p.path = q
          BY <1>6, <4>1, <4>2 DEF p
        <5> QED BY <1>17, <5>1 DEF Settled
      <4>3. CASE j # 1
        <5>1. j - 1 \in DOMAIN todo' /\ todo'[j - 1] = todo[j]
          BY <1>2, <4>3
        <5>2. j \in Nat /\ j - 1 < k
          BY <1>1, <2>1, <4>1, HandIs
        <5> QED BY <4>1, <5>1, <5>2
      <4> QED BY <4>2, <4>3
    <3> QED BY <2>2, <2>5, <3>1, <3>2
  <2> QED BY <2>1, <2>2, <2>3, <2>4, <2>5
<1>19. ReadFits(w, file, glob, active', todo', NextCurrent', NextFormer', SeenNext')
  <2>1. active'.plan = p /\ active'.inode = p.inode /\ active'.at = p.uoff
    BY <1>7 DEF f
  <2>2. SettledBefore(w, c.from, NextCurrent', NextFormer', SeenNext')
    BY <1>12, <1>17 DEF SettledBefore
  <2>3. Placed(w, p.path, p.inode, c)
    BY <1>5, <1>6 DEF Placed
  <2>4. Within(c, p.uoff, SeenNext')
    BY <1>10, <1>14
  <2>5. c = file[p.inode]
    BY DEF c
  <2> QED BY <1>4, <1>11, <1>14, <2>1, <2>2, <2>3, <2>4, <2>5 DEF ReadFits
<1>20. Distinct'
  <2>1. pending' = pending /\ active'.plan = p
    BY <1>1, <1>7 DEF f
  <2>2. \A j \in DOMAIN pending : pending[j].path # p.path
    BY <1>2, <1>3 DEF Distinct, p
  <2>3. \A j \in DOMAIN pending, k \in DOMAIN todo' : pending[j].path # todo'[k].path
    BY <1>2, <1>3 DEF Distinct
  <2> QED BY <1>3, <1>11, <2>1, <2>2, <2>3 DEF Distinct
<1>21. Once'
  <2>1. \A l : BeforeTarget(l)' = BeforeTarget(l)
    BY <1>1 DEF BeforeTarget, histVars
  <2> QED BY <1>1, <1>3, <2>1 DEF Once, dbVars
<1>22. /\ UNCHANGED fsVars /\ UNCHANGED dbVars /\ UNCHANGED targets /\ pc' = pc /\ retired' = retired
       /\ Range(pending)' = Range(pending)
  BY <1>1 DEF histVars, Range
<1>23. \A r \in Range(pending)' :
         r.completed /\ (r.inode = dir[Live] /\ At(Live).size > 0 => r.uhead = HeadOf(At(Live)))
  BY <1>3, <1>22 DEF Done
<1> QED BY <1>1, <1>17, <1>18, <1>19, <1>20, <1>21, <1>22, <1>23, RunCovered DEF w

\* The row m of a file, of content c, takes in lines of it that are counted.
LEMMA BookAdvances ==
  ASSUME HeadSize = 1, NEW w \in WorldType, Tidy(w),
         NEW cur \in SUBSET NoteType, NEW old \in SUBSET NoteType, NEW S \in SUBSET Line, NEW S2 \in SUBSET Line,
         Paired(cur), Book(w, cur, old, S), NEW c \in Content, NEW m \in cur, NEW m2 \in NoteType,
         Alike(m2, m), m.upto <= m2.upto, m.head = HeadOf(c), Within(c, m.upto, S),
         Placed(w, m.path, m.inode, c), \A p \in Paths : w.inode[p] = m.inode => w.at[p] = c,
         SettledBefore(w, c.from, cur, old, S), S \subseteq S2,
         \A l \in S2 \ S : c.from < l /\ l <= c.from + c.size /\ l <= c.from + m2.upto
  PROVE  /\ Book(w, Stored(cur, m2), old, S2) /\ Within(c, m2.upto, S2)
         /\ \A p \in {Rotated, Packed} : Settled(w, p, cur, old, S) => Settled(w, p, Stored(cur, m2), old, S2)
         /\ \A p \in Paths : On(w, p) /\ w.inode[p] # m.inode => SeenOf(w.at[p], S2) = SeenOf(w.at[p], S)
<1> DEFINE cur2 == Stored(cur, m2)
<1>1. /\ \A n \in cur \cup old : WellMade(w, n) /\ \A p \in Paths : Sized(w, n, p)
      /\ Single(cur, old)
      /\ LiveRows(w, cur, old) /\ RotatedRows(w, cur, old) /\ PackedRows(w, cur, old)
      /\ Counted(w, S) /\ Kinds(w, cur, old)
      /\ CoveredLive(w, cur, S) /\ CoveredRotated(w, cur, old, S) /\ CoveredPacked(w, cur, old, S)
  BY BookParts DEF Book
<1>2. /\ On(w, Live)
      /\ On(w, Rotated) => HeadAt(w, Rotated) # NoHead /\ HeadAt(w, Rotated) # HeadAt(w, Live)
      /\ On(w, Packed) => HeadAt(w, Packed) # NoHead /\ HeadAt(w, Packed) # HeadAt(w, Live)
      /\ On(w, Rotated) /\ On(w, Packed) => HeadAt(w, Packed) # HeadAt(w, Rotated)
      /\ \A p, q \in Paths : On(w, p) /\ p # q => w.inode[p] # w.inode[q]
  BY OtherHeads
<1>3. /\ \A p \in Paths : /\ w.at[p] \in Content /\ w.at[p].from \in Nat /\ w.at[p].size \in Nat
                          /\ EndAt(w, p) = w.at[p].from + w.at[p].size /\ EndAt(w, p) \in Nat
      /\ w.end \in Nat /\ Edge(w) \in Nat /\ c.from \in Nat /\ c.size \in Nat
      /\ EndOfAll(c) = c.from + c.size /\ \A l \in S2 : l \in Nat
  <2>1. \A l \in Line : l \in Nat
    BY Constants DEF Lines0
  <2>2. c.from \in Nat /\ c.size \in Nat
    BY ContentIs
  <2> QED BY <2>1, <2>2, WorldIs, EdgeIs DEF EndOfAll
<1>4. /\ m.path \in Paths /\ m.inode \in Inodes /\ m.upto \in Nat /\ m2.upto \in Nat
      /\ m2.path = m.path /\ m2.inode = m.inode /\ m2.head = m.head
  BY NoteIs DEF Alike
<1>5. /\ \A n \in cur2 : n = m2 \/ (n \in cur /\ n # m /\ n.path # m.path /\ n.inode # m.inode)
      /\ \A n \in cur : n # m => n \in cur2
      /\ m2 \in cur2
  BY <1>4 DEF Stored, Paired
<1> HIDE DEF cur2
<1>6. /\ EndAt(w, Live) = w.end /\ w.at[Live].from <= w.end /\ Edge(w) <= w.at[Live].from
      /\ On(w, Rotated) => /\ Edge(w) = w.at[Rotated].from /\ EndAt(w, Rotated) = w.at[Live].from
                           /\ w.at[Rotated].size > 0
      /\ On(w, Packed) => EndAt(w, Packed) = Edge(w) /\ w.at[Packed].size > 0
  BY <1>3, ThreePaths DEF Tidy, Edge
\* Where the file is.
<1>7. \/ w.inode[m.path] = m.inode /\ On(w, m.path) /\ c = w.at[m.path]
      \/ /\ m.path = Live /\ w.inode[Rotated] = m.inode /\ On(w, Rotated) /\ c = w.at[Rotated] /\ ~w.only
      \/ /\ w.only /\ m.path = Packed /\ \A p \in Paths : w.inode[p] # m.inode
         /\ EndOfAll(c) <= Edge(w) /\ (On(w, Packed) => EndOfAll(c) <= w.at[Packed].from)
         /\ m.head # NoHead => m.head[1] < Edge(w)
  <2>1. \A p \in Paths : w.inode[p] = m.inode => On(w, p) /\ w.at[p] = c
    BY <1>4, ThreePaths DEF On
  <2>2. w.only => m.path = Packed /\ m.head[1] < Edge(w)
    BY <1>1 DEF WellMade
  <2>3. CASE w.inode[m.path] = m.inode
    BY <1>4, <2>1, <2>3
  <2>4. CASE m.path = Live /\ w.inode[Rotated] = m.inode
    BY <2>1, <2>2, <2>4, ThreePaths
  <2>5. CASE /\ w.only /\ \A p \in Paths : w.inode[p] # m.inode
             /\ EndOfAll(c) <= Edge(w) /\ (On(w, Packed) => EndOfAll(c) <= w.at[Packed].from)
    BY <2>2, <2>5
  <2> QED BY <2>3, <2>4, <2>5 DEF Placed
\* The new lines are in no other file.
<1>8. ASSUME NEW p \in Paths, On(w, p), w.inode[p] # m.inode, NEW l \in S2 \ S
      PROVE  ~(w.at[p].from < l /\ l <= EndAt(w, p))
  <2>1. c.from < l /\ l <= EndOfAll(c) /\ l \in Nat
    BY <1>3
  <2> QED BY <1>3, <1>4, <1>6, <1>7, <1>8, <2>1, ThreePaths
<1>9. ASSUME NEW p \in Paths, On(w, p), w.inode[p] # m.inode
      PROVE  SeenOf(w.at[p], S2) = SeenOf(w.at[p], S)
  <2>1. \A l \in S2 \ S : l \notin AllLines(w.at[p])
    BY <1>3, <1>8, <1>9, LinesAre
  <2> QED BY <2>1 DEF SeenOf
<1>10. Within(c, m2.upto, S2)
  <2> SUFFICES ASSUME NEW l \in SeenOf(c, S2) PROVE l <= c.from + m2.upto
    BY DEF Within
  <2>1. l \in S2 \ S \/ l \in SeenOf(c, S)
    BY DEF SeenOf
  <2>2. l \in Nat
    BY <1>3 DEF SeenOf
  <2>3. l \in SeenOf(c, S) => l <= c.from + m.upto
    BY DEF Within
  <2> QED BY <1>3, <1>4, <2>1, <2>2, <2>3
<1>11. Kinds(w, cur2, old)
  <2>1. \A n \in cur2 : \E x \in cur \cup (old \ old) : Alike(n, x)
    <3>1. \A n : Alike(n, n)
      BY DEF Alike
    <3> QED BY <1>5, <3>1
  <2> QED BY <1>1, <2>1, KindsRewound
<1>12. Counted(w, S2)
  <2>1. EndOfAll(c) <= w.end /\ (w.only => EndOfAll(c) <= Edge(w))
    <3>1. w.only => m.path = Packed
      BY <1>1 DEF WellMade
    <3> QED BY <1>3, <1>4, <1>6, <1>7, <3>1, ThreePaths
  <2>2. \A l \in S2 \ S : l <= w.end /\ (w.only => l <= Edge(w))
    BY <1>3, <2>1
  <2> QED BY <1>1, <2>2 DEF Counted
<1>13. ASSUME NEW p \in Paths, On(w, p), w.inode[p] # m.inode
       PROVE  /\ HasOwn(w, p, cur2) = HasOwn(w, p, cur)
              /\ OwnCovers(w, p, cur, S) => OwnCovers(w, p, cur2, S2)
  <2>1. \A n : n \in cur2 /\ n.inode = w.inode[p] <=> n \in cur /\ n.inode = w.inode[p]
    BY <1>4, <1>5, <1>13
  <2>2. \A n : Covers(w, n, p, S2) = Covers(w, n, p, S)
    BY <1>9, <1>13 DEF Covers, Within
  <2>3. HasOwn(w, p, cur2) = HasOwn(w, p, cur)
    BY <2>1 DEF HasOwn
  <2> QED BY <2>1, <2>2, <2>3 DEF OwnCovers
<1>14. ASSUME NEW p \in Paths, w.inode[p] = m.inode
       PROVE  OwnCovers(w, p, cur2, S2) /\ HasOwn(w, p, cur2)
  <2>1. w.at[p] = c /\ HeadAt(w, p) = HeadOf(c)
    BY <1>14 DEF HeadAt
  <2>2. \A n \in cur2 : n.inode = w.inode[p] => n = m2
    BY <1>5, <1>14
  <2>3. Covers(w, m2, p, S2)
    BY <1>10, <2>1 DEF Covers
  <2> QED BY <1>4, <1>5, <1>14, <2>1, <2>2, <2>3 DEF OwnCovers, HasOwn
<1>15. ASSUME On(w, Packed), w.inode[Packed] # m.inode, ReadRotated(w, cur, old, S)
       PROVE  ReadRotated(w, cur2, old, S2)
  <2>1. \A n : Covers(w, n, Packed, S2) = Covers(w, n, Packed, S)
    BY <1>9, <1>15, ThreePaths DEF Covers, Within
  <2>2. ~(m.path = Rotated /\ m.head = HeadAt(w, Packed))
    BY <1>2, <1>7, <1>15, ThreePaths DEF HeadAt
  <2> QED BY <1>4, <1>5, <1>15, <2>1, <2>2 DEF ReadRotated
<1>16. ASSUME NEW p \in {Rotated, Packed}, On(w, p), w.inode[p] # m.inode, Alone(w, p, cur, old, S),
              m.path # Live, m.head # HeadAt(w, p), \A l \in S2 \ S : l <= EndAt(w, p)
       PROVE  Alone(w, p, cur2, old, S2)
  <2>1. \A n : Covers(w, n, p, S2) = Covers(w, n, p, S)
    BY <1>9, <1>16, ThreePaths DEF Covers, Within
  <2> QED BY <1>4, <1>5, <1>16, <2>1 DEF Alone
<1>17. CoveredLive(w, cur2, S2)
  <2>1. CASE w.inode[Live] = m.inode
    BY <1>14, <2>1, ThreePaths DEF CoveredLive
  <2>2. CASE w.inode[Live] # m.inode
    BY <1>1, <1>2, <1>9, <1>13, <2>2, ThreePaths DEF CoveredLive, SeenAt
  <2> QED BY <2>1, <2>2
<1>18. CoveredRotated(w, cur2, old, S2)
  <2> SUFFICES ASSUME SeenAt(w, Rotated, S2), w.inode[Rotated] # m.inode, ~OwnCovers(w, Rotated, cur, S)
               PROVE  /\ ~HasOwn(w, Rotated, cur2)
                      /\ \A n \in cur2 : n.path # Rotated
                      /\ \A n \in old : n.inode = w.inode[Rotated] => n.head = HeadAt(w, Rotated)
                      /\ Alone(w, Rotated, cur2, old, S2)
    BY <1>13, <1>14, ThreePaths DEF CoveredRotated, SeenAt
  <2>1. On(w, Rotated) /\ SeenAt(w, Rotated, S)
    BY <1>9, ThreePaths DEF SeenAt
  <2>2. /\ ~HasOwn(w, Rotated, cur)
        /\ \A n \in cur : n.path # Rotated
        /\ \A n \in old : n.inode = w.inode[Rotated] => n.head = HeadAt(w, Rotated)
        /\ Alone(w, Rotated, cur, old, S)
    BY <1>1, <2>1 DEF CoveredRotated
  <2>3. m.path # Live
    <3> SUFFICES ASSUME m.path = Live PROVE FALSE
      OBVIOUS
    <3>1. c = w.at[Live]
      BY <1>7, ThreePaths
    <3>2. EndAt(w, Rotated) <= c.from
      BY <1>3, <1>6, <2>1, <3>1, ThreePaths
    <3> QED BY <2>1, <2>2, <3>2, ThreePaths DEF SettledBefore, Settled
  <2>4. m.path = Packed
    BY <1>4, <2>2, <2>3, ThreePaths
  <2>5. EndOfAll(c) <= Edge(w)
    BY <1>3, <1>6, <1>7, <2>4, ThreePaths
  <2>6. \A l \in S2 \ S : l <= EndAt(w, Rotated)
    BY <1>3, <1>6, <2>1, <2>5, ThreePaths
  <2>7. m.head # HeadAt(w, Rotated)
    <3>1. CASE w.inode[m.path] = m.inode
      BY <1>2, <1>7, <2>1, <2>4, <3>1, ThreePaths DEF HeadAt
    <3>2. CASE m.head # NoHead /\ m.head[1] < Edge(w)
      <4>1. w.at[Rotated].from = HeadAt(w, Rotated)[1]
        BY <1>3, <1>6, <2>1, HeadIs, ThreePaths DEF HeadAt
      <4> QED BY <1>3, <1>6, <2>1, <3>2, <4>1, ThreePaths
    <3>3. CASE m.head = NoHead
      BY <1>2, <2>1, <3>3
    <3> QED BY <1>7, <2>3, <3>1, <3>2, <3>3
  <2>8. Alone(w, Rotated, cur2, old, S2)
    BY <1>16, <2>1, <2>2, <2>3, <2>6, <2>7
  <2> QED BY <1>4, <1>5, <1>13, <2>1, <2>2, <2>4, <2>8, ThreePaths
<1>19. CoveredPacked(w, cur2, old, S2)
  <2> SUFFICES ASSUME SeenAt(w, Packed, S2), w.inode[Packed] # m.inode, ~OwnCovers(w, Packed, cur, S)
               PROVE  /\ ~HasOwn(w, Packed, cur2)
                      /\ \A n \in cur2 : n.path # Packed
                      /\ ReadRotated(w, cur2, old, S2)
    BY <1>13, <1>14, ThreePaths DEF CoveredPacked, SeenAt
  <2>1. On(w, Packed) /\ SeenAt(w, Packed, S)
    BY <1>9, ThreePaths DEF SeenAt
  <2>2. ~HasOwn(w, Packed, cur) /\ \A n \in cur : n.path # Packed
    BY <1>1, <2>1 DEF CoveredPacked
  <2>3. m.path # Packed
    BY <2>2
  <2>4. EndAt(w, Packed) <= c.from
    BY <1>3, <1>4, <1>6, <1>7, <2>1, <2>3, ThreePaths
  <2>5. ReadRotated(w, cur, old, S)
    BY <2>1, <2>2, <2>4, ThreePaths DEF SettledBefore, Settled
  <2> QED BY <1>4, <1>5, <1>13, <1>15, <2>1, <2>2, <2>3, <2>5, ThreePaths
<1>20. Book(w, cur2, old, S2)
  BY <1>11, <1>12, <1>17, <1>18, <1>19 DEF Book
<1>21. ASSUME NEW p \in {Rotated, Packed}, Settled(w, p, cur, old, S) PROVE Settled(w, p, cur2, old, S2)
  <2>1. CASE w.inode[p] = m.inode
    BY <1>14, <2>1, ThreePaths DEF Settled
  <2>2. CASE w.inode[p] # m.inode
    BY <1>9, <1>13, <1>15, <1>21, <2>2, ThreePaths DEF Settled, SeenAt
  <2> QED BY <2>1, <2>2
<1> QED BY <1>9, <1>10, <1>20, <1>21 DEF cur2

SeenWith(counted) == {l \in Line : count[l] + counted[l] > 0 /\ ~BeforeTarget(l)}

\* The file is read up to a line.
LEMMA ReadOn ==
  ASSUME ResumeInv, CoverInv, Untroubled, active # NoFile, NEW end \in 0..MaxLines,
         end <= file[active.inode].size, NEW completed \in BOOLEAN
  PROVE  LET f   == ReadTo(end)
             m2  == Note(RowFor(f, completed))
             cur == Stored(NextCurrent, m2)
             S2  == SeenWith(AccWith(end))
         IN /\ f \in ActiveFile /\ f.plan = active.plan /\ f.inode = active.inode
            /\ m2 \in NoteType /\ m2.path = active.plan.path
            /\ m2.inode = active.inode /\ m2.head = HeadOf(file[active.inode]) /\ m2.done = completed
            /\ f.at >= end /\ PlanSize(active.plan) <= file[active.inode].size
            /\ \A r \in Range(pending) : Note(r).path # m2.path
            /\ Book(World, cur, NextFormer, S2)
            /\ PlansFit(World, file, glob, todo, cur, NextFormer, S2)
            /\ ReadFits(World, file, glob, f, todo, cur, NextFormer, S2)
            /\ \A l \in Line : count[l] + AccWith(end)[l] > 1 => BeforeTarget(l)
<1> DEFINE w == World
           c == file[active.inode]
           f == ReadTo(end)
           m == Note(RowFor(active, FALSE))
           m2 == Note(RowFor(f, completed))
           cur == Stored(NextCurrent, m2)
           S == SeenNext
           S2 == SeenWith(AccWith(end))
<1>1. TypeOK /\ Idle /\ Fit /\ HeadSize = 1 /\ MaxLines \in Nat
  BY ResumeAssumption DEF ResumeInv, Untroubled
<1>2. /\ Tidy(w) /\ Book(w, NextCurrent, NextFormer, S)
      /\ PlansFit(w, file, glob, todo, NextCurrent, NextFormer, S) /\ Distinct /\ Done /\ Once
      /\ Paired(NextCurrent)
  BY CoverParts, TablesPaired
<1>3. /\ ReadFits(w, file, glob, active, todo, NextCurrent, NextFormer, S)
      /\ active.inode \in Inodes /\ active.plan.path \in Paths /\ active.plan.inode = active.inode
  BY ReadingIs
<1>4. /\ w \in WorldType /\ w.inode = dir
      /\ \A p \in Paths : w.inode[p] = active.inode => w.at[p] = c
  <2>1. active.inode # NoInode
    BY <1>3, ThreePaths
  <2> QED BY <1>1, <2>1, ThisWorld
<1>5. /\ NextCurrent \in SUBSET NoteType /\ NextFormer \in SUBSET NoteType /\ S \in SUBSET Line /\ S2 \in SUBSET Line
  BY TablesTyped DEF SeenWith
<1>6. c \in Content /\ c.from \in Nat /\ c.size \in Nat /\ active.at \in Nat /\ end \in Nat
  <2>1. c \in Content
    BY <1>1, <1>3 DEF TypeOK
  <2>2. active \in ActiveFile
    BY <1>1, HandIs
  <2> QED BY <1>1, <2>1, <2>2, ContentIs DEF ActiveFile
<1>7. /\ f \in ActiveFile /\ f.plan = active.plan /\ f.inode = active.inode
      /\ f.at = IF end > active.at THEN end ELSE active.at
  <2>1. active \in ActiveFile
    BY <1>1, HandIs
  <2>2. f.inode = active.inode /\ f.at = IF end > active.at THEN end ELSE active.at
    BY <2>1 DEF ReadTo, ActiveFile
  <2> QED BY <1>1, <2>2, ReadIs
<1>8. /\ m \in NoteType /\ m.path = active.plan.path /\ m.inode = active.inode /\ m.upto = active.at
      /\ m.head = Note(active.plan).head /\ m.chead = Note(active.plan).chead
      /\ m.mtime = Note(active.plan).mtime /\ m.size = Note(active.plan).size
  BY <1>1, <1>3, ActiveNote
<1>9. /\ m2 \in NoteType /\ m2.path = active.plan.path /\ m2.inode = active.inode /\ m2.upto = f.at
      /\ m2.head = m.head /\ m2.chead = m.chead /\ m2.mtime = m.mtime /\ m2.size = m.size
      /\ m2.done = completed
  <2> HIDE DEF f
  <2> QED BY <1>3, <1>7, <1>8, FileNote
<1>10. m \in NextCurrent /\ m \in Storing
  BY DEF NextCurrent, Storing
<1>11. /\ About(w, Note(active.plan), c) /\ m.head = HeadOf(c) /\ Within(c, active.at, S)
       /\ \A k \in DOMAIN todo : c.from < file[todo[k].inode].from
       /\ SettledBefore(w, c.from, NextCurrent, NextFormer, S)
       /\ Placed(w, active.plan.path, active.inode, c) /\ active.plan.path \in glob
  BY <1>3, <1>8 DEF ReadFits, About
<1>12. \A l \in Line : /\ l \in Nat /\ count[l] \in Nat /\ acc[l] \in Nat
                       /\ AccWith(end)[l] = acc[l] + (IF l \in Kept(end) THEN 1 ELSE 0)
  <2>1. \A l \in Line : l \in Nat
    BY Constants DEF Lines0
  <2> QED BY <1>1, <2>1 DEF TypeOK, AccWith
<1>13. \A l \in Kept(end) : /\ l \in Line /\ c.from + active.at < l /\ l <= c.from + end /\ l \in AllLines(c)
  <2>1. \A l \in Kept(end) : l \in Line /\ c.from + active.at < l /\ l <= c.from + end
    BY DEF Kept, LinesOf
  <2> SUFFICES ASSUME NEW l \in Kept(end) PROVE l \in AllLines(c)
    BY <2>1
  <2>2. l \in Line /\ l \in Nat /\ c.from < l /\ l <= c.from + c.size
    BY <1>6, <1>12, <2>1
  <2> QED BY <1>6, <2>2, LinesAre
<1>14. S \subseteq S2
  BY <1>12 DEF SeenNext, SeenWith
<1>15. \A l \in S2 \ S : c.from < l /\ l <= c.from + c.size /\ l <= c.from + f.at
  <2> SUFFICES ASSUME NEW l \in S2 \ S PROVE c.from < l /\ l <= c.from + c.size /\ l <= c.from + f.at
    OBVIOUS
  <2>1. l \in Kept(end)
    BY <1>12 DEF SeenNext, SeenWith
  <2>2. l \in Nat /\ c.from + active.at < l /\ l <= c.from + end
    BY <1>12, <1>13, <2>1
  <2> QED BY <1>6, <1>7, <2>2
<1>16. Alike(m2, m)
  <2> SUFFICES ASSUME m.head = NoHead PROVE f.at = active.at
    BY <1>8, <1>9 DEF Alike
  <2>1. c.size = 0
    BY <1>1, <1>6, <1>11, HeadIs
  <2> QED BY <1>6, <1>7, <2>1
<1> HIDE DEF w, c, f, m, m2, S, S2
<1>17. /\ Book(w, cur, NextFormer, S2) /\ Within(c, f.at, S2)
       /\ \A p \in {Rotated, Packed} :
            Settled(w, p, NextCurrent, NextFormer, S) => Settled(w, p, cur, NextFormer, S2)
       /\ \A p \in Paths : On(w, p) /\ w.inode[p] # active.inode => SeenOf(w.at[p], S2) = SeenOf(w.at[p], S)
  <2>1. m.upto <= m2.upto
    BY <1>6, <1>7, <1>8, <1>9
  <2>2. HeadSize = 1 /\ w \in WorldType /\ Tidy(w) /\ Paired(NextCurrent) /\ Book(w, NextCurrent, NextFormer, S)
    BY <1>1, <1>2, <1>4
  <2>3. c \in Content /\ m \in NextCurrent /\ m2 \in NoteType
    BY <1>6, <1>9, <1>10
  <2>4. /\ m.head = HeadOf(c) /\ Within(c, m.upto, S) /\ Placed(w, m.path, m.inode, c)
        /\ \A p \in Paths : w.inode[p] = m.inode => w.at[p] = c
    BY <1>4, <1>8, <1>11
  <2>5. SettledBefore(w, c.from, NextCurrent, NextFormer, S)
    BY <1>11
  <2>6. \A l \in S2 \ S : c.from < l /\ l <= c.from + c.size /\ l <= c.from + m2.upto
    BY <1>9, <1>15
  <2>7. /\ Book(w, Stored(NextCurrent, m2), NextFormer, S2) /\ Within(c, m2.upto, S2)
        /\ \A p \in {Rotated, Packed} :
             Settled(w, p, NextCurrent, NextFormer, S) => Settled(w, p, Stored(NextCurrent, m2), NextFormer, S2)
        /\ \A p \in Paths : On(w, p) /\ w.inode[p] # m.inode => SeenOf(w.at[p], S2) = SeenOf(w.at[p], S)
    BY <1>5, <1>14, <1>16, <2>1, <2>2, <2>3, <2>4, <2>5, <2>6, BookAdvances
  <2> QED BY <1>8, <1>9, <2>7
<1>18. PlansFit(w, file, glob, todo, cur, NextFormer, S2)
  <2> SUFFICES ASSUME NEW k \in DOMAIN todo
               PROVE  LET d == file[todo[k].inode]
                      IN /\ todo[k].path \in glob /\ PlanFits(w, todo[k], d, cur, S2)
                         /\ \A j \in DOMAIN todo : j < k => file[todo[j].inode].from < d.from
                         /\ \A p \in {Rotated, Packed} : On(w, p) /\ EndAt(w, p) <= d.from =>
                              \/ Settled(w, p, cur, NextFormer, S2)
                              \/ \E j \in DOMAIN todo : j < k /\ (~On(w, todo[j].path) \/ todo[j].path = p)
    BY DEF PlansFit
  <2> DEFINE d == file[todo[k].inode]
  <2>1. /\ todo[k].path \in glob /\ PlanFits(w, todo[k], d, NextCurrent, S)
        /\ \A j \in DOMAIN todo : j < k => file[todo[j].inode].from < d.from
        /\ \A p \in {Rotated, Packed} : On(w, p) /\ EndAt(w, p) <= d.from =>
             \/ Settled(w, p, NextCurrent, NextFormer, S)
             \/ \E j \in DOMAIN todo : j < k /\ (~On(w, todo[j].path) \/ todo[j].path = p)
    BY <1>2 DEF PlansFit
  <2>2. todo[k].path \in Paths /\ todo[k].inode \in Inodes /\ todo[k].inode # NoInode
    BY PlanIs
  <2>3. todo[k].inode # active.inode
    BY <1>6, <1>11 DEF c
  <2>4. w.inode[todo[k].path] = todo[k].inode => Within(d, todo[k].uoff, S2)
    <3> SUFFICES ASSUME w.inode[todo[k].path] = todo[k].inode PROVE Within(d, todo[k].uoff, S2)
      OBVIOUS
    <3>1. On(w, todo[k].path) /\ w.at[todo[k].path] = d
      BY <1>1, <1>4, <2>2, ThisWorld DEF w, On
    <3>2. Within(d, todo[k].uoff, S)
      BY <2>1 DEF PlanFits
    <3>3. SeenOf(d, S2) = SeenOf(d, S)
      BY <1>17, <2>2, <2>3, <3>1
    <3> QED BY <3>2, <3>3 DEF Within
  <2>5. \A n \in cur : n.path = todo[k].path => n \in NextCurrent
    <3>1. todo[k].path # m2.path
      BY <1>2, <1>9 DEF Distinct
    <3> QED BY <3>1 DEF Stored
  <2>6. PlanFits(w, todo[k], d, cur, S2)
    BY <2>1, <2>4, <2>5 DEF PlanFits
  <2> QED BY <1>17, <2>1, <2>6
<1>19. ReadFits(w, file, glob, f, todo, cur, NextFormer, S2)
  <2>1. SettledBefore(w, c.from, cur, NextFormer, S2)
    BY <1>11, <1>17 DEF SettledBefore
  <2>2. c = file[f.inode]
    BY <1>7 DEF c
  <2> QED BY <1>3, <1>7, <1>11, <1>17, <2>1, <2>2 DEF ReadFits
<1>20. ASSUME NEW l \in Line, count[l] + AccWith(end)[l] > 1 PROVE BeforeTarget(l)
  <2>1. CASE count[l] + acc[l] > 1
    BY <1>2, <2>1 DEF Once
  <2>2. CASE ~(count[l] + acc[l] > 1)
    <3>1. count[l] + acc[l] > 0 /\ l \in Kept(end)
      BY <1>12, <1>20, <2>2
    <3> SUFFICES ASSUME ~BeforeTarget(l) PROVE FALSE
      OBVIOUS
    <3>2. l \in S
      BY <3>1 DEF SeenNext, S
    <3>3. l \in SeenOf(c, S)
      BY <1>13, <3>1, <3>2 DEF SeenOf
    <3>4. l <= c.from + active.at
      BY <1>11, <3>3 DEF Within
    <3>5. c.from + active.at < l /\ l \in Nat
      BY <1>12, <1>13, <3>1
    <3> QED BY <1>6, <3>4, <3>5
  <2> QED BY <2>1, <2>2
<1>21. ASSUME NEW r \in Range(pending) PROVE Note(r).path # m2.path
  <2>1. PICK k \in DOMAIN pending : r = pending[k]
    BY <1>1, HandIs
  <2> QED BY <1>1, <1>2, <1>9, <2>1, HandIs, NoteOf DEF Distinct
<1>22. PlanSize(active.plan) <= c.size
  <2>1. Note(active.plan).size = PreviousSize(active.plan.path, active.plan)
    BY DEF Note
  <2> QED BY <1>11, <2>1 DEF About, PlanSize, PreviousSize
<1>23. f.at >= end
  BY <1>6, <1>7
<1>24. m2.head = HeadOf(c)
  BY <1>9, <1>11
<1> QED BY <1>7, <1>9, <1>17, <1>18, <1>19, <1>20, <1>21, <1>22, <1>23, <1>24 DEF w, c, f, m, m2, S2

LEMMA AppendedIs ==
  ASSUME NEW S, NEW s \in Seq(S), NEW e \in S
  PROVE  /\ DOMAIN Append(s, e) = 1..(Len(s) + 1) /\ Append(s, e)[Len(s) + 1] = e
         /\ \A k \in 1..Len(s) : Append(s, e)[k] = s[k]
OBVIOUS

LEMMA FileDoneCovers ==
  ASSUME ResumeInv, CoverInv, Untroubled, FileDone
  PROVE  CoverInv'
<1> DEFINE end == file[active.inode].size
           f == ReadTo(end)
           completed == IsCompressed(f.plan.path) \/ f.at >= PlanSize(f.plan)
           row == RowFor(f, completed)
           m2 == Note(row)
           cur == Stored(NextCurrent, m2)
           S2 == SeenWith(AccWith(end))
<1>1. /\ active # NoFile /\ acc' = AccWith(end) /\ pending' = Append(pending, row) /\ active' = NoFile
      /\ UNCHANGED <<fsVars, dbVars, pc, todo, retired, histVars>>
  BY DEF FileDone
<1>2. /\ TypeOK /\ Idle /\ Distinct /\ Done
      /\ pc = "run" /\ active.inode \in Inodes
  BY <1>1, CoverParts, ReadingIs DEF ResumeInv
<1>3. end \in 0..MaxLines /\ end <= file[active.inode].size
  <2>1. file[active.inode] \in Content
    BY <1>2 DEF TypeOK
  <2>2. end \in 0..MaxLines
    BY <2>1 DEF Content
  <2> QED BY <2>1, <2>2, ContentIs
<1>4. completed \in BOOLEAN
  BY DEF IsCompressed
<1> HIDE DEF end, completed
<1>5. /\ f \in ActiveFile /\ f.plan = active.plan
      /\ m2 \in NoteType /\ m2.path = active.plan.path
      /\ m2.inode = active.inode /\ m2.head = HeadOf(file[active.inode]) /\ m2.done = completed
      /\ f.at >= end /\ PlanSize(active.plan) <= file[active.inode].size
      /\ \A r \in Range(pending) : Note(r).path # m2.path
      /\ Book(World, cur, NextFormer, S2)
      /\ PlansFit(World, file, glob, todo, cur, NextFormer, S2)
      /\ \A l \in Line : count[l] + AccWith(end)[l] > 1 => BeforeTarget(l)
  BY <1>1, <1>3, <1>4, ReadOn
<1>6. completed
  <2>1. f.at \in Nat /\ end \in Nat /\ f.at >= end
    <3>1. 0..MaxLines \subseteq Nat
      BY Constants DEF Lines0
    <3> HIDE DEF f
    <3>2. f.at \in 0..MaxLines
      BY <1>5 DEF ActiveFile
    <3> QED BY <1>3, <1>5, <3>1, <3>2
  <2>2. PlanSize(f.plan) \in Nat /\ PlanSize(f.plan) <= end
    <3>1. active.plan \in Row
      BY <1>1, <1>2, HandIs
    <3>2. \A n \in 0..MaxLines : n \in Nat
      BY Constants DEF Lines0
    <3>3. PlanSize(active.plan) \in Nat
      BY <3>1, <3>2 DEF PlanSize, Row
    <3> QED BY <1>5, <3>3 DEF end
  <2>3. f.at >= PlanSize(f.plan)
    <3> HIDE DEF f
    <3> QED BY <2>1, <2>2
  <2> QED BY <2>3 DEF completed
<1>7. row \in Row /\ SameFile(row, active.plan)
  <2> HIDE DEF f
  <2> QED BY <1>4, <1>5, RowForIs
<1> HIDE DEF f, row, m2, S2
<1>8. Range(pending)' = Range(pending) \cup {row}
  <2>1. pending \in Seq(Row)
    BY <1>2, HandIs
  <2> QED BY <1>1, <1>7, <2>1, AppendIs
<1>9. NextCurrent' = cur /\ NextFormer' = NextFormer /\ SeenNext' = S2
  <2>1. Storing' = Notes(Range(pending)) \cup {m2}
    BY <1>1, <1>8 DEF Storing, Notes, m2
  <2>2. Storing = Notes(Range(pending)) \cup {Note(RowFor(active, FALSE))}
    BY <1>1 DEF Storing
  <2>3. Note(RowFor(active, FALSE)).path = m2.path
    BY <1>1, <1>2, <1>5, ActiveNote
  <2>4. Unretired' = Unretired
    BY <1>1 DEF Unretired, dbVars
  <2>5. NextCurrent' = {n \in Notes(Unretired) : \A s \in Storing' : n.path # s.path} \cup Storing'
    BY <2>4 DEF NextCurrent
  <2>6. \A n \in Notes(Range(pending)) : n.path # m2.path
    BY <1>5 DEF Notes
  <2>7. NextCurrent' = cur
    BY <2>1, <2>2, <2>3, <2>5, <2>6 DEF NextCurrent, Stored
  <2>8. NextFormer' = NextFormer
    BY <1>1 DEF NextFormer, Former, dbVars
  <2>9. \A l : BeforeTarget(l)' = BeforeTarget(l)
    BY <1>1 DEF BeforeTarget, histVars
  <2>10. SeenNext' = S2
    BY <1>1, <2>9 DEF SeenNext, SeenWith, S2, dbVars
  <2> QED BY <2>7, <2>8, <2>10
<1>10. Once'
  <2>1. \A l : BeforeTarget(l)' = BeforeTarget(l)
    BY <1>1 DEF BeforeTarget, histVars
  <2> QED BY <1>1, <1>5, <2>1 DEF Once, dbVars
<1>11. Distinct'
  <2>1. /\ pending \in Seq(Row) /\ DOMAIN pending = 1..Len(pending)
        /\ DOMAIN pending' = 1..(Len(pending) + 1) /\ pending'[Len(pending) + 1] = row
        /\ \A k \in 1..Len(pending) : pending'[k] = pending[k]
    BY <1>1, <1>2, <1>7, HandIs, AppendedIs
  <2>2. Len(pending) \in Nat
    BY <2>1
  <2>3. row.path = active.plan.path
    BY <1>7 DEF SameFile
  <2>4. \A j, k \in DOMAIN pending' : pending'[j].path = pending'[k].path => j = k
    BY <1>1, <1>2, <2>1, <2>2, <2>3 DEF Distinct
  <2>5. \A j \in DOMAIN pending', k \in DOMAIN todo : pending'[j].path # todo[k].path
    BY <1>1, <1>2, <2>1, <2>2, <2>3 DEF Distinct
  <2> QED BY <1>1, <2>4, <2>5 DEF Distinct
<1>12. \A r \in Range(pending)' :
         r.completed /\ (r.inode = dir[Live] /\ At(Live).size > 0 => r.uhead = HeadOf(At(Live)))
  <2>1. row.completed /\ row.inode = active.inode /\ row.uhead = HeadOf(file[active.inode])
    BY <1>5, <1>6, <1>7, NoteOf DEF m2
  <2>2. \A r \in Range(pending) :
          r.completed /\ (r.inode = dir[Live] /\ At(Live).size > 0 => r.uhead = HeadOf(At(Live)))
    BY <1>2 DEF Done
  <2> QED BY <1>8, <2>1, <2>2 DEF At
<1>13. UNCHANGED fsVars /\ UNCHANGED dbVars /\ UNCHANGED targets /\ pc' = pc /\ retired' = retired /\ todo' = todo
  BY <1>1 DEF histVars
<1> QED BY <1>1, <1>2, <1>5, <1>9, <1>10, <1>11, <1>12, <1>13, RunCovered

\* The largest of the numbers.
LEMMA MaxIs ==
  ASSUME NEW n \in Nat, NEW S \in SUBSET (0..n), S # {}
  PROVE  Max(S) \in S /\ \A m \in S : m <= Max(S)
<1> DEFINE T == {n - m : m \in S}
<1>1. T \in SUBSET Nat /\ T # {}
  OBVIOUS
<1> HIDE DEF T
<1>2. PICK k \in T : \A m \in T : k <= m
  BY <1>1, SmallestNat
<1>3. \E x \in S : \A y \in S : x >= y
  <2>1. PICK x \in S : k = n - x
    BY DEF T
  <2>2. \A y \in S : n - x <= n - y /\ x \in 0..n /\ y \in 0..n
    BY <1>2, <2>1 DEF T
  <2>3. \A y \in S : x >= y
    BY <2>2
  <2> QED BY <2>3
<1>4. Max(S) \in S /\ \A y \in S : Max(S) >= y
  BY <1>3 DEF Max
<1> QED BY <1>4

LEMMA UpsertNotes ==
  ASSUME NEW table \in SUBSET Row, NEW r \in Row
  PROVE  Notes(Upsert(table, r)) = Stored(Notes(table), Note(r))
<1> DEFINE old == TheOnly(SameFilePath(table, r))
<1>1. old \in OptRow
  BY TheOnlyIs DEF SameFilePath, OptRow
<1>2. Merged(r, old) \in Row
  BY <1>1, MergedIsRow
<1>3. Note(Merged(r, old)) = Note(r)
  <2>1. LET s == Merged(r, old)
        IN /\ s.path = r.path /\ s.inode = r.inode /\ s.uhead = r.uhead /\ s.chead = r.chead
           /\ s.csize = r.csize /\ s.usize = r.usize /\ s.mtime = r.mtime /\ s.uoff = r.uoff
           /\ s.completed = r.completed
    BY DEF Merged, Row
  <2> QED BY <2>1 DEF Note, PreviousSize
<1> HIDE DEF old
<1>4. Upsert(table, r) = (table \ SameFilePath(table, r)) \cup {Merged(r, old)}
  BY DEF Upsert, old
<1>5. \A s \in Row : Note(s).path = s.path
  BY NoteOf
<1>6. \A s \in table : s \in SameFilePath(table, r) <=> Note(s).path = Note(r).path
  BY <1>5 DEF SameFilePath
<1>7. Notes(table \ SameFilePath(table, r)) = {n \in Notes(table) : n.path # Note(r).path}
  BY <1>6 DEF Notes
<1>8. Notes(Upsert(table, r)) = Notes(table \ SameFilePath(table, r)) \cup {Note(r)}
  BY <1>3, <1>4 DEF Notes
<1> QED BY <1>7, <1>8 DEF Stored

\* What a commit leaves of a table that has rows of one path each stored in it.
Overlaid(cur, notes) == {n \in cur : \A m \in notes : n.path # m.path} \cup notes

LEMMA UpsertsNotes ==
  ASSUME NEW table \in SUBSET Row, NEW rows \in Seq(Row),
         \A j, k \in 1..Len(rows) : rows[j].path = rows[k].path => j = k
  PROVE  Notes(Upserts(table, rows)[Len(rows)]) = Overlaid(Notes(table), Notes(Range(rows)))
<1> DEFINE f == Upserts(table, rows)
           Upto(k) == {Note(rows[j]) : j \in 1..k}
           S == {k \in 0..Len(rows) : Notes(f[k]) = Overlaid(Notes(table), Upto(k))}
<1>0. Len(rows) \in Nat /\ DOMAIN rows = 1..Len(rows) /\ \A k \in 1..Len(rows) : rows[k] \in Row
  OBVIOUS
<1>1. /\ f \in [0..Len(rows) -> SUBSET Row] /\ f[0] = table
      /\ \A k \in 1..Len(rows) : f[k] = Upsert(f[k - 1], rows[k])
  BY UpsertsInTurn
<1> HIDE DEF f
<1>2. 0 \in S
  <2>1. Upto(0) = {}
    OBVIOUS
  <2>2. Overlaid(Notes(table), {}) = Notes(table)
    BY DEF Overlaid
  <2>3. Notes(f[0]) = Overlaid(Notes(table), Upto(0))
    BY <1>1, <2>1, <2>2
  <2> QED BY <1>0, <2>3
<1>3. ASSUME NEW k \in 1..Len(rows), k - 1 \in S PROVE k \in S
  <2>1. k - 1 \in 0..Len(rows) /\ k \in 0..Len(rows) /\ f[k - 1] \in SUBSET Row /\ rows[k] \in Row
    BY <1>0, <1>1
  <2>2. Notes(f[k]) = Stored(Notes(f[k - 1]), Note(rows[k]))
    BY <1>1, <2>1, UpsertNotes
  <2>3. Upto(k) = Upto(k - 1) \cup {Note(rows[k])}
    BY <1>0
  <2>4. \A n \in Upto(k - 1) : n.path # Note(rows[k]).path
    <3> SUFFICES ASSUME NEW j \in 1..(k - 1) PROVE Note(rows[j]).path # Note(rows[k]).path
      OBVIOUS
    <3>1. j \in 1..Len(rows) /\ j # k
      BY <1>0
    <3> QED BY <1>0, <3>1, NoteOf
  <2>5. Notes(f[k - 1]) = Overlaid(Notes(table), Upto(k - 1))
    BY <1>3
  <2> HIDE DEF Upto
  <2>6. Notes(f[k]) = Overlaid(Notes(table), Upto(k))
    BY <2>2, <2>3, <2>4, <2>5 DEF Stored, Overlaid
  <2> QED BY <2>1, <2>6
<1>4. Len(rows) \in S
  <2>1. \A k \in 0..Len(rows) : k \in S
    <3> HIDE DEF S
    <3> QED BY <1>0, <1>2, <1>3, InductionUpTo
  <2> QED BY <1>0, <2>1
<1>5. Upto(Len(rows)) = Notes(Range(rows))
  BY <1>0 DEF Notes, Range
<1> QED BY <1>4, <1>5 DEF f

LEMMA ArchivedNotes ==
  ASSUME TypeOK
  PROVE  Notes(Archived(retired)) = NextFormer
<1> DEFINE sameKey(r) == {s \in archive : s.path = r.path /\ s.inode = r.inode}
           kept == archive \ UNION {sameKey(r) : r \in retired}
           stored(r) == [Merged(r, TheOnly(sameKey(r))) EXCEPT !.skip = NoTs]
<1>1. Archived(retired) = kept \cup {stored(r) : r \in retired}
  BY DEF Archived
<1>2. archive \in SUBSET Row /\ retired \in SUBSET Row
  BY DEF TypeOK
<1>3. ASSUME NEW r \in retired PROVE Note(stored(r)) = Note(r)
  <2>1. TheOnly(sameKey(r)) \in OptRow
    BY <1>2, TheOnlyIs DEF OptRow
  <2> DEFINE o == TheOnly(sameKey(r))
  <2> HIDE DEF o
  <2>2. LET s == [Merged(r, o) EXCEPT !.skip = NoTs]
        IN /\ s.path = r.path /\ s.inode = r.inode /\ s.uhead = r.uhead /\ s.chead = r.chead
           /\ s.csize = r.csize /\ s.usize = r.usize /\ s.mtime = r.mtime /\ s.uoff = r.uoff
           /\ s.completed = r.completed
    BY <1>2 DEF Merged, Row
  <2> QED BY <2>2 DEF Note, PreviousSize, o
<1>4. \A s \in archive, r \in retired : s \in sameKey(r) <=> SameKey(Note(s), Note(r))
  BY <1>2, NoteOf DEF SameKey
<1>5. Notes(kept) = {n \in Former : \A m \in Notes(retired) : ~SameKey(n, m)}
  <2>1. \A s \in archive : s \in kept <=> \A r \in retired : ~SameKey(Note(s), Note(r))
    BY <1>4
  <2> HIDE DEF kept
  <2>2. kept \subseteq archive
    BY DEF kept
  <2> QED BY <2>1, <2>2 DEF Notes, Former
<1>6. Notes({stored(r) : r \in retired}) = Notes(retired)
  <2> HIDE DEF stored
  <2> QED BY <1>3 DEF Notes
<1>7. Notes(Archived(retired)) = Notes(kept) \cup Notes({stored(r) : r \in retired})
  BY <1>1 DEF Notes
<1> QED BY <1>5, <1>6, <1>7 DEF NextFormer

\* What a commit leaves in the tables.
LEMMA CommitNotes ==
  ASSUME ResumeInv, CoverInv, NEW counted \in [Line -> Nat], NEW rows \in Seq(Row),
         \A j, k \in 1..Len(rows) : rows[j].path = rows[k].path => j = k,
         Flush(counted, rows), UNCHANGED targets, UNCHANGED fsVars,
         Counted(World, SeenWith(counted)), \A l \in Line : count[l] + counted[l] > 1 => BeforeTarget(l)
  PROVE  /\ Current' = Overlaid(Notes(Unretired), Notes(Range(rows)))
         /\ Former' = NextFormer /\ Seen' = SeenWith(counted) /\ LastSeen'
         /\ \A l \in Line : count'[l] > 1 => BeforeTarget(l)'
<1>1. /\ count' = [l \in Line |-> count[l] + counted[l]]
      /\ parseState' = Upserts(Unretired, rows)[Len(rows)]
      /\ archive' = Archived(retired)
      /\ lastLog' = Max({lastLog} \cup {l \in Line : counted[l] > 0})
  BY DEF Flush, Upserts
<1>2. TypeOK /\ LastSeen /\ MaxLines \in Nat
  BY ResumeAssumption, CoverParts DEF ResumeInv
<1>3. Unretired \in SUBSET Row
  BY <1>2 DEF Unretired, TypeOK
<1>4. Current' = Overlaid(Notes(Unretired), Notes(Range(rows)))
  BY <1>1, <1>3, UpsertsNotes DEF Current
<1>5. Former' = NextFormer
  BY <1>1, <1>2, ArchivedNotes DEF Former
<1>6. \A l : BeforeTarget(l)' = BeforeTarget(l)
  BY DEF BeforeTarget
<1>7. \A l \in Line : count'[l] = count[l] + counted[l] /\ count[l] \in Nat /\ counted[l] \in Nat /\ l \in Nat
  <2>1. \A l \in Line : l \in Nat
    BY Constants DEF Lines0
  <2> QED BY <1>1, <1>2, <2>1 DEF TypeOK
<1>8. Seen' = SeenWith(counted)
  BY <1>6, <1>7 DEF Seen, SeenWith
<1>9. LastSeen'
  <2> DEFINE S == {lastLog} \cup {l \in Line : counted[l] > 0}
  <2>1. S \in SUBSET (0..MaxLines) /\ S # {}
    BY <1>2 DEF TypeOK, Line
  <2>2. /\ written \in Nat /\ written' = written /\ targets' = targets /\ lastLog \in Nat
        /\ \A t \in targets : t \in Nat /\ t <= written + 1
        /\ lastLog <= written /\ \A l \in Line : count[l] > 0 => l <= lastLog
        /\ lastLog \in Line /\ ~BeforeTarget(lastLog) => lastLog \in Seen
    <3>1. \A t \in Targets : t \in Nat
      BY <1>7, Constants
    <3> QED BY <1>2, <3>1 DEF TypeOK, LastSeen, fsVars
  <2>3. lastLog' = Max(S)
    BY <1>1
  <2> HIDE DEF S
  <2>4. lastLog' \in S /\ \A l \in S : l <= lastLog'
    BY <1>2, <2>1, <2>3, MaxIs
  <2>5. \A l \in S : l \in Nat
    BY <1>2, <2>1
  <2> USE DEF S
  <2>6. ASSUME NEW l \in Line, counted[l] > 0 PROVE l <= written
    <3>1. CASE BeforeTarget(l)
      <4>1. PICK t \in targets : l < t
        BY <3>1 DEF BeforeTarget
      <4> QED BY <1>7, <2>2, <4>1
    <3>2. CASE ~BeforeTarget(l)
      <4>1. l \in SeenWith(counted)
        BY <1>7, <2>6, <3>2 DEF SeenWith
      <4>2. World.end = written
        BY <1>2, ThisWorld
      <4> QED BY <4>1, <4>2 DEF Counted
    <3> QED BY <3>1, <3>2
  <2>7. lastLog' <= written'
    BY <2>2, <2>4, <2>6
  <2>8. ASSUME NEW l \in Line, count'[l] > 0 PROVE l <= lastLog'
    <3>1. lastLog <= lastLog' /\ lastLog' \in Nat
      BY <2>4, <2>5
    <3>2. CASE count[l] > 0
      BY <1>7, <2>2, <3>1, <3>2
    <3>3. CASE counted[l] > 0
      BY <2>4, <3>3
    <3> QED BY <1>7, <2>8, <3>2, <3>3
  <2>9. ASSUME lastLog' \in Line, ~BeforeTarget(lastLog)' PROVE lastLog' \in Seen'
    <3>1. ~BeforeTarget(lastLog')
      BY <2>2, <2>9 DEF BeforeTarget
    <3>2. CASE lastLog' = lastLog
      <4>1. lastLog \in Seen
        BY <2>2, <2>9, <3>1, <3>2
      <4> QED BY <1>7, <1>8, <2>9, <3>2, <4>1 DEF Seen, SeenWith
    <3>3. CASE lastLog' # lastLog
      <4>1. counted[lastLog'] > 0
        BY <2>4, <3>3
      <4> QED BY <1>7, <1>8, <2>9, <3>1, <4>1 DEF SeenWith
    <3> QED BY <3>2, <3>3
  <2>10. \A t \in targets' : t <= written' + 1
    BY <2>2
  <2> QED BY <2>7, <2>8, <2>9, <2>10 DEF LastSeen
<1>10. \A l \in Line : count'[l] > 1 => BeforeTarget(l)'
  BY <1>6, <1>7
<1> QED BY <1>4, <1>5, <1>8, <1>9, <1>10

LEMMA EndRunCovers ==
  ASSUME ResumeInv, CoverInv, EndRun
  PROVE  CoverInv'
<1>1. /\ pc = "run" /\ active = NoFile /\ todo = <<>> /\ Flush(acc, pending) /\ acc' = NoCount
      /\ UNCHANGED <<fsVars, todo, active, histVars>>
      /\ pending' = <<>> /\ retired' = {}
  BY DEF EndRun, Flush
<1>2. TypeOK /\ Idle /\ Distinct /\ Once /\ Book(World, NextCurrent, NextFormer, SeenNext)
  BY CoverParts DEF ResumeInv
<1>3. pending \in Seq(Row) /\ DOMAIN pending = 1..Len(pending) /\ acc \in [Line -> Nat]
  BY <1>2, HandIs DEF TypeOK
<1>4. \A j, k \in 1..Len(pending) : pending[j].path = pending[k].path => j = k
  BY <1>2, <1>3 DEF Distinct
<1>5. SeenNext = SeenWith(acc) /\ Counted(World, SeenNext)
  BY <1>2 DEF SeenNext, SeenWith, Book
<1>6. \A l \in Line : count[l] + acc[l] > 1 => BeforeTarget(l)
  BY <1>2 DEF Once
<1>7. UNCHANGED targets /\ UNCHANGED fsVars
  BY <1>1 DEF histVars
<1>8. /\ Current' = Overlaid(Notes(Unretired), Notes(Range(pending)))
      /\ Former' = NextFormer /\ Seen' = SeenNext /\ LastSeen'
      /\ \A l \in Line : count'[l] > 1 => BeforeTarget(l)'
  BY <1>1, <1>3, <1>4, <1>5, <1>6, <1>7, CommitNotes
<1>9. Current' = NextCurrent
  BY <1>1, <1>8 DEF NextCurrent, Storing, Overlaid
<1>10. count' \in [Line -> Nat]
  BY <1>1, <1>2, <1>3 DEF Flush, TypeOK
<1>11. Once'
  <2>1. \A l \in Line : count'[l] + acc'[l] = count'[l]
    BY <1>1, <1>10 DEF NoCount
  <2> QED BY <1>8, <2>1 DEF Once
<1>12. todo' = <<>> /\ active' = NoFile
  BY <1>1
<1> QED BY <1>1, <1>2, <1>7, <1>8, <1>9, <1>10, <1>11, <1>12, IdleCovered

LEMMA CheckpointCovers ==
  ASSUME ResumeInv, CoverInv, Untroubled, Checkpoint
  PROVE  CoverInv'
<1>1. PICK end \in (active.at + 1)..file[active.inode].size :
        /\ Flush(AccWith(end), Append(pending, RowFor(ReadTo(end), FALSE)))
        /\ active' = ReadTo(end)
  BY DEF Checkpoint
<1>2. /\ active # NoFile /\ acc' = NoCount /\ pending' = <<>> /\ retired' = {}
      /\ UNCHANGED <<fsVars, pc, todo, histVars>>
  BY <1>1 DEF Checkpoint, Flush
<1>3. /\ TypeOK /\ Idle /\ Fit /\ Distinct /\ pc = "run" /\ active.inode \in Inodes /\ active \in ActiveFile
      /\ Tidy(World)
  BY <1>2, CoverParts, ReadingIs, HandIs DEF ResumeInv
<1>4. end \in 0..MaxLines /\ end <= file[active.inode].size
  <2>1. file[active.inode] \in Content
    BY <1>3 DEF TypeOK
  <2>2. active.at \in Nat /\ file[active.inode].size \in Nat /\ file[active.inode].size <= MaxLines
    <3>1. 0..MaxLines \subseteq Nat
      BY Constants DEF Lines0
    <3> QED BY <1>3, <2>1, <3>1, ContentIs DEF ActiveFile
  <2> QED BY <2>2, ResumeAssumption
<1> DEFINE f == ReadTo(end)
           row == RowFor(f, FALSE)
           rows == Append(pending, row)
           m2 == Note(row)
           cur == Stored(NextCurrent, m2)
           S2 == SeenWith(AccWith(end))
<1>5. /\ f \in ActiveFile /\ f.plan = active.plan /\ f.inode = active.inode
      /\ m2 \in NoteType /\ m2.path = active.plan.path
      /\ \A r \in Range(pending) : Note(r).path # m2.path
      /\ Book(World, cur, NextFormer, S2)
      /\ PlansFit(World, file, glob, todo, cur, NextFormer, S2)
      /\ ReadFits(World, file, glob, f, todo, cur, NextFormer, S2)
      /\ \A l \in Line : count[l] + AccWith(end)[l] > 1 => BeforeTarget(l)
  <2>1. FALSE \in BOOLEAN
    OBVIOUS
  <2> QED BY <1>2, <1>4, <2>1, ReadOn
<1>6. row \in Row /\ SameFile(row, active.plan)
  <2> HIDE DEF f
  <2> QED BY <1>5, RowForIs
<1>7. AccWith(end) \in [Line -> Nat]
  BY <1>2, <1>3, <1>4, ReadIs
<1> HIDE DEF f, row, m2, S2
<1>8. /\ rows \in Seq(Row) /\ Range(rows) = Range(pending) \cup {row}
      /\ \A j, k \in 1..Len(rows) : rows[j].path = rows[k].path => j = k
  <2>1. /\ pending \in Seq(Row) /\ DOMAIN pending = 1..Len(pending)
        /\ DOMAIN rows = 1..(Len(pending) + 1) /\ rows[Len(pending) + 1] = row
        /\ \A k \in 1..Len(pending) : rows[k] = pending[k]
    BY <1>3, <1>6, HandIs, AppendedIs
  <2>2. Len(pending) \in Nat /\ rows \in Seq(Row) /\ Len(rows) = Len(pending) + 1
    BY <1>6, <2>1
  <2>3. row.path = active.plan.path
    BY <1>6 DEF SameFile
  <2>4. \A j, k \in 1..Len(rows) : rows[j].path = rows[k].path => j = k
    <3> HIDE DEF rows
    <3> QED BY <1>2, <1>3, <2>1, <2>2, <2>3 DEF Distinct
  <2> QED BY <1>6, <2>1, <2>2, <2>4, AppendIs
<1>9. Flush(AccWith(end), rows)
  BY <1>1 DEF f, row
<1> HIDE DEF rows
<1>10. UNCHANGED targets /\ UNCHANGED fsVars
  BY <1>2 DEF histVars
<1>11. Counted(World, S2)
  BY <1>5 DEF Book
<1>12. /\ Current' = Overlaid(Notes(Unretired), Notes(Range(rows)))
       /\ Former' = NextFormer /\ Seen' = S2 /\ LastSeen'
       /\ \A l \in Line : count'[l] > 1 => BeforeTarget(l)'
  BY <1>5, <1>7, <1>8, <1>9, <1>10, <1>11, CommitNotes DEF S2
<1>13. Current' = cur
  <2>1. Notes(Range(rows)) = Notes(Range(pending)) \cup {m2}
    BY <1>8 DEF Notes, m2
  <2>2. Storing = Notes(Range(pending)) \cup {Note(RowFor(active, FALSE))}
    BY <1>2 DEF Storing
  <2>3. Note(RowFor(active, FALSE)).path = m2.path
    BY <1>2, <1>3, <1>5, ActiveNote
  <2>4. \A n \in Notes(Range(pending)) : n.path # m2.path
    BY <1>5 DEF Notes
  <2> QED BY <1>12, <2>1, <2>2, <2>3, <2>4 DEF NextCurrent, Stored, Overlaid
<1>14. active' = f /\ f # NoFile
  <2>1. active' = f
    BY <1>1 DEF f
  <2>2. active.inode # NoFile.inode
    BY <1>3, ThreePaths DEF NoFile
  <2> QED BY <1>5, <2>1, <2>2
<1>15. NextCurrent' = cur /\ NextFormer' = NextFormer /\ SeenNext' = S2
  <2>1. Storing' = {m2}
    <3>1. Range(pending)' = {}
      BY <1>2 DEF Range
    <3>2. Notes(Range(pending))' = {}
      BY <3>1 DEF Notes
    <3> QED BY <1>14, <3>2 DEF Storing, m2, row
  <2>2. Unretired' = parseState'
    BY <1>2 DEF Unretired
  <2>3. NextCurrent' = {n \in cur : n.path # m2.path} \cup {m2}
    BY <1>13, <2>1, <2>2 DEF NextCurrent, Current
  <2>4. NextCurrent' = cur
    BY <2>3 DEF Stored
  <2>5. Notes(retired)' = {}
    BY <1>2 DEF Notes
  <2>6. NextFormer' = Former'
    BY <2>5 DEF NextFormer
  <2>7. SeenNext' = Seen'
    <3>1. count' \in [Line -> Nat]
      BY <1>3, <1>7, <1>9 DEF Flush, TypeOK
    <3>2. \A l \in Line : count'[l] + acc'[l] = count'[l]
      BY <1>2, <3>1 DEF NoCount
    <3> QED BY <3>2 DEF SeenNext, Seen
  <2> QED BY <1>12, <2>4, <2>6, <2>7
<1>16. World' = World /\ file' = file /\ glob' = glob /\ todo' = todo /\ dir' = dir
  BY <1>2 DEF World, fsVars
<1>17. Tidy(World)' /\ Books'
  BY <1>3, <1>5, <1>12, <1>13, <1>15, <1>16 DEF Books
<1>18. Planned' /\ Reading'
  BY <1>5, <1>14, <1>15, <1>16 DEF Planned, Reading
<1>19. Distinct'
  <2>1. DOMAIN pending' = {}
    BY <1>2
  <2> QED BY <1>2, <1>3, <1>5, <1>14, <1>16, <2>1 DEF Distinct
<1>20. Done'
  <2>1. Range(pending)' = {} /\ pc' = "run"
    BY <1>2, <1>3 DEF Range
  <2> QED BY <1>2, <2>1 DEF Done
<1>21. Once'
  <2>1. count' \in [Line -> Nat]
    BY <1>3, <1>7, <1>9 DEF Flush, TypeOK
  <2>2. \A l \in Line : count'[l] + acc'[l] = count'[l]
    BY <1>2, <2>1 DEF NoCount
  <2> QED BY <1>12, <2>2 DEF Once
<1> QED BY <1>12, <1>17, <1>18, <1>19, <1>20, <1>21 DEF CoverInv

KeysOnce(old) == \A n, m \in old : SameKey(n, m) => n = m

\* Rows move to the archive, and take the place of those with their keys.
Filed(old, rows) == {n \in old : \A m \in rows : ~SameKey(n, m)} \cup rows

LEMMA BookRetires ==
  ASSUME HeadSize = 1, NEW w \in WorldType, Tidy(w),
         NEW cur \in SUBSET NoteType, NEW old \in SUBSET NoteType, NEW S \in SUBSET Line,
         Paired(cur), KeysOnce(old), Book(w, cur, old, S), NEW R \in SUBSET (cur \cup old),
         \A r \in R : r \in cur =>
           /\ r.path = Live => r.inode # w.inode[Live] \/ r.head \notin {HeadAt(w, Live), NoHead}
           /\ r.path # Live => r.inode # w.inode[r.path],
         \A r \in R : r \notin cur => r.path = Live /\ \A n \in cur : n.inode # r.inode,
         \A r \in R : SeenAt(w, Rotated, S) /\ r \in cur /\ r.path = Live /\ r.inode = w.inode[Rotated] =>
           \A n \in cur : n.path = Rotated => n \in R
  PROVE  /\ Book(w, cur \ R, Filed(old, R), S)
         /\ Settled(w, Packed, cur, old, S) => Settled(w, Packed, cur \ R, Filed(old, R), S)
<1> DEFINE cur1 == cur \ R
           old1 == Filed(old, R)
<1>1. /\ \A n \in cur \cup old : WellMade(w, n) /\ \A p \in Paths : Sized(w, n, p)
      /\ Single(cur, old)
      /\ LiveRows(w, cur, old) /\ RotatedRows(w, cur, old) /\ PackedRows(w, cur, old)
      /\ Counted(w, S)
      /\ CoveredLive(w, cur, S) /\ CoveredRotated(w, cur, old, S) /\ CoveredPacked(w, cur, old, S)
  BY BookParts
<1>2. /\ On(w, Live)
      /\ On(w, Rotated) => HeadAt(w, Rotated) # NoHead /\ HeadAt(w, Rotated) # HeadAt(w, Live)
      /\ On(w, Packed) => HeadAt(w, Packed) # NoHead /\ HeadAt(w, Packed) # HeadAt(w, Live)
      /\ \A p, q \in Paths : On(w, p) /\ p # q => w.inode[p] # w.inode[q]
  BY OtherHeads
<1>3. /\ \A n \in old1 : n \in old \/ (n \in R /\ n \in cur)
      /\ \A n \in old1 : n \in R \/ \A m \in R : ~SameKey(n, m)
      /\ \A n \in R : n \in old1
      /\ \A n \in old : n \in old1 \/ \E m \in R : SameKey(n, m)
      /\ cur1 \subseteq cur /\ \A n \in cur1 : n \notin R
      /\ \A n \in cur : n \in cur1 \/ n \in R
  BY DEF Filed
<1> HIDE DEF cur1, old1
<1>4. \A n \in cur1 \cup old1 : n \in cur \cup old
  BY <1>3
<1>5. Single(cur1, old1)
  <2>1. ASSUME NEW n \in cur1 \cup old1, NEW m \in old1,
               n.path = Live, m.path = Live, n.head = m.head, n.head # NoHead
        PROVE  n = m /\ n \notin cur1
    <3>1. CASE m \in old
      BY <1>1, <1>3, <1>4, <2>1, <3>1 DEF Single
    <3>2. CASE m \in R /\ m \in cur
      <4>1. n \in cur
        BY <1>1, <1>4, <2>1, <3>2 DEF Single
      <4>2. n = m
        BY <2>1, <3>2, <4>1 DEF Paired
      <4> QED BY <1>3, <3>2, <4>2
    <3> QED BY <1>3, <3>1, <3>2
  <2> QED BY <1>1, <1>4, <2>1 DEF Single
<1>6. LiveRows(w, cur1, old1)
  <2> SUFFICES ASSUME NEW n \in cur1 \cup old1
               PROVE  /\ n.inode = w.inode[Live] => n.path = Live
                      /\ n.head = HeadAt(w, Live) /\ n.head # NoHead =>
                           n.path = Live /\ n.inode = w.inode[Live] /\ n \notin old1
    BY DEF LiveRows
  <2>1. /\ n.inode = w.inode[Live] => n.path = Live
        /\ n.head = HeadAt(w, Live) /\ n.head # NoHead =>
             n.path = Live /\ n.inode = w.inode[Live] /\ n \notin old
    BY <1>1, <1>4 DEF LiveRows
  <2> QED BY <1>3, <2>1
<1>7. RotatedRows(w, cur1, old1)
  <2> SUFFICES ASSUME On(w, Rotated), NEW n \in cur1 \cup old1
               PROVE  /\ n.inode = w.inode[Rotated] =>
                           \/ n.path = Live
                           \/ n.path = Rotated /\ n.head = HeadAt(w, Rotated) /\ n.size = w.at[Rotated].size /\ n \notin old1
                      /\ n.head = HeadAt(w, Rotated) =>
                           n.path = Live \/ (n.path = Rotated /\ n.inode = w.inode[Rotated])
    BY DEF RotatedRows
  <2>1. /\ n.inode = w.inode[Rotated] =>
             \/ n.path = Live
             \/ n.path = Rotated /\ n.head = HeadAt(w, Rotated) /\ n.size = w.at[Rotated].size /\ n \notin old
        /\ n.head = HeadAt(w, Rotated) => n.path = Live \/ (n.path = Rotated /\ n.inode = w.inode[Rotated])
    BY <1>1, <1>4 DEF RotatedRows
  <2> QED BY <1>3, <2>1, ThreePaths
<1>8. PackedRows(w, cur1, old1)
  <2> SUFFICES ASSUME On(w, Packed), NEW n \in cur1 \cup old1
               PROVE  /\ n.inode = w.inode[Packed] => n.path = Packed /\ n.head = HeadAt(w, Packed) /\ n \notin old1
                      /\ n.path = Packed /\ n.head = HeadAt(w, Packed) => n.inode = w.inode[Packed]
    BY DEF PackedRows
  <2>1. /\ n.inode = w.inode[Packed] => n.path = Packed /\ n.head = HeadAt(w, Packed) /\ n \notin old
        /\ n.path = Packed /\ n.head = HeadAt(w, Packed) => n.inode = w.inode[Packed]
    BY <1>1, <1>4 DEF PackedRows
  <2> QED BY <1>3, <2>1, ThreePaths
\* A row that stays where it is covers what it did.
<1>9. ASSUME NEW p \in Paths, NEW n \in cur, n.inode = w.inode[p], n \notin R
      PROVE  /\ HasOwn(w, p, cur1)
             /\ OwnCovers(w, p, cur, S) => OwnCovers(w, p, cur1, S)
  BY <1>3, <1>9 DEF HasOwn, OwnCovers
<1>10. \A p \in Paths : HasOwn(w, p, cur1) => HasOwn(w, p, cur)
  BY <1>3 DEF HasOwn
<1>11. ASSUME NEW p \in {Rotated, Packed}, On(w, p), Alone(w, p, cur, old, S) PROVE Alone(w, p, cur1, old1, S)
  <2>1. HeadAt(w, p) # NoHead
    BY <1>2, <1>11
  <2>2. \E n \in cur1 \cup old1 : n.head = HeadAt(w, p)
    <3>1. PICK n \in cur \cup old : n.head = HeadAt(w, p) /\ n.path = Live
      BY <1>11 DEF Alone
    <3>2. CASE n \in cur
      BY <1>3, <3>1, <3>2
    <3>3. CASE n \in old
      <4> SUFFICES ASSUME n \notin old1 PROVE FALSE
        BY <3>1
      <4>1. PICK m \in R : SameKey(n, m)
        BY <1>3, <3>3
      <4>2. m \in cur
        <5>1. m \in old => m = n
          BY <3>3, <4>1 DEF KeysOnce
        <5> QED BY <1>3, <4>1, <5>1
      <4>3. m.path = Live /\ m.head = HeadAt(w, p)
        BY <1>11, <3>1, <4>1, <4>2 DEF SameKey, Alone
      <4> QED BY <1>1, <2>1, <3>1, <3>3, <4>2, <4>3 DEF Single
    <3> QED BY <3>2, <3>3
  <2> QED BY <1>3, <1>4, <1>11, <2>2 DEF Alone
<1>12. ASSUME On(w, Packed), ReadRotated(w, cur, old, S) PROVE ReadRotated(w, cur1, old1, S)
  <2>1. \E n \in cur1 \cup old1 : n.head = HeadAt(w, Packed) /\ n.path = Rotated
    <3>1. PICK n \in cur \cup old : n.head = HeadAt(w, Packed) /\ n.path = Rotated
      BY <1>12 DEF ReadRotated
    <3>2. CASE n \in cur1 \cup old1
      BY <3>1, <3>2
    <3>3. CASE n \notin cur1 \cup old1
      <4>1. PICK m \in R : SameKey(n, m)
        BY <1>3, <3>3
      <4>2. n.head = m.head
        BY <1>1, <3>1, <4>1 DEF Single
      <4> QED BY <1>3, <3>1, <4>1, <4>2 DEF SameKey
    <3> QED BY <3>2, <3>3
  <2> QED BY <1>4, <1>12, <2>1 DEF ReadRotated
<1>13. CoveredLive(w, cur1, S)
  <2> SUFFICES ASSUME SeenAt(w, Live, S) PROVE OwnCovers(w, Live, cur1, S)
    BY DEF CoveredLive
  <2>1. OwnCovers(w, Live, cur, S)
    BY <1>1 DEF CoveredLive
  <2>2. PICK n \in cur : n.inode = w.inode[Live] /\ n.head = HeadAt(w, Live)
    BY <2>1 DEF OwnCovers, HasOwn
  <2>3. n.path = Live
    BY <1>1, <2>2 DEF LiveRows
  <2> QED BY <1>9, <2>1, <2>2, <2>3, ThreePaths
<1>14. CoveredRotated(w, cur1, old1, S)
  <2> SUFFICES ASSUME SeenAt(w, Rotated, S), ~OwnCovers(w, Rotated, cur1, S)
               PROVE  /\ ~HasOwn(w, Rotated, cur1)
                      /\ \A n \in cur1 : n.path # Rotated
                      /\ \A n \in old1 : n.inode = w.inode[Rotated] => n.head = HeadAt(w, Rotated)
                      /\ Alone(w, Rotated, cur1, old1, S)
    BY DEF CoveredRotated
  <2>1. On(w, Rotated)
    BY DEF SeenAt
  <2>2. CASE OwnCovers(w, Rotated, cur, S)
    <3>1. PICK n \in cur : n.inode = w.inode[Rotated] /\ n.head = HeadAt(w, Rotated) /\ Covers(w, n, Rotated, S)
      BY <2>2 DEF OwnCovers, HasOwn
    <3>2. n \in R
      BY <1>9, <2>2, <3>1, ThreePaths
    <3>3. n.path = Live
      BY <1>1, <2>1, <3>1, <3>2, ThreePaths DEF RotatedRows
    <3>4. \A x \in cur : x.inode = w.inode[Rotated] \/ x.path = Live => x = n
      BY <3>1, <3>3 DEF Paired
    <3>5. \A x \in cur1 : x.inode # w.inode[Rotated] /\ x.path # Rotated /\ x.path # Live
      BY <1>3, <3>1, <3>2, <3>3, <3>4
    <3>6. ASSUME NEW x \in old1, x.inode = w.inode[Rotated] PROVE x.head = HeadAt(w, Rotated)
      <4>1. x.path = Live
        BY <1>7, <2>1, <3>6 DEF RotatedRows
      <4>2. SameKey(x, n)
        BY <3>1, <3>3, <3>6, <4>1 DEF SameKey
      <4>3. x \in R
        BY <1>3, <3>2, <4>2
      <4>4. x \in cur => x = n
        BY <3>4, <4>1
      <4> QED BY <3>1, <3>6, <4>3, <4>4
    <3>7. ASSUME NEW x \in cur1 \cup old1, x.head = HeadAt(w, Rotated)
          PROVE  x.path = Live /\ Covers(w, x, Rotated, S)
      <4>1. x.path = Live
        BY <1>1, <1>4, <2>1, <3>3, <3>4, <3>7, ThreePaths DEF RotatedRows
      <4>2. x \notin old
        BY <1>1, <1>2, <2>1, <3>1, <3>3, <3>7, <4>1 DEF Single
      <4> QED BY <1>4, <3>1, <3>4, <4>1, <4>2
    <3>8. \A l \in S : l <= EndAt(w, Rotated)
      <4> SUFFICES ASSUME NEW l \in S, ~(l <= EndAt(w, Rotated)) PROVE FALSE
        OBVIOUS
      <4>1. /\ w.at[Live] \in Content /\ w.at[Live].from \in Nat /\ w.at[Live].size \in Nat /\ w.end \in Nat
            /\ EndAt(w, Rotated) \in Nat /\ EndAt(w, Live) = w.at[Live].from + w.at[Live].size
        BY WorldIs, ThreePaths
      <4>2. EndAt(w, Rotated) = w.at[Live].from /\ EndAt(w, Live) = w.end
        BY <2>1 DEF Tidy
      <4>3. l \in Line /\ l \in Nat /\ l <= w.end
        BY <1>1, Constants DEF Counted, Lines0
      <4>4. l \in AllLines(w.at[Live])
        BY <4>1, <4>2, <4>3, LinesAre
      <4>5. SeenAt(w, Live, S)
        BY <1>2, <4>4 DEF SeenAt, SeenOf
      <4>6. PICK x \in cur : x.inode = w.inode[Live]
        BY <1>1, <4>5 DEF CoveredLive, OwnCovers, HasOwn
      <4>7. x.path = Live
        BY <1>1, <4>6 DEF LiveRows
      <4> QED BY <1>2, <2>1, <3>1, <3>4, <4>6, <4>7, ThreePaths
    <3>9. Alone(w, Rotated, cur1, old1, S)
      BY <1>3, <3>1, <3>2, <3>5, <3>7, <3>8 DEF Alone
    <3> QED BY <3>5, <3>6, <3>9 DEF HasOwn
  <2>3. CASE ~OwnCovers(w, Rotated, cur, S)
    <3>1. /\ ~HasOwn(w, Rotated, cur)
          /\ \A n \in cur : n.path # Rotated
          /\ \A n \in old : n.inode = w.inode[Rotated] => n.head = HeadAt(w, Rotated)
          /\ Alone(w, Rotated, cur, old, S)
      BY <1>1, <2>3 DEF CoveredRotated
    <3>2. \A n \in old1 : n.inode = w.inode[Rotated] => n.head = HeadAt(w, Rotated)
      BY <1>3, <3>1 DEF HasOwn
    <3> QED BY <1>3, <1>10, <1>11, <2>1, <3>1, <3>2, ThreePaths
  <2> QED BY <2>2, <2>3
<1>15. CoveredPacked(w, cur1, old1, S)
  <2> SUFFICES ASSUME SeenAt(w, Packed, S) PROVE CoveredPacked(w, cur1, old1, S)
    BY DEF CoveredPacked
  <2>1. On(w, Packed)
    BY DEF SeenAt
  <2>2. CASE OwnCovers(w, Packed, cur, S)
    <3>1. PICK n \in cur : n.inode = w.inode[Packed]
      BY <2>2 DEF OwnCovers, HasOwn
    <3>2. n.path = Packed /\ n \notin R
      BY <1>1, <2>1, <3>1, ThreePaths DEF PackedRows
    <3> QED BY <1>9, <2>2, <3>1, <3>2, ThreePaths DEF CoveredPacked
  <2>3. CASE ~OwnCovers(w, Packed, cur, S)
    <3>1. /\ ~HasOwn(w, Packed, cur)
          /\ \A n \in cur : n.path # Packed
          /\ ReadRotated(w, cur, old, S) \/ Alone(w, Packed, cur, old, S)
      BY <1>1, <2>3 DEF CoveredPacked
    <3> QED BY <1>3, <1>10, <1>11, <1>12, <2>1, <3>1, ThreePaths DEF CoveredPacked
  <2> QED BY <2>2, <2>3
<1>16. ASSUME Settled(w, Packed, cur, old, S) PROVE Settled(w, Packed, cur1, old1, S)
  <2> SUFFICES ASSUME SeenAt(w, Packed, S), HasOwn(w, Packed, cur) PROVE HasOwn(w, Packed, cur1)
    BY <1>12, <1>16, ThreePaths DEF Settled, SeenAt
  <2>1. PICK n \in cur : n.inode = w.inode[Packed]
    BY DEF HasOwn
  <2>2. n.path = Packed /\ n \notin R
    BY <1>1, <2>1, ThreePaths DEF PackedRows, SeenAt
  <2> QED BY <1>9, <2>1, <2>2, ThreePaths
<1> QED BY <1>1, <1>4, <1>5, <1>6, <1>7, <1>8, <1>13, <1>14, <1>15, <1>16 DEF Book, Kinds, cur1, old1

\* ORDER BY completed DESC, offset DESC LIMIT 1 finds a row if there is one.
LEMMA BestExists ==
  ASSUME NEW S \in SUBSET Row, S # {}
  PROVE  LET b == BestByUncompressed(S)
         IN /\ b \in S
            /\ \A s \in S : \/ b.completed /\ ~s.completed
                            \/ b.completed = s.completed /\ b.uoff >= s.uoff
<1> DEFINE T == IF \E r \in S : r.completed THEN {r \in S : r.completed} ELSE S
           U == {r.uoff : r \in T}
           Best(r) == \A s \in S : \/ r.completed /\ ~s.completed
                                   \/ r.completed = s.completed /\ r.uoff >= s.uoff
<1>1. T \subseteq S /\ T # {}
  OBVIOUS
<1>2. \A s \in S : s.completed \in BOOLEAN /\ s.uoff \in 0..MaxLines /\ s.uoff \in Nat
  <2>1. 0..MaxLines \subseteq Nat
    BY Constants DEF Lines0
  <2> QED BY <2>1 DEF Row
<1>3. \A r \in T, s \in S : (r.completed /\ ~s.completed) \/ (s \in T /\ r.completed = s.completed)
  BY <1>2
<1> HIDE DEF T
<1>4. U \in SUBSET (0..MaxLines) /\ U # {} /\ MaxLines \in Nat
  BY <1>1, <1>2, ResumeAssumption
<1>5. Max(U) \in U /\ \A m \in U : m <= Max(U)
  <2> HIDE DEF U
  <2> QED BY <1>4, MaxIs
<1>6. PICK r \in T : r.uoff = Max(U)
  BY <1>5
<1>7. \A s \in T : r.uoff >= s.uoff
  <2>1. \A s \in T : s.uoff \in U
    OBVIOUS
  <2> QED BY <1>1, <1>2, <1>5, <1>6, <2>1
<1>8. r \in S /\ Best(r)
  BY <1>1, <1>3, <1>7
<1>9. BestByUncompressed(S) = TheOnly({s \in S : Best(s)})
  BY DEF BestByUncompressed, BestBy
<1>10. BestByUncompressed(S) \in {s \in S : Best(s)}
  <2> DEFINE B == {s \in S : Best(s)}
  <2>1. B # {}
    BY <1>8
  <2> HIDE DEF B
  <2>2. TheOnly(B) \in B
    BY <2>1, TheOnlyIs
  <2> QED BY <1>9, <2>2 DEF B
<1> QED BY <1>10

\* Files are looked at in the order in which they were written.
LEMMA FileOrder ==
  ASSUME TypeOK, Tidy(World), NEW p \in OnDisk, NEW q \in OnDisk
  PROVE  /\ p \in Paths /\ q \in Paths /\ On(World, p) /\ On(World, q)
         /\ Precedes(p, q) => /\ p # q /\ p # Live /\ At(p).from < At(q).from
                              /\ EndAt(World, p) <= At(q).from
         /\ p # Live /\ EndAt(World, p) <= At(q).from => p # q /\ ~Precedes(q, p)
<1> DEFINE w == World
<1>1. w \in WorldType
  BY ThisWorld
<1>2. ASSUME NEW x \in OnDisk PROVE x \in Paths /\ On(w, x) /\ w.at[x] = At(x)
  <2>1. x \in Paths /\ dir[x] # NoInode
    BY Files DEF OnDisk
  <2> QED BY <2>1, ThisWorld
<1>3. \A x \in Paths : /\ w.at[x].from \in Nat /\ w.at[x].size \in Nat /\ w.at[x].mtime \in Nat
                       /\ EndAt(w, x) = w.at[x].from + w.at[x].size
  BY <1>1, WorldIs
<1>4. /\ w.at[Live].size = 0 => w.at[Live].mtime = w.at[Live].from + 1
      /\ On(w, Rotated) => w.at[Rotated].size > 0 /\ EndAt(w, Rotated) = w.at[Live].from
      /\ On(w, Packed) => w.at[Packed].size > 0 /\ EndAt(w, Packed) = Edge(w)
  BY DEF Tidy
<1>5. Edge(w) = IF On(w, Rotated) THEN w.at[Rotated].from ELSE w.at[Live].from
  BY DEF Edge
<1>6. ASSUME NEW x \in OnDisk PROVE SortKey(x) = w.at[x].from + 1
  BY <1>2, <1>3, <1>4, ThreePaths DEF SortKey, FirstTs
<1>7. PathOrder[p] \in Nat /\ (p = q => PathOrder[p] = PathOrder[q])
  BY <1>2 DEF PathOrder
<1>8. Precedes(p, q) => p # q /\ w.at[p].from <= w.at[q].from
  BY <1>2, <1>3, <1>6, <1>7 DEF Precedes
<1>9. Precedes(q, p) => w.at[q].from <= w.at[p].from
  BY <1>2, <1>3, <1>6 DEF Precedes
<1> HIDE DEF w
<1>10. p # q /\ w.at[p].from <= w.at[q].from =>
         p # Live /\ w.at[p].from < w.at[q].from /\ EndAt(w, p) <= w.at[q].from
  BY <1>2, <1>3, <1>4, <1>5, ThreePaths
<1>11. p # Live /\ EndAt(w, p) <= w.at[q].from => w.at[p].from < w.at[q].from
  BY <1>2, <1>3, <1>4, <1>5, ThreePaths
<1>12. w.at[p].from < w.at[q].from => p # q /\ ~(w.at[q].from <= w.at[p].from)
  BY <1>2, <1>3
<1> QED BY <1>2, <1>8, <1>9, <1>10, <1>11, <1>12 DEF w

\* A file that is skipped by the order of the files has been counted past its end.
LEMMA OrderSkipped ==
  ASSUME ResumeInv, CoverInv, NEW p \in OrderSkip
  PROVE  /\ p \in {Rotated, Packed} /\ p \in OnDisk /\ glob # {Packed}
         /\ Seen = {} \/ \E l \in Seen : ~(l <= EndAt(World, p))
<1>1. TypeOK /\ Tidy(World) /\ LastSeen
  BY CoverParts DEF ResumeInv
<1>2. PICK q \in Pending : Precedes(p, q) /\ FirstTs(q) \in 1..(lastLog - 1)
  BY DEF OrderSkip
<1>3. p \in OnDisk /\ q \in OnDisk
  BY DEF OrderSkip, Pending
<1>4. /\ p \in Paths /\ p # q /\ p # Live /\ EndAt(World, p) <= At(q).from
  BY <1>1, <1>2, <1>3, FileOrder
<1>5. At(q).from \in Nat /\ At(q).size \in Nat /\ EndAt(World, p) \in Nat
  <2>1. At(q) \in Content
    BY <1>1, <1>3, Files
  <2>2. World \in WorldType
    BY <1>1, ThisWorld
  <2> QED BY <1>4, <2>1, <2>2, ContentIs, WorldIs
<1>6. lastLog \in Nat /\ lastLog \in Line /\ ~(lastLog <= EndAt(World, p))
  <2>1. FirstTs(q) \in 1..(lastLog - 1) /\ FirstTs(q) \in {At(q).from + 1, NoTs}
    BY <1>2 DEF FirstTs
  <2>2. lastLog \in 0..MaxLines /\ MaxLines \in Nat
    BY <1>1, ResumeAssumption DEF TypeOK
  <2>3. FirstTs(q) = At(q).from + 1
    BY <2>1, <2>2 DEF NoTs
  <2>4. At(q).from + 1 <= lastLog - 1 /\ lastLog \in 1..MaxLines
    BY <1>5, <2>1, <2>2, <2>3
  <2> QED BY <1>4, <1>5, <2>2, <2>4 DEF Line
<1>7. CASE ~BeforeTarget(lastLog)
  BY <1>1, <1>3, <1>4, <1>6, <1>7, ThreePaths DEF LastSeen, OnDisk
<1>8. CASE BeforeTarget(lastLog)
  <2>1. PICK t \in targets : lastLog < t
    BY <1>8 DEF BeforeTarget
  <2>2. t \in Nat /\ \A l \in Line : l \in Nat
    <3>1. \A s \in Line : s \in Nat
      BY Constants DEF Lines0
    <3> QED BY <1>1, <3>1, Constants DEF TypeOK
  <2>3. Seen = {}
    <3> SUFFICES ASSUME NEW l \in Seen PROVE FALSE
      OBVIOUS
    <3>1. l \in Line /\ l <= lastLog /\ ~BeforeTarget(l)
      BY <1>1 DEF Seen, LastSeen
    <3>2. l < t
      BY <1>6, <2>1, <2>2, <3>1
    <3> QED BY <3>1, <3>2 DEF BeforeTarget
  <2> QED BY <1>3, <1>4, <2>3, ThreePaths DEF OnDisk
<1> QED BY <1>7, <1>8

\* Rows and what they say.
LEMMA TableNotes ==
  ASSUME TypeOK
  PROVE  /\ Paired(Current) /\ KeysOnce(Former)
         /\ \A r \in parseState : r \in Row /\ Note(r) \in Current
         /\ \A r \in archive : r \in Row /\ Note(r) \in Former
         /\ \A n \in Current : \E r \in parseState : n = Note(r)
         /\ \A n \in Former : \E r \in archive : n = Note(r)
<1>1. parseState \subseteq Row /\ archive \subseteq Row
  BY DEF TypeOK
<1>2. /\ \A r \in parseState : r \in Row /\ Note(r) \in Current
      /\ \A r \in archive : r \in Row /\ Note(r) \in Former
      /\ \A n \in Current : \E r \in parseState : n = Note(r)
      /\ \A n \in Former : \E r \in archive : n = Note(r)
  BY <1>1 DEF Current, Former, Notes
<1>3. \A r \in Row : Note(r).path = r.path /\ Note(r).inode = r.inode
  BY NoteOf
<1>4. \A r, s \in parseState : r.path = s.path \/ r.inode = s.inode => r = s
  BY DEF TypeOK
<1>5. \A r, s \in archive : r.path = s.path /\ r.inode = s.inode => r = s
  BY DEF TypeOK
<1>6. Paired(Current)
  <2> SUFFICES ASSUME NEW n \in Current, NEW m \in Current, n.path = m.path \/ n.inode = m.inode PROVE n = m
    BY DEF Paired
  <2>1. PICK r \in parseState : n = Note(r)
    BY <1>2
  <2>2. PICK s \in parseState : m = Note(s)
    BY <1>2
  <2> QED BY <1>2, <1>3, <1>4, <2>1, <2>2
<1>7. KeysOnce(Former)
  <2> SUFFICES ASSUME NEW n \in Former, NEW m \in Former, SameKey(n, m) PROVE n = m
    BY DEF KeysOnce
  <2>1. PICK r \in archive : n = Note(r)
    BY <1>2
  <2>2. PICK s \in archive : m = Note(s)
    BY <1>2
  <2> QED BY <1>2, <1>3, <1>5, <2>1, <2>2 DEF SameKey
<1> QED BY <1>2, <1>6, <1>7

\* The rows that a file retires.
LEMMA RetiredNote ==
  ASSUME ResumeInv, CoverInv, Untroubled, NEW p \in OnDisk, NEW r \in RetiredStates(p)
  PROVE  LET w == World
             n == Note(r)
         IN /\ r \in Row /\ n \in NoteType
            /\ \/ /\ n.path = p /\ r \in parseState /\ n \in Current
                  /\ \/ n.inode # w.inode[p]
                     \/ p = Live /\ n.head \notin {HeadAt(w, Live), NoHead}
               \/ /\ p = Rotated /\ n.path = Live /\ n.inode = w.inode[Rotated] /\ w.inode[Rotated] # w.inode[Live]
                  /\ \/ r \in parseState /\ n \in Current
                     \/ r \in archive /\ n \in Former /\ \A m \in Current : m.inode # n.inode
<1> DEFINE w == World
           n == Note(r)
<1>1. TypeOK /\ Tidy(w) /\ Book(w, Current, Former, Seen) /\ HeadSize = 1
  BY CoverParts DEF ResumeInv, Untroubled
<1>2. /\ w \in WorldType /\ w.inode = dir /\ p \in Paths /\ On(w, p) /\ w.at[p] = At(p)
  <2>1. p \in Paths /\ dir[p] # NoInode
    BY <1>1, Files DEF OnDisk
  <2> QED BY <1>1, <2>1, ThisWorld
<1>3. \/ r \in parseState /\ n \in Current
      \/ r \in archive /\ n \in Former /\ \A s \in parseState : s.inode # r.inode
  BY <1>1, RetiredIs, TableNotes
<1>4. /\ \A x \in Current \cup Former : WellMade(w, x) /\ \A q \in Paths : Sized(w, x, q)
      /\ LiveRows(w, Current, Former) /\ RotatedRows(w, Current, Former) /\ PackedRows(w, Current, Former)
  BY <1>1, BookParts
<1>5. /\ On(w, Live) /\ \A q, x \in Paths : On(w, q) /\ q # x => w.inode[q] # w.inode[x]
      /\ On(w, Packed) => HeadAt(w, Packed) # NoHead
  BY <1>1, <1>2, OtherHeads
<1>6. /\ r \in Row /\ n \in NoteType /\ n.path = r.path /\ n.inode = r.inode
      /\ r.path = Packed => n.size = r.csize
      /\ r.path # Packed => n.size = r.usize
  <2>1. r \in Row
    BY <1>1, <1>3 DEF TypeOK
  <2> QED BY <2>1, NoteOf
<1>7. n.path \in Paths /\ n.size \in Nat /\ w.at[p].size \in Nat
  BY <1>2, <1>6, NoteIs, WorldIs
<1>8. \/ r = ByPath(p) /\ r # NoRow /\ (r.inode # dir[p] \/ At(p).size < PreviousSize(p, r))
      \/ r = ByInode(p) /\ r # NoRow /\ r.path # p
  BY DEF RetiredStates
<1> HIDE DEF w, n
<1>9. CASE r = ByPath(p) /\ r # NoRow /\ (r.inode # dir[p] \/ At(p).size < PreviousSize(p, r))
  <2>1. r \in parseState /\ r.path = p /\ n \in Current
    <3>1. r \in parseState /\ r.path = p
      BY <1>1, <1>9, FoundByPath
    <3> QED BY <1>1, <3>1, TableNotes DEF n
  <2>2. n.inode # w.inode[p] \/ w.at[p].size < n.size
    BY <1>2, <1>6, <1>9, <2>1 DEF PreviousSize, IsCompressed
  <2>3. ASSUME n.inode = w.inode[p] PROVE p = Live /\ n.head \notin {HeadAt(w, Live), NoHead}
    <3>1. w.at[p].size < n.size
      BY <2>2, <2>3
    <3>2. n.head # NoHead
      BY <1>4, <1>7, <2>1, <3>1 DEF WellMade
    <3>3. n.head # HeadAt(w, p)
      BY <1>2, <1>4, <1>7, <2>1, <2>3, <3>1, <3>2 DEF Sized
    <3>4. p # Rotated
      BY <1>2, <1>4, <1>6, <1>7, <2>1, <2>3, <3>1, <3>3, ThreePaths DEF RotatedRows
    <3>5. p # Packed
      BY <1>2, <1>4, <2>1, <2>3, <3>3, ThreePaths DEF PackedRows
    <3> QED BY <1>2, <3>2, <3>3, <3>4, <3>5, ThreePaths
  <2> QED BY <1>6, <2>1, <2>3 DEF w, n
<1>10. CASE r = ByInode(p) /\ r # NoRow /\ r.path # p
  <2>1. n.inode = w.inode[p] /\ n.path # p
    BY <1>1, <1>2, <1>6, <1>10, FoundByInode
  <2>2. p = Rotated /\ n.path = Live
    BY <1>2, <1>3, <1>4, <1>7, <2>1, ThreePaths DEF LiveRows, RotatedRows, PackedRows
  <2>3. \A m \in Current : (\A s \in parseState : s.inode # r.inode) => m.inode # n.inode
    BY <1>1, <1>6, TableNotes, NoteOf
  <2> QED BY <1>2, <1>3, <1>5, <1>6, <2>1, <2>2, <2>3, ThreePaths DEF w, n
<1> QED BY <1>8, <1>9, <1>10

\* What a run leaves of the tables when it has retired rows, before it stores any.
Remaining == Current \ Notes(retired')
Formerly  == Filed(Former, Notes(retired'))

\* The rows a run retires.
LEMMA RetiredRows ==
  ASSUME ResumeInv, CoverInv, Untroubled, StartRun
  PROVE  LET w == World
             R == Notes(retired')
         IN /\ retired' \subseteq parseState \cup archive /\ R \in SUBSET (Current \cup Former)
            /\ \A r \in R : r \in Current =>
                 /\ r.path = Live => r.inode # w.inode[Live] \/ r.head \notin {HeadAt(w, Live), NoHead}
                 /\ r.path # Live => r.inode # w.inode[r.path]
            /\ \A r \in R : r \notin Current => r.path = Live /\ \A n \in Current : n.inode # r.inode
            /\ \A p \in LookedUp : \A q \in RetiredStates(p) : Note(q) \in R
<1> DEFINE w == World
           R == Notes(retired')
<1>1. TypeOK
  BY DEF ResumeInv
<1>2. retired' = UNION {RetiredStates(p) : p \in LookedUp} /\ LookedUp \subseteq OnDisk
  BY DEF StartRun, LookedUp
<1>3. ASSUME NEW n \in R
      PROVE  \E p \in LookedUp : \E q \in RetiredStates(p) : n = Note(q)
  BY <1>2 DEF Notes
<1>4. retired' \subseteq parseState \cup archive
  BY <1>1, <1>2, RetiredIs
<1>5. R \in SUBSET (Current \cup Former)
  BY <1>4 DEF Notes, Current, Former
<1>6. \A p \in LookedUp : \A q \in RetiredStates(p) : Note(q) \in R
  BY <1>2 DEF Notes
<1>7. ASSUME NEW r \in R
      PROVE  /\ r \in Current =>
                  /\ r.path = Live => r.inode # w.inode[Live] \/ r.head \notin {HeadAt(w, Live), NoHead}
                  /\ r.path # Live => r.inode # w.inode[r.path]
             /\ r \notin Current => r.path = Live /\ \A n \in Current : n.inode # r.inode
  <2>0. PICK p \in LookedUp : \E q \in RetiredStates(p) : r = Note(q)
    BY <1>3
  <2>1. PICK q \in RetiredStates(p) : r = Note(q)
    BY <2>0
  <2>2. \/ /\ r.path = p /\ r \in Current
           /\ r.inode # w.inode[p] \/ (p = Live /\ r.head \notin {HeadAt(w, Live), NoHead})
        \/ /\ r.path = Live /\ r.inode = w.inode[Rotated] /\ w.inode[Rotated] # w.inode[Live]
           /\ r \in Current \/ \A m \in Current : m.inode # r.inode
    BY <1>2, <2>1, RetiredNote
  <2> HIDE DEF w, R
  <2> QED BY <2>2
<1> QED BY <1>4, <1>5, <1>6, <1>7

\* A rotated file that has been counted has been looked at if the row of the
\* live file it was is still there.
LEMMA RotatedLookedAt ==
  ASSUME ResumeInv, CoverInv, Untroubled, SeenAt(World, Rotated, Seen),
         NEW r \in Current, r.path = Live, r.inode = World.inode[Rotated]
  PROVE  Rotated \in LookedUp
<1> DEFINE w == World
<1>1. /\ TypeOK /\ Tidy(w) /\ Book(w, Current, Former, Seen) /\ HeadSize = 1
      /\ Globs \subseteq {Paths, {Packed}}
  BY CoverParts DEF ResumeInv, Untroubled
<1>2. /\ w \in WorldType /\ w.inode = dir /\ w.only = (glob = {Packed})
  BY <1>1, ThisWorld
<1>3. On(w, Rotated) /\ Rotated \in OnDisk
  <2>1. WellMade(w, r)
    BY <1>1, BookParts
  <2>2. glob = Paths
    BY <1>1, <1>2, <2>1, ThreePaths DEF WellMade, TypeOK
  <2>3. On(w, Rotated) /\ dir[Rotated] # NoInode
    BY <1>2 DEF SeenAt, On
  <2> QED BY <2>2, <2>3, ThreePaths DEF OnDisk
<1>4. Rotated \notin OrderSkip
  <2> SUFFICES ASSUME Rotated \in OrderSkip PROVE FALSE
    OBVIOUS
  <2>1. Seen = {} \/ \E l \in Seen : ~(l <= EndAt(w, Rotated))
    BY OrderSkipped
  <2>2. PICK l \in Seen : ~(l <= EndAt(w, Rotated))
    BY <2>1 DEF SeenAt, SeenOf
  <2>3. /\ w.at[Live] \in Content /\ w.at[Live].from \in Nat /\ w.at[Live].size \in Nat /\ w.end \in Nat
        /\ EndAt(w, Rotated) \in Nat /\ EndAt(w, Live) = w.at[Live].from + w.at[Live].size
    BY <1>2, WorldIs, ThreePaths
  <2>4. On(w, Live) /\ EndAt(w, Rotated) = w.at[Live].from /\ EndAt(w, Live) = w.end
    BY <1>1, <1>3 DEF Tidy
  <2>5. l \in Line /\ l \in Nat /\ l <= w.end
    <3>1. l \in Line /\ l <= w.end
      BY <1>1, BookParts DEF Seen, Counted
    <3> QED BY <3>1, Constants DEF Lines0
  <2>6. l \in AllLines(w.at[Live])
    BY <2>2, <2>3, <2>4, <2>5, LinesAre
  <2>7. SeenAt(w, Live, Seen)
    BY <2>4, <2>6 DEF SeenAt, SeenOf
  <2>8. PICK x \in Current : x.inode = w.inode[Live]
    <3>1. CoveredLive(w, Current, Seen)
      BY <1>1, BookParts
    <3> QED BY <2>7, <3>1 DEF CoveredLive, OwnCovers, HasOwn
  <2>9. x.path = Live
    BY <1>1, <2>8, BookParts DEF LiveRows
  <2>10. x = r
    BY <1>1, <2>9, TableNotes DEF Paired
  <2>11. w.inode[Rotated] # w.inode[Live]
    BY <1>1, <1>2, <1>3, OtherHeads, ThreePaths
  <2> QED BY <2>8, <2>10, <2>11
<1> QED BY <1>3, <1>4 DEF LookedUp

LEMMA RunRetires ==
  ASSUME ResumeInv, CoverInv, Untroubled, StartRun
  PROVE  /\ Remaining \in SUBSET NoteType /\ Formerly \in SUBSET NoteType
         /\ Book(World, Remaining, Formerly, Seen)
         /\ Settled(World, Packed, Current, Former, Seen) => Settled(World, Packed, Remaining, Formerly, Seen)
         /\ Notes(Unretired') = Remaining
         /\ \A p \in LookedUp : \A n \in Remaining :
              /\ n.inode = World.inode[p] => n.path = p
              /\ n.path = p => n.inode = World.inode[p] /\ n.head \in {HeadAt(World, p), NoHead}
<1> DEFINE w == World
           R == Notes(retired')
<1>1. TypeOK /\ Tidy(w) /\ Book(w, Current, Former, Seen) /\ HeadSize = 1
  BY CoverParts DEF ResumeInv, Untroubled
<1>2. /\ retired' \subseteq parseState \cup archive /\ R \in SUBSET (Current \cup Former)
      /\ \A r \in R : r \in Current =>
           /\ r.path = Live => r.inode # w.inode[Live] \/ r.head \notin {HeadAt(w, Live), NoHead}
           /\ r.path # Live => r.inode # w.inode[r.path]
      /\ \A r \in R : r \notin Current => r.path = Live /\ \A n \in Current : n.inode # r.inode
      /\ \A p \in LookedUp : \A q \in RetiredStates(p) : Note(q) \in R
  BY RetiredRows
<1>3. /\ w \in WorldType /\ w.inode = dir
      /\ \A p \in OnDisk : p \in Paths /\ On(w, p) /\ w.at[p] = At(p)
  <2>1. w \in WorldType /\ w.inode = dir
    BY <1>1, ThisWorld
  <2>2. ASSUME NEW p \in OnDisk PROVE p \in Paths /\ On(w, p) /\ w.at[p] = At(p)
    <3>1. p \in Paths /\ dir[p] # NoInode
      BY <1>1, Files DEF OnDisk
    <3> QED BY <1>1, <3>1, ThisWorld
  <2> QED BY <2>1, <2>2
<1>4. /\ Paired(Current) /\ KeysOnce(Former)
      /\ \A r \in parseState : r \in Row /\ Note(r) \in Current
      /\ \A r \in archive : r \in Row /\ Note(r) \in Former
      /\ \A n \in Current : \E r \in parseState : n = Note(r)
      /\ \A n \in Former : \E r \in archive : n = Note(r)
  BY <1>1, TableNotes
<1>5. /\ Current \in SUBSET NoteType /\ Former \in SUBSET NoteType /\ Seen \in SUBSET Line
  BY TablesTyped
<1>6. parseState' = parseState /\ LookedUp \subseteq OnDisk
  BY DEF StartRun, dbVars, LookedUp
<1> HIDE DEF w, R
<1>7. ASSUME NEW s \in parseState, NEW p \in LookedUp, s.path = p, Note(s) \notin R
      PROVE  Note(s).inode = w.inode[p] /\ Note(s).head \in {HeadAt(w, p), NoHead}
  <2>1. s \in Row /\ s # NoRow /\ ByPath(p) = s
    BY <1>1, <1>4, <1>7, FoundByPath, RowFields DEF OptRow
  <2>2. s \notin RetiredStates(p)
    BY <1>2, <1>7
  <2>3. s.inode = dir[p] /\ ~(At(p).size < PreviousSize(p, s))
    BY <2>1, <2>2 DEF RetiredStates
  <2>4. /\ Note(s) \in Current /\ Note(s) \in NoteType /\ Note(s).path = p /\ Note(s).inode = s.inode
        /\ Note(s).size = PreviousSize(p, s)
    BY <1>4, <1>7, <2>1, NoteOf DEF PreviousSize, IsCompressed
  <2>5. Sized(w, Note(s), p)
    BY <1>1, <1>3, <1>6, <2>4, BookParts
  <2>6. Note(s).size \in Nat /\ w.at[p].size \in Nat /\ w.at[p] = At(p) /\ On(w, p)
    BY <1>3, <1>6, <2>4, NoteIs, WorldIs
  <2> QED BY <1>3, <2>3, <2>4, <2>5, <2>6 DEF Sized
<1>8. ASSUME SeenAt(w, Rotated, Seen), NEW r \in R, r \in Current, r.path = Live, r.inode = w.inode[Rotated],
             NEW n \in Current, n.path = Rotated
      PROVE  n \in R
  <2>1. Rotated \in LookedUp
    BY <1>8, RotatedLookedAt DEF w
  <2>2. PICK s \in parseState : n = Note(s)
    BY <1>4
  <2>3. s.path = Rotated
    BY <1>4, <1>8, <2>2, NoteOf
  <2>4. n.inode # r.inode
    BY <1>4, <1>8, ThreePaths DEF Paired
  <2> QED BY <1>7, <1>8, <2>1, <2>2, <2>3, <2>4
<1>9. /\ Book(w, Current \ R, Filed(Former, R), Seen)
      /\ Settled(w, Packed, Current, Former, Seen) => Settled(w, Packed, Current \ R, Filed(Former, R), Seen)
  <2>1. Book(w, Current, Former, Seen) /\ Tidy(w) /\ w \in WorldType /\ HeadSize = 1
    BY <1>1, <1>3 DEF w
  <2>2. \A r \in R : r \in Current =>
           /\ r.path = Live => r.inode # w.inode[Live] \/ r.head \notin {HeadAt(w, Live), NoHead}
           /\ r.path # Live => r.inode # w.inode[r.path]
    BY <1>2
  <2>3. \A r \in R : r \notin Current => r.path = Live /\ \A n \in Current : n.inode # r.inode
    BY <1>2
  <2>4. \A r \in R : SeenAt(w, Rotated, Seen) /\ r \in Current /\ r.path = Live /\ r.inode = w.inode[Rotated] =>
           \A n \in Current : n.path = Rotated => n \in R
    BY <1>8
  <2> QED BY <1>2, <1>4, <1>5, <2>1, <2>2, <2>3, <2>4, BookRetires
<1>10. Notes(Unretired') = Remaining
  <2>1. ASSUME NEW s \in parseState
        PROVE  s \in Unretired' <=> Note(s) \notin R
    <3>1. s \in Unretired' <=> \A r \in retired' : ~(r.path = s.path /\ r.inode = s.inode)
      BY <1>6 DEF Unretired
    <3>2. ASSUME NEW r \in retired', r.path = s.path, r.inode = s.inode PROVE Note(s) \in R
      <4>1. Note(r) \in R
        BY DEF R, Notes
      <4>2. r \in parseState => r = s
        BY <1>1, <3>2 DEF TypeOK
      <4>3. CASE r \notin parseState
        <5>1. r \in Row /\ Note(r) \in NoteType /\ s \in Row
          BY <1>2, <1>4, NoteOf
        <5>2. Note(r).inode = Note(s).inode /\ Note(r).path = Note(s).path /\ Note(s) \in Current
          BY <1>4, <3>2, <5>1, NoteOf
        <5>3. Note(r) \in Current
          BY <1>2, <4>1, <5>2
        <5> QED BY <1>4, <4>1, <5>2, <5>3 DEF Paired
      <4> QED BY <4>1, <4>2, <4>3
    <3>3. ASSUME Note(s) \in R PROVE \E r \in retired' : r.path = s.path /\ r.inode = s.inode
      <4>1. PICK r \in retired' : Note(s) = Note(r)
        BY <3>3 DEF R, Notes
      <4>2. r \in Row /\ s \in Row
        BY <1>2, <1>4
      <4> QED BY <4>1, <4>2, NoteOf
    <3> QED BY <3>1, <3>2, <3>3
  <2>2. Unretired' \subseteq parseState
    BY <1>6 DEF Unretired
  <2> QED BY <1>4, <2>1, <2>2 DEF Notes, Remaining, R
<1>11. ASSUME NEW p \in LookedUp, NEW n \in Remaining
       PROVE  /\ n.inode = w.inode[p] => n.path = p
              /\ n.path = p => n.inode = w.inode[p] /\ n.head \in {HeadAt(w, p), NoHead}
  <2>1. PICK s \in Unretired' : n = Note(s)
    BY <1>10 DEF Notes
  <2>2. s \in parseState /\ s \in Row /\ n \notin R /\ n.path = s.path /\ n.inode = s.inode
    BY <1>4, <1>6, <2>1, NoteOf DEF Remaining, R, Unretired
  <2>3. n.inode = w.inode[p] => n.path = p
    BY <1>3, <2>1, <2>2, StartRunTables
  <2> QED BY <1>7, <2>1, <2>2, <2>3
<1>12. Remaining \in SUBSET NoteType /\ Formerly \in SUBSET NoteType
  BY <1>2, <1>5 DEF Remaining, Formerly, Filed, R
<1> QED BY <1>9, <1>10, <1>11, <1>12 DEF Remaining, Formerly, w, R

\* The row a file is compared with is of its inode, or the path's and there is none
\* of its inode.
LEMMA PrimaryIs ==
  ASSUME TypeOK, NEW p \in OnDisk
  PROVE  LET r == Primary(p)
             n == Note(r)
             i == World.inode[p]
         IN /\ r = NoRow => /\ ByPath(p) = NoRow /\ ByInode(p) = NoRow
                            /\ \A m \in Current : m.path # p
                            /\ \A m \in Current \cup Former : m.inode # i
            /\ r # NoRow =>
                 /\ r \in Row /\ r \in KnownRows /\ n \in NoteType /\ n \in Current \cup Former
                 /\ \/ n.inode = i /\ (n \in Current \/ \A m \in Current : m.inode # i)
                    \/ /\ n.path = p /\ n.inode # i /\ n \in Current /\ InodeChanged(p)
                       /\ \A m \in Current \cup Former : m.inode # i
<1> DEFINE r == Primary(p)
           n == Note(r)
           i == World.inode[p]
<1>1. /\ \A x \in parseState : x \in Row /\ Note(x) \in Current
      /\ \A x \in archive : x \in Row /\ Note(x) \in Former
      /\ \A m \in Current : \E x \in parseState : m = Note(x)
      /\ \A m \in Former : \E x \in archive : m = Note(x)
      /\ \A x \in Row : Note(x) \in NoteType /\ Note(x).path = x.path /\ Note(x).inode = x.inode /\ x # NoRow
  BY TableNotes, NoteOf, RowFields DEF OptRow
<1>2. i = dir[p]
  BY ThisWorld
<1>3. /\ ByPath(p) \in OptRow
      /\ ByPath(p) # NoRow => ByPath(p) \in parseState /\ ByPath(p).path = p
      /\ \A s \in parseState : s.path = p => ByPath(p) = s
  BY FoundByPath
<1>4. /\ ByInode(p) \in OptRow
      /\ ByInode(p) # NoRow => ByInode(p) \in parseState \cup archive /\ ByInode(p).inode = i
      /\ \A s \in parseState : s.inode = i => ByInode(p) = s
  BY <1>2, FoundByInode
<1>5. ASSUME ByInode(p) = NoRow, NEW m \in Current \cup Former PROVE m.inode # i
  <2> SUFFICES ASSUME m.inode = i PROVE FALSE
    OBVIOUS
  <2>1. \A x \in parseState : x.inode # i
    BY <1>1, <1>4, <1>5
  <2>2. PICK x \in archive : m = Note(x)
    BY <1>1, <2>1
  <2> DEFINE A == {x1 \in archive : x1.inode = i}
  <2>3. A \in SUBSET Row /\ A # {}
    BY <1>1, <2>2
  <2>4. ByInode(p) = BestByUncompressed(A)
    BY <1>2, <2>1 DEF ByInode, StateByInode
  <2> HIDE DEF A
  <2>5. BestByUncompressed(A) \in A
    BY <2>3, BestExists
  <2> QED BY <1>1, <1>5, <2>3, <2>4, <2>5
<1>6. ASSUME ByPath(p) = NoRow, NEW m \in Current PROVE m.path # p
  BY <1>1, <1>3, <1>6
<1>7. r = ChoosePrimary(ByPath(p), ByInode(p), i)
  BY <1>2 DEF Primary
<1>8. CASE r = NoRow
  <2>1. ByPath(p) = NoRow /\ ByInode(p) = NoRow
    BY <1>7, <1>8 DEF ChoosePrimary
  <2> QED BY <1>5, <1>6, <1>8, <2>1
<1>9. CASE ByPath(p) # NoRow /\ ByPath(p).inode = i
  <2>1. r = ByPath(p) /\ r \in parseState
    BY <1>3, <1>7, <1>9 DEF ChoosePrimary
  <2>2. n \in Current /\ n \in NoteType /\ n.inode = i /\ r \in Row
    BY <1>1, <1>9, <2>1
  <2> QED BY <1>9, <2>1, <2>2 DEF KnownRows
<1>10. CASE ~(ByPath(p) # NoRow /\ ByPath(p).inode = i) /\ ByInode(p) # NoRow
  <2>1. r = ByInode(p) /\ r \in parseState \cup archive /\ r.inode = i
    BY <1>4, <1>7, <1>10 DEF ChoosePrimary
  <2>2. r \in Row /\ n \in Current \cup Former /\ n \in NoteType /\ n.inode = i
    BY <1>1, <2>1
  <2>3. n \in Current \/ \A m \in Current : m.inode # i
    <3> SUFFICES ASSUME NEW m \in Current, m.inode = i PROVE n \in Current
      OBVIOUS
    <3>1. PICK x \in parseState : m = Note(x)
      BY <1>1
    <3>2. r = x
      BY <1>1, <1>4, <2>1, <3>1
    <3> QED BY <1>1, <3>1, <3>2
  <2> QED BY <1>10, <2>1, <2>2, <2>3 DEF KnownRows
<1>11. CASE ByPath(p) # NoRow /\ ByPath(p).inode # i /\ ByInode(p) = NoRow
  <2>1. r = ByPath(p) /\ r \in parseState /\ r.path = p
    BY <1>3, <1>7, <1>11 DEF ChoosePrimary
  <2>2. r \in Row /\ n \in Current /\ n \in NoteType /\ n.path = p /\ n.inode # i
    BY <1>1, <1>11, <2>1
  <2>3. InodeChanged(p)
    BY <1>2, <1>11 DEF InodeChanged
  <2> QED BY <1>5, <1>11, <2>1, <2>2, <2>3 DEF KnownRows
<1>12. ByPath(p) = NoRow /\ ByInode(p) = NoRow => r = NoRow
  BY <1>7 DEF ChoosePrimary
<1> HIDE DEF r, n, i
<1> QED BY <1>8, <1>9, <1>10, <1>11, <1>12 DEF r, n, i

\* The row of a file has its path, unless the file is the rotated one and has not
\* been read since.
LEMMA PrimaryPath ==
  ASSUME ResumeInv, CoverInv, Untroubled, NEW p \in OnDisk, Primary(p) # NoRow, Primary(p).path # p
  PROVE  p = Rotated /\ Primary(p).path = Live /\ Primary(p).inode = World.inode[p]
<1> DEFINE w == World
           n == Note(Primary(p))
<1>1. TypeOK /\ Book(w, Current, Former, Seen)
  BY CoverParts DEF ResumeInv
<1>2. /\ n \in NoteType /\ n \in Current \cup Former /\ n.path = Primary(p).path /\ n.inode = Primary(p).inode
      /\ n.inode = w.inode[p] \/ n.path = p
  <2>1. Primary(p) \in Row /\ n \in NoteType /\ n \in Current \cup Former /\ (n.inode = w.inode[p] \/ n.path = p)
    BY <1>1, PrimaryIs
  <2> QED BY <2>1, NoteOf
<1>3. p \in Paths /\ On(w, p)
  <2>1. p \in Paths /\ dir[p] # NoInode
    BY <1>1, Files DEF OnDisk
  <2> QED BY <1>1, <2>1, ThisWorld
<1>4. LiveRows(w, Current, Former) /\ RotatedRows(w, Current, Former) /\ PackedRows(w, Current, Former)
  BY <1>1, BookParts
<1> HIDE DEF w, n
<1>5. n.inode = w.inode[p]
  BY <1>2
<1>6. n.path = Live /\ p = Rotated
  BY <1>2, <1>3, <1>4, <1>5, ThreePaths DEF LiveRows, RotatedRows, PackedRows
<1> QED BY <1>2, <1>5, <1>6 DEF w

\* Only what the rotated file was copied to or renamed from is taken for another.
LEMMA DuplicateIs ==
  ASSUME ResumeInv, CoverInv, Untroubled, NEW p \in OnDisk, IsDuplicate(p)
  PROVE  p = Rotated
<1> DEFINE w == World
<1>1. TypeOK /\ Book(w, Current, Former, Seen) /\ Tidy(w) /\ HeadSize = 1
  BY CoverParts DEF ResumeInv, Untroubled
<1>2. p \in Paths /\ On(w, p) /\ w.at[p] = At(p) /\ w \in WorldType /\ w.inode[p] = dir[p]
  <2>1. p \in Paths /\ dir[p] # NoInode
    BY <1>1, Files DEF OnDisk
  <2> QED BY <1>1, <2>1, ThisWorld
<1>3. /\ LiveRows(w, Current, Former) /\ PackedRows(w, Current, Former)
      /\ \A n \in Current \cup Former : WellMade(w, n)
  BY <1>1, BookParts
<1>4. PICK r \in Duplicates(p) : ~SkipGlobalDedup(p)
  BY DEF IsDuplicate
<1>5. /\ r \in parseState \cup archive /\ r.completed
      /\ IsCompressed(p) => r.chead = HeadOf(At(p)) /\ r.csize = At(p).size
      /\ ~IsCompressed(p) => At(p).size > 0 /\ r.uhead = HeadOf(At(p)) /\ r.usize = At(p).size
  BY <1>4 DEF Duplicates, ComputeFingerprints, KnownRows
<1>6. /\ r \in Row /\ Note(r) \in NoteType /\ Note(r) \in Current \cup Former
      /\ r # NoRow /\ Note(r).path = r.path /\ Note(r).inode = r.inode
      /\ Note(r).head = r.uhead /\ Note(r).chead = r.chead
      /\ Note(r) \notin Former => r \in parseState
  <2>1. r \in Row /\ Note(r) \in Current \cup Former /\ (Note(r) \notin Former => r \in parseState)
    BY <1>1, <1>5, TableNotes
  <2> QED BY <2>1, NoteOf, RowFields DEF OptRow
<1>7. ASSUME r.path = p, r.inode = dir[p], r \in parseState PROVE FALSE
  <2>1. ByPath(p) = r /\ ByInode(p) = r
    BY <1>1, <1>7, FoundByPath, FoundByInode
  <2> QED BY <1>4, <1>6, <1>7, <2>1 DEF SkipGlobalDedup, InodeChanged
<1> HIDE DEF w
<1>8. CASE p = Live
  <2>1. HeadAt(w, Live) # NoHead /\ Note(r).head = HeadAt(w, Live)
    <3>1. At(p) \in Content /\ At(p).size > 0 /\ r.uhead = HeadOf(At(p))
      BY <1>1, <1>5, <1>8, Files, ThreePaths DEF IsCompressed
    <3>2. HeadOf(At(p)) # NoHead
      BY <1>1, <3>1, ContentIs, HeadIs
    <3> QED BY <1>2, <1>6, <1>8, <3>1, <3>2 DEF HeadAt
  <2>2. Note(r).path = Live /\ Note(r).inode = w.inode[Live] /\ Note(r) \notin Former
    BY <1>3, <1>6, <2>1 DEF LiveRows
  <2> QED BY <1>2, <1>6, <1>7, <1>8, <2>2
<1>9. CASE p = Packed
  <2>1. HeadAt(w, Packed) # NoHead /\ Note(r).chead = HeadAt(w, Packed)
    BY <1>1, <1>2, <1>5, <1>6, <1>9, OtherHeads DEF IsCompressed, HeadAt
  <2>2. Note(r).path = Packed /\ Note(r).head = HeadAt(w, Packed)
    BY <1>3, <1>6, <2>1, ThreePaths DEF WellMade, IsCompressed
  <2>3. Note(r).inode = w.inode[Packed] /\ Note(r) \notin Former
    BY <1>2, <1>3, <1>6, <1>9, <2>2 DEF PackedRows
  <2> QED BY <1>2, <1>6, <1>7, <1>9, <2>2, <2>3
<1> QED BY <1>2, <1>8, <1>9, ThreePaths

\* What is stored for a file that is not read: the rotated one, whose content is
\* that of a row which covers what has been counted.
LEMMA UpdateFits ==
  ASSUME ResumeInv, CoverInv, Untroubled, NEW p \in OnDisk, NEW r \in SkippedUpdate(p)
  PROVE  LET w == World
             m == Note(r)
         IN /\ p = Rotated /\ SkippedUpdate(p) = {r} /\ r \in Row /\ r.completed
            /\ m \in NoteType /\ m.path = Rotated /\ m.inode = w.inode[Rotated]
            /\ About(w, m, w.at[Rotated]) /\ Covers(w, m, Rotated, Seen)
<1> DEFINE w == World
           m == Note(r)
           b == Primary(p)
           n == Note(b)
<1>1. /\ TypeOK /\ Tidy(w) /\ Book(w, Current, Former, Seen) /\ HeadSize = 1 /\ Globs \subseteq {Paths, {Packed}}
  BY CoverParts DEF ResumeInv, Untroubled
<1>2. /\ p \in Paths /\ dir[p] # NoInode /\ At(p) \in Content /\ At(p).size \in Nat /\ At(p).from \in Nat
      /\ w \in WorldType /\ w.inode = dir /\ w.only = (glob = {Packed})
      /\ On(w, p) /\ w.at[p] = At(p)
  <2>1. p \in Paths /\ dir[p] # NoInode /\ At(p) \in Content
    BY <1>1, Files DEF OnDisk
  <2> QED BY <1>1, <2>1, ThisWorld, ContentIs
<1>3. \/ MetadataExactMatch(p) /\ r = AliasRow(p) /\ b.path # p /\ SkippedUpdate(p) = {r}
      \/ CompressedMatch(p) /\ b.path # p
      \/ IsDuplicate(p) /\ r = CompletedUpdate(p) /\ SkippedUpdate(p) = {r}
      \/ IsSameFile(p) /\ b.path # p /\ r \in AliasUpdateWithFps(p) /\ SkippedUpdate(p) = {r}
  <2>1. \A x \in AliasUpdate(p) : b.path # p /\ x = AliasRow(p) /\ AliasUpdate(p) = {x}
    BY DEF AliasUpdate
  <2>2. \A x \in AliasUpdateWithFps(p) : b.path # p /\ AliasUpdateWithFps(p) = {x}
    BY DEF AliasUpdateWithFps
  <2> QED BY <2>1, <2>2 DEF SkippedUpdate
<1>4. r \in Row /\ r.path = p /\ r.inode = dir[p]
  BY <1>1, UpdateIsRow DEF IsAbout
<1>5. ASSUME b.path # p, b # NoRow PROVE p = Rotated /\ b.path = Live /\ b.inode = w.inode[p]
  BY <1>5, PrimaryPath
<1>6. MetadataExactMatch(p) \/ CompressedMatch(p) \/ IsSameFile(p) => b.completed /\ b # NoRow
  <2>1. MetadataExactMatch(p) \/ CompressedMatch(p) \/ IsSameFile(p) => b.completed
    BY DEF MetadataExactMatch, CompressedMatch, IsSameFile
  <2>2. b \in OptRow
    BY <1>1, FoundRows
  <2> QED BY <2>1, <2>2, RowFields
<1>7. ~CompressedMatch(p) \/ b.path = p
  BY <1>5, <1>6, ThreePaths DEF CompressedMatch, IsCompressed
<1>8. p = Rotated
  BY <1>3, <1>5, <1>6, <1>7, DuplicateIs
<1>9. m \in NoteType /\ m.path = Rotated /\ m.inode = w.inode[Rotated] /\ m.head = r.uhead /\ m.chead = r.chead
      /\ m.size = r.usize /\ m.upto = r.uoff /\ m.mtime = r.mtime /\ m.done = r.completed
  BY <1>2, <1>4, <1>8, NoteOf, ThreePaths
<1>10. ~w.only /\ ~IsCompressed(p)
  <2>1. glob = Paths
    BY <1>1, <1>8, ThreePaths DEF OnDisk, TypeOK
  <2> QED BY <1>2, <1>8, <2>1, ThreePaths DEF IsCompressed
<1>11. /\ w.at[Rotated].size > 0 /\ HeadAt(w, Rotated) # NoHead
       /\ HeadAt(w, Rotated) = HeadOf(At(p)) /\ HeadAt(w, Rotated)[1] < w.end
       /\ HeadAt(w, Rotated)[2] = 1
  <2>1. /\ w.at[Rotated].size > 0 /\ EndAt(w, Rotated) = w.at[Live].from /\ EndAt(w, Live) = w.end
        /\ HeadAt(w, Rotated) # NoHead
    BY <1>1, <1>2, <1>8, OtherHeads DEF Tidy
  <2>2. /\ w.at[Live].from \in Nat /\ w.at[Live].size \in Nat
        /\ EndAt(w, Live) = w.at[Live].from + w.at[Live].size
        /\ EndAt(w, Rotated) = w.at[Rotated].from + w.at[Rotated].size
    BY <1>2, WorldIs, ThreePaths
  <2>3. HeadAt(w, Rotated) = <<w.at[Rotated].from, 1>>
    BY <1>1, <1>2, <1>8, <2>1, HeadIs DEF HeadAt
  <2> QED BY <1>2, <1>8, <2>1, <2>2, <2>3 DEF HeadAt
<1>12. ASSUME m.head = HeadAt(w, Rotated), m.chead = NoHead, m.size = w.at[Rotated].size, m.mtime = w.at[Rotated].mtime
       PROVE  About(w, m, w.at[Rotated])
  <2>1. m.size \in Nat
    BY <1>9, NoteIs
  <2>2. WellMade(w, m)
    BY <1>9, <1>10, <1>11, <1>12, ThreePaths DEF WellMade, IsCompressed
  <2> QED BY <1>12, <2>1, <2>2 DEF About, HeadAt
<1>13. SeenOf(w.at[Rotated], Seen) \subseteq AllLines(w.at[Rotated])
  BY DEF SeenOf
<1>14. ASSUME m.upto \in Nat, m.upto >= w.at[Rotated].size PROVE Covers(w, m, Rotated, Seen)
  <2> SUFFICES ASSUME NEW l \in SeenOf(w.at[Rotated], Seen) PROVE l <= w.at[Rotated].from + m.upto
    BY DEF Covers, Within
  <2>1. l \in Line /\ l <= w.at[Rotated].from + w.at[Rotated].size
    BY <1>2, <1>8, <1>13, LinesAre
  <2>2. l \in Nat
    BY <2>1, Constants DEF Lines0
  <2> QED BY <1>2, <1>8, <1>14, <2>1, <2>2
<1>15. CASE IsDuplicate(p) /\ r = CompletedUpdate(p) /\ SkippedUpdate(p) = {r}
  <2>1. /\ r.usize = At(p).size /\ r.uoff = At(p).size /\ r.chead = NoHead /\ r.uhead = HeadOf(At(p))
        /\ r.mtime = At(p).mtime /\ r.completed
    BY <1>10, <1>15 DEF CompletedUpdate, ComputeFingerprints, NoRow
  <2> QED BY <1>2, <1>4, <1>8, <1>9, <1>11, <1>12, <1>14, <1>15, <2>1
<1>16. ASSUME b # NoRow, b.path # p
       PROVE  /\ n \in NoteType /\ n \in Current \cup Former /\ n.path = Live /\ n.inode = w.inode[Rotated]
              /\ n.head = b.uhead /\ n.chead = b.chead /\ n.size = b.usize /\ n.upto = b.uoff
              /\ WellMade(w, n) /\ Sized(w, n, Rotated) /\ b.chead = NoHead
              /\ n \in Current \/ \A x \in Current : x.inode # w.inode[Rotated]
  <2>1. b.path = Live /\ b.inode = w.inode[Rotated]
    BY <1>5, <1>8, <1>16
  <2>2. b \in Row /\ n \in NoteType /\ n \in Current \cup Former
        /\ (n.inode = w.inode[p] \/ n.inode # w.inode[p])
        /\ (n.inode = w.inode[p] => n \in Current \/ \A x \in Current : x.inode # w.inode[p])
    BY <1>1, <1>16, PrimaryIs
  <2>3. n.path = Live /\ n.inode = w.inode[Rotated] /\ n.head = b.uhead /\ n.chead = b.chead
        /\ n.size = b.usize /\ n.upto = b.uoff
    BY <2>1, <2>2, NoteOf, ThreePaths
  <2>4. WellMade(w, n) /\ Sized(w, n, Rotated)
    BY <1>1, <2>2, BookParts, ThreePaths
  <2>5. b.chead = NoHead
    BY <2>3, <2>4, ThreePaths DEF WellMade, IsCompressed
  <2> QED BY <1>8, <2>2, <2>3, <2>4, <2>5
<1>17. AliasRow(p).uhead = b.uhead /\ AliasRow(p).chead = b.chead /\ AliasRow(p).usize = b.usize
       /\ AliasRow(p).uoff = b.uoff /\ AliasRow(p).mtime = At(p).mtime /\ AliasRow(p).completed = TRUE
  <2>1. b \in OptRow
    BY <1>1, FoundRows
  <2>2. CASE b \in Row
    BY <2>2 DEF AliasRow, Row
  <2>3. CASE b = NoRow
    BY <2>3 DEF AliasRow, NoRow
  <2> QED BY <2>1, <2>2, <2>3 DEF OptRow
<1>18. CASE MetadataExactMatch(p) /\ r = AliasRow(p) /\ b.path # p /\ SkippedUpdate(p) = {r}
  <2>1. b.usize = At(p).size /\ b.uoff >= At(p).size /\ b # NoRow
    BY <1>6, <1>10, <1>18 DEF MetadataExactMatch, PreviousSize
  <2>2. n.head # NoHead
    BY <1>2, <1>8, <1>11, <1>16, <1>18, <2>1 DEF WellMade
  <2>3. n.head = HeadAt(w, Rotated)
    BY <1>2, <1>8, <1>16, <1>18, <2>1, <2>2 DEF Sized
  <2>4. b.uoff \in Nat
    BY <1>16, <1>18, <2>1, NoteIs
  <2> QED BY <1>2, <1>4, <1>8, <1>9, <1>12, <1>14, <1>16, <1>17, <1>18, <2>1, <2>3, <2>4
<1>19. CASE IsSameFile(p) /\ b.path # p /\ r \in AliasUpdateWithFps(p) /\ SkippedUpdate(p) = {r}
  <2>1. b.usize = At(p).size /\ b.uhead = HeadOf(At(p)) /\ b # NoRow
    BY <1>6, <1>10, <1>19 DEF IsSameFile, ComputeFingerprints
  <2>2. ComputeFingerprints(p).chead = NoHead /\ ComputeFingerprints(p).uhead = HeadOf(At(p))
    BY <1>10 DEF ComputeFingerprints
  <2>3. r = [AliasRow(p) EXCEPT !.csize = 0, !.coff = 0, !.chead = NoHead, !.uhead = HeadOf(At(p))]
    BY <1>10, <1>11, <1>19, <2>2 DEF AliasUpdateWithFps
  <2>4. /\ r.usize = At(p).size /\ r.uoff = b.uoff /\ r.chead = NoHead /\ r.uhead = HeadOf(At(p))
        /\ r.mtime = At(p).mtime /\ r.completed
    <3>1. AliasRow(p) \in Row
      BY <1>1, <1>6, <1>19, AliasIsRow DEF IsAbout
    <3> QED BY <1>17, <2>1, <2>3, <3>1 DEF Row
  <2>5. Covers(w, n, Rotated, Seen)
    <3>1. CASE ~SeenAt(w, Rotated, Seen)
      BY <1>2, <1>8, <3>1 DEF SeenAt, Covers, Within
    <3>2. CASE SeenAt(w, Rotated, Seen)
      <4>1. CoveredRotated(w, Current, Former, Seen)
        BY <1>1, BookParts
      <4>2. CASE OwnCovers(w, Rotated, Current, Seen)
        BY <1>16, <1>19, <2>1, <4>2 DEF OwnCovers, HasOwn
      <4>3. CASE Alone(w, Rotated, Current, Former, Seen)
        BY <1>11, <1>16, <1>19, <2>1, <4>3 DEF Alone
      <4> QED BY <3>2, <4>1, <4>2, <4>3 DEF CoveredRotated
    <3> QED BY <3>1, <3>2
  <2>6. Covers(w, m, Rotated, Seen)
    BY <1>9, <1>16, <1>19, <2>1, <2>4, <2>5 DEF Covers
  <2> QED BY <1>2, <1>4, <1>8, <1>9, <1>11, <1>12, <1>19, <2>4, <2>6
<1> QED BY <1>3, <1>7, <1>15, <1>18, <1>19

\* No offset is beyond the end of a file that is not packed, and none need be.
LEMMA ClampedCovers ==
  ASSUME TypeOK, NEW q \in OnDisk, NEW off \in Nat, Within(World.at[q], off, Seen)
  PROVE  Within(World.at[q], Clamped(q, off), Seen)
<1> DEFINE c == World.at[q]
<1>1. c \in Content /\ c = At(q) /\ c.from \in Nat /\ c.size \in Nat
  <2>1. q \in Paths /\ dir[q] # NoInode /\ At(q) \in Content
    BY Files DEF OnDisk
  <2> QED BY <2>1, ThisWorld, ContentIs
<1> HIDE DEF c
<1> SUFFICES ASSUME NEW l \in SeenOf(c, Seen) PROVE l <= c.from + Clamped(q, off)
  BY DEF Within, c
<1>2. l \in Line /\ l <= c.from + c.size /\ l \in Nat
  <2>1. l \in Line /\ l <= c.from + c.size
    BY <1>1, LinesAre DEF SeenOf
  <2> QED BY <2>1, Constants DEF Lines0
<1>3. l <= c.from + off
  BY DEF Within, c
<1>4. Clamped(q, off) \in {off, c.size}
  BY <1>1 DEF Clamped, Lesser
<1> QED BY <1>1, <1>2, <1>3, <1>4

\* A file that has a row of its inode that is about it, and that covers what has been
\* counted, is read on from there.
LEMMA OwnOffset ==
  ASSUME ResumeInv, CoverInv, Untroubled, NEW q \in OnDisk, SeenAt(World, q, Seen),
         NeedsPlan(q), ~MetadataExactMatch(q), Primary(q) # NoRow,
         Note(Primary(q)).inode = World.inode[q], Note(Primary(q)).head = HeadAt(World, q),
         Covers(World, Note(Primary(q)), q, Seen)
  PROVE  Within(World.at[q], ResumeOffset(q), Seen)
<1> DEFINE w == World
           b == Primary(q)
           n == Note(b)
<1>1. TypeOK /\ Book(w, Current, Former, Seen) /\ HeadSize = 1
  BY CoverParts DEF ResumeInv, Untroubled
<1>2. /\ q \in Paths /\ At(q) \in Content /\ At(q).size \in Nat /\ At(q).from \in Nat
      /\ w \in WorldType /\ w.inode = dir /\ On(w, q) /\ w.at[q] = At(q) /\ HeadAt(w, q) = HeadOf(At(q))
  <2>1. q \in Paths /\ dir[q] # NoInode /\ At(q) \in Content
    BY <1>1, Files DEF OnDisk
  <2> QED BY <1>1, <2>1, ThisWorld, ContentIs DEF HeadAt
<1>3. b \in Row /\ n \in NoteType /\ n \in Current \cup Former
  BY <1>1, PrimaryIs
<1>4. /\ n.path = b.path /\ n.inode = b.inode /\ n.head = b.uhead /\ n.chead = b.chead /\ n.upto = b.uoff
      /\ n.mtime = b.mtime /\ n.done = b.completed /\ n.size \in Nat /\ n.upto \in Nat
  BY <1>3, NoteOf, NoteIs
<1>5. n.size = PreviousSize(q, b) /\ (IsCompressed(q) <=> IsCompressed(b.path)) /\ b.path \in Paths
  <2>1. b.path # q => q = Rotated /\ b.path = Live
    BY PrimaryPath
  <2>2. n.size = PreviousSize(b.path, b)
    BY <1>3, NoteOf DEF PreviousSize, IsCompressed
  <2> QED BY <1>2, <2>1, <2>2, ThreePaths DEF PreviousSize, IsCompressed
<1>6. PICK l \in SeenOf(w.at[q], Seen) : TRUE
  BY DEF SeenAt
<1>7. l \in Nat /\ At(q).from < l /\ l <= At(q).from + At(q).size /\ l <= At(q).from + n.upto
  <2>1. l \in Line /\ At(q).from < l /\ l <= At(q).from + At(q).size
    BY <1>2, LinesAre DEF SeenOf
  <2>2. l <= At(q).from + n.upto
    BY <1>2, <1>6 DEF Covers, Within
  <2> QED BY <2>1, <2>2, Constants DEF Lines0
<1>8. At(q).size > 0 /\ n.upto > 0
  BY <1>2, <1>4, <1>7
<1>9. HeadOf(At(q)) # NoHead /\ n.head # NoHead
  BY <1>1, <1>2, <1>8, HeadIs
<1>10. /\ WellMade(w, n) /\ Sized(w, n, q)
  BY <1>1, <1>2, <1>3, BookParts
<1>11. n.size > 0 /\ n.size <= At(q).size /\ (n.size = At(q).size => n.mtime = At(q).mtime)
  BY <1>2, <1>9, <1>10 DEF WellMade, Sized
<1>12. /\ ~IsCompressed(q) => ComputeFingerprints(q).uhead = HeadOf(At(q))
       /\ IsCompressed(q) => n.chead = HeadOf(At(q))
  BY <1>2, <1>4, <1>5, <1>10 DEF ComputeFingerprints, WellMade
<1> HIDE DEF w, b, n
<1>13. IsExtended(q)
  <2>1. CASE n.size < At(q).size
    <3>1. ~IsCompressed(q) => SameHead(q)
      <4> SUFFICES ASSUME ~IsCompressed(q) PROVE SameHead(q)
        OBVIOUS
      <4>1. b.uhead = ComputeFingerprints(q).uhead /\ b.uhead # NoHead
        BY <1>2, <1>4, <1>9, <1>12 DEF n, w, b
      <4> QED BY <4>1 DEF SameHead, b
    <3>2. b.inode = dir[q]
      BY <1>2, <1>4 DEF n, b, w
    <3>3. Grew(q)
      BY <1>2, <1>4, <1>5, <1>11, <2>1, <3>1, <3>2 DEF Grew, b
    <3> QED BY <3>3 DEF IsExtended
  <2>2. CASE n.size = At(q).size /\ b.completed
    <3>1. CASE IsCompressed(q)
      <4>1. CompressedMatch(q)
        BY <1>2, <1>4, <1>5, <1>11, <1>12, <2>2, <3>1 DEF CompressedMatch, PreviousSize, b, n, w
      <4> QED BY <4>1 DEF NeedsPlan
    <3>2. CASE ~IsCompressed(q)
      <4>1. b.usize = At(q).size
        BY <1>5, <2>2, <3>2 DEF PreviousSize
      <4>2. b.uhead = ComputeFingerprints(q).uhead /\ b.mtime = At(q).mtime
        BY <1>2, <1>4, <1>11, <1>12, <2>2, <3>2 DEF n, b, w
      <4>3. IsSameFile(q)
        BY <2>2, <3>2, <4>1, <4>2 DEF IsSameFile, b
      <4> QED BY <4>3 DEF NeedsPlan
    <3> QED BY <3>1, <3>2
  <2>3. CASE n.size = At(q).size /\ ~b.completed
    <3>1. b.inode = dir[q] /\ b.uoff > 0
      BY <1>2, <1>4, <1>8 DEF n, b, w
    <3>2. IF IsCompressed(q) THEN At(q).size = b.csize ELSE At(q).size = b.usize
      BY <1>5, <2>3 DEF PreviousSize
    <3>3. InProgress(q)
      BY <1>2, <2>3, <3>1, <3>2 DEF InProgress, b
    <3> QED BY <3>3 DEF IsExtended
  <2> QED BY <1>2, <1>4, <1>11, <2>1, <2>2, <2>3
<1>14. ResumeOffset(q) = Clamped(q, b.uoff)
  BY <1>13 DEF ResumeOffset, b
<1>15. Within(w.at[q], b.uoff, Seen) /\ b.uoff \in Nat
  BY <1>4 DEF Covers, n, b, w
<1> QED BY <1>1, <1>14, <1>15, ClampedCovers DEF w

\* A file without a row is read on from where the best of the rows with its head ends.
LEMMA FoundOffset ==
  ASSUME ResumeInv, CoverInv, Untroubled, NEW q \in OnDisk, SeenAt(World, q, Seen), Primary(q) = NoRow,
         Alone(World, q, Current, Former, Seen) \/ (q = Packed /\ ReadRotated(World, Current, Former, Seen))
  PROVE  Within(World.at[q], ResumeOffset(q), Seen)
<1> DEFINE w == World
           h == HeadAt(w, q)
           H == {r \in KnownRows : r.uhead = h}
           b == BestByUncompressed(H)
<1>1. TypeOK /\ Book(w, Current, Former, Seen) /\ HeadSize = 1 /\ Tidy(w)
  BY CoverParts DEF ResumeInv, Untroubled
<1>2. /\ q \in Paths /\ At(q) \in Content /\ At(q).size \in Nat /\ At(q).from \in Nat
      /\ w \in WorldType /\ w.inode = dir /\ On(w, q) /\ w.at[q] = At(q) /\ h = HeadOf(At(q)) /\ dir[q] # NoInode
  <2>1. q \in Paths /\ dir[q] # NoInode /\ At(q) \in Content
    BY <1>1, Files DEF OnDisk
  <2> QED BY <1>1, <2>1, ThisWorld, ContentIs DEF HeadAt
<1>3. /\ \A x \in KnownRows : x \in Row /\ Note(x) \in Current \cup Former /\ Note(x) \in NoteType
                              /\ Note(x).head = x.uhead /\ Note(x).chead = x.chead /\ Note(x).upto = x.uoff
                              /\ Note(x).path = x.path /\ Note(x).done = x.completed
      /\ \A m \in Current \cup Former : \E x \in KnownRows : m = Note(x)
  BY <1>1, TableNotes, NoteOf DEF KnownRows
<1>4. ByPath(q) = NoRow /\ ByInode(q) = NoRow /\ \A m \in Current \cup Former : m.inode # w.inode[q]
  BY <1>1, PrimaryIs
<1>5. h # NoHead
  <2>1. PICK l \in SeenOf(w.at[q], Seen) : TRUE
    BY DEF SeenAt
  <2>2. l \in Line /\ At(q).from < l /\ l <= At(q).from + At(q).size
    BY <1>2, LinesAre DEF SeenOf
  <2>3. l \in Nat
    BY <2>2, Constants DEF Lines0
  <2>4. At(q).size # 0
    BY <1>2, <2>2, <2>3
  <2> QED BY <1>1, <1>2, <2>4, HeadIs
<1>6. ComputeFingerprints(q).uhead = h
  <2>1. Primary(q).inode = NoInode
    <3>1. Primary(q) \in OptRow
      BY <1>1, FoundRows
    <3> QED BY <3>1, RowFields
  <2>2. ~(IsCompressed(q) /\ dir[q] = Primary(q).inode)
    BY <1>2, <2>1
  <2> QED BY <1>2, <2>2 DEF ComputeFingerprints
<1>7. {r \in KnownRows : IsCompressed(q) /\ r.chead = ComputeFingerprints(q).chead} = {}
  <2> SUFFICES ASSUME IsCompressed(q), NEW r \in KnownRows, r.chead = ComputeFingerprints(q).chead PROVE FALSE
    OBVIOUS
  <2>1. q = Packed /\ r.chead = h
    BY <1>2 DEF IsCompressed, ComputeFingerprints
  <2>2. Note(r).path = Packed /\ Note(r).head = h
    BY <1>1, <1>3, <1>5, <2>1, BookParts DEF WellMade, IsCompressed
  <2>3. Note(r).inode = w.inode[Packed]
    BY <1>1, <1>2, <1>3, <2>1, <2>2, BookParts DEF PackedRows
  <2> QED BY <1>3, <1>4, <2>1, <2>3
<1>8. FindHeadMatch(q) = b
  <2>1. {r \in KnownRows : ComputeFingerprints(q).uhead # NoHead /\ r.uhead = ComputeFingerprints(q).uhead} = H
    BY <1>5, <1>6
  <2> HIDE DEF H
  <2> QED BY <1>7, <2>1 DEF FindHeadMatch
<1>9. ResumeOffset(q) = Clamped(q, b.uoff)
  BY <1>4, <1>8 DEF ResumeOffset, HeadMatch
<1>10. \E m \in Current \cup Former : m.head = h
  BY DEF Alone, ReadRotated
<1>11. H \in SUBSET Row /\ H # {}
  BY <1>3, <1>10
<1>12. /\ b \in H
       /\ \A s \in H : \/ b.completed /\ ~s.completed
                       \/ b.completed = s.completed /\ b.uoff >= s.uoff
  <2> HIDE DEF H
  <2> QED BY <1>11, BestExists
<1>13. /\ b \in KnownRows /\ Note(b) \in Current \cup Former /\ Note(b).head = h
       /\ Note(b).upto = b.uoff /\ b.uoff \in Nat
  BY <1>3, <1>12, NoteIs
<1>14. Within(w.at[q], b.uoff, Seen)
  <2>1. CASE Alone(w, q, Current, Former, Seen)
    <3>1. Covers(w, Note(b), q, Seen)
      BY <1>13, <2>1 DEF Alone
    <3> QED BY <1>13, <3>1 DEF Covers
  <2>2. CASE q = Packed /\ ReadRotated(w, Current, Former, Seen)
    <3>1. PICK m \in Current \cup Former : m.head = h /\ m.done /\ Covers(w, m, Packed, Seen)
      BY <2>2 DEF ReadRotated
    <3>2. PICK x \in KnownRows : m = Note(x)
      BY <1>3
    <3>3. x \in H /\ x.completed /\ x.uoff = m.upto /\ x.uoff \in Nat
      BY <1>3, <3>1, <3>2, NoteIs
    <3>4. b.uoff >= x.uoff
      BY <1>12, <3>3
    <3> SUFFICES ASSUME NEW l \in SeenOf(w.at[q], Seen) PROVE l <= w.at[q].from + b.uoff
      BY DEF Within
    <3>5. l <= w.at[q].from + x.uoff /\ l \in Line
      BY <2>2, <3>1, <3>3 DEF Covers, Within, SeenOf, AllLines, LinesOf
    <3>6. l \in Nat
      BY <3>5, Constants DEF Lines0
    <3> QED BY <1>2, <1>13, <3>3, <3>4, <3>5, <3>6
  <2> QED BY <2>1, <2>2
<1> HIDE DEF b
<1> QED BY <1>1, <1>9, <1>13, <1>14, ClampedCovers

\* A plan describes the file it is for.
LEMMA PlanNote ==
  ASSUME ResumeInv, CoverInv, Untroubled, NEW q \in OnDisk
  PROVE  LET plan == PlanOf(q)
         IN /\ plan \in Row /\ plan.path = q /\ plan.inode = dir[q] /\ plan.uoff = ResumeOffset(q)
            /\ plan.uhead = HeadAt(World, q) /\ About(World, Note(plan), World.at[q])
<1> DEFINE w == World
           c == At(q)
           b == Primary(q)
           plan == PlanOf(q)
           m == Note(plan)
<1>1. /\ TypeOK /\ Tidy(w) /\ Book(w, Current, Former, Seen) /\ HeadSize = 1 /\ Globs \subseteq {Paths, {Packed}}
  BY CoverParts DEF ResumeInv, Untroubled
<1>2. /\ q \in Paths /\ q \in glob /\ dir[q] # NoInode /\ c \in Content /\ c.size \in Nat /\ c.from \in Nat
      /\ w \in WorldType /\ w.inode = dir /\ w.only = (glob = {Packed})
      /\ On(w, q) /\ w.at[q] = c /\ HeadAt(w, q) = HeadOf(c)
  <2>1. q \in Paths /\ q \in glob /\ dir[q] # NoInode /\ c \in Content
    BY <1>1, Files DEF OnDisk
  <2> QED BY <1>1, <2>1, ThisWorld, ContentIs DEF HeadAt
<1>3. plan \in Row /\ plan.path = q /\ plan.inode = dir[q]
  BY <1>1, PlanIsRow DEF IsAbout
<1>4. /\ plan.uoff = ResumeOffset(q) /\ plan.chead = ComputeFingerprints(q).chead
      /\ plan.uhead = ComputeFingerprints(q).uhead /\ plan.mtime = c.mtime
      /\ IsCompressed(q) => plan.csize = c.size
      /\ plan.usize = ComputeFingerprints(q).usize
  BY DEF PlanOf, NoRow
<1>5. ComputeFingerprints(q).uhead = HeadOf(c)
  <2>1. CASE ~(IsCompressed(q) /\ dir[q] = b.inode)
    BY <2>1 DEF ComputeFingerprints
  <2>2. CASE IsCompressed(q) /\ dir[q] = b.inode
    <3>1. ComputeFingerprints(q).uhead = b.uhead /\ q = Packed
      BY <2>2 DEF ComputeFingerprints, IsCompressed
    <3>2. b \in Row
      BY <1>1, <1>2, <2>2, FoundRows, RowFields
    <3>3. b # NoRow
      BY <3>2, RowFields DEF OptRow
    <3>4. Note(b) \in Current \cup Former /\ Note(b).inode = w.inode[Packed] /\ Note(b).head = b.uhead
      BY <1>1, <1>2, <2>2, <3>1, <3>2, <3>3, PrimaryIs, NoteOf
    <3>5. Note(b).head = HeadAt(w, Packed)
      BY <1>1, <1>2, <3>1, <3>4, BookParts DEF PackedRows
    <3> QED BY <1>2, <3>1, <3>4, <3>5
  <2> QED BY <2>1, <2>2
<1>6. /\ ~IsCompressed(q) => ComputeFingerprints(q).chead = NoHead /\ ComputeFingerprints(q).usize = c.size
      /\ IsCompressed(q) => ComputeFingerprints(q).chead = HeadOf(c)
  BY DEF ComputeFingerprints
<1>7. /\ m \in NoteType /\ m.path = q /\ m.inode = dir[q] /\ m.head = HeadOf(c) /\ m.mtime = c.mtime
      /\ m.size = c.size /\ m.upto = ResumeOffset(q) /\ m.upto \in Nat
      /\ m.chead = IF IsCompressed(q) THEN HeadOf(c) ELSE NoHead
  BY <1>3, <1>4, <1>5, <1>6, NoteOf, NoteIs DEF IsCompressed
<1>8. ASSUME c.size = 0 PROVE q = Live /\ ResumeOffset(q) = 0
  <2>1. q = Live
    BY <1>1, <1>2, <1>8, ThreePaths DEF Tidy
  <2>2. \A off \in Nat : Clamped(q, off) = 0
    BY <1>8, <2>1, ThreePaths DEF Clamped, Lesser, IsCompressed
  <2>3. b.uoff \in Nat /\ HeadMatch(q).uoff \in Nat
    BY <1>1, FoundRows, RowFields, Constants
  <2> QED BY <2>1, <2>2, <2>3 DEF ResumeOffset
<1>9. ASSUME c.size # 0
      PROVE  HeadOf(c) # NoHead /\ HeadOf(c)[2] = 1 /\ HeadOf(c)[1] < w.end /\ (q = Packed => HeadOf(c)[1] < Edge(w))
  <2>1. HeadOf(c) = <<c.from, 1>> /\ HeadOf(c) # NoHead
    BY <1>1, <1>2, <1>9, HeadIs
  <2>2. /\ EndAt(w, Live) = w.end
        /\ On(w, Rotated) => EndAt(w, Rotated) = w.at[Live].from
        /\ On(w, Packed) => EndAt(w, Packed) = Edge(w)
    BY <1>1 DEF Tidy
  <2>3. /\ w.end \in Nat
        /\ \A p \in Paths : /\ w.at[p].from \in Nat /\ w.at[p].size \in Nat /\ EndAt(w, p) = w.at[p].from + w.at[p].size
    BY <1>2, WorldIs
  <2>4. c.from < EndAt(w, q)
    BY <1>2, <1>9, <2>3
  <2>5. EndAt(w, q) <= w.end
    BY <1>2, <2>2, <2>3, ThreePaths DEF Edge
  <2> HIDE DEF w, c
  <2>6. c.from < w.end /\ (q = Packed => c.from < Edge(w))
    BY <1>2, <2>2, <2>3, <2>4, <2>5
  <2> QED BY <2>1, <2>6
<1>10. w.only => q = Packed
  BY <1>2
<1> HIDE DEF w, c, m
<1>11. HeadOf(c) = NoHead => c.size = 0
  BY <1>9
<1>12. WellMade(w, m)
  <2>1. m.chead = IF IsCompressed(m.path) THEN m.head ELSE NoHead
    BY <1>7
  <2>2. m.head = NoHead => m.path = Live /\ m.size = 0 /\ m.upto = 0
    BY <1>7, <1>8, <1>11
  <2>3. m.head # NoHead => m.size > 0 /\ m.head[2] = 1 /\ m.head[1] < w.end
    <3>1. c.size = 0 => HeadOf(c) = NoHead
      BY <1>1, <1>2, HeadIs
    <3> QED BY <1>2, <1>7, <1>9, <3>1
  <2>4. w.only => m.path = Packed /\ m.head[1] < Edge(w)
    BY <1>7, <1>8, <1>9, <1>10, ThreePaths
  <2> QED BY <1>2, <1>7, <2>1, <2>2, <2>3, <2>4 DEF WellMade
<1>13. About(w, m, c)
  BY <1>2, <1>7, <1>12 DEF About
<1> QED BY <1>2, <1>3, <1>4, <1>5, <1>13 DEF w, c, m

\* Where a file is read on nothing that has been counted is left.
LEMMA PlanCovers ==
  ASSUME ResumeInv, CoverInv, Untroubled, NEW q \in OnDisk, NeedsPlan(q), ~MetadataExactMatch(q)
  PROVE  Within(World.at[q], ResumeOffset(q), Seen)
<1> DEFINE w == World
           b == Primary(q)
           n == Note(b)
<1>1. /\ TypeOK /\ Tidy(w) /\ Book(w, Current, Former, Seen) /\ HeadSize = 1
  BY CoverParts DEF ResumeInv, Untroubled
<1>2. q \in Paths /\ On(w, q) /\ w.inode[q] = dir[q]
  <2>1. q \in Paths /\ dir[q] # NoInode
    BY <1>1, Files DEF OnDisk
  <2> QED BY <1>1, <2>1, ThisWorld
<1>3. CASE ~SeenAt(w, q, Seen)
  BY <1>2, <1>3 DEF SeenAt, Within
<1>4. /\ b = NoRow => /\ \A x \in Current : x.path # q
                      /\ \A x \in Current \cup Former : x.inode # w.inode[q]
      /\ b # NoRow =>
           /\ n \in Current \cup Former
           /\ \/ n.inode = w.inode[q] /\ (n \in Current \/ \A x \in Current : x.inode # w.inode[q])
              \/ /\ n.path = q /\ n.inode # w.inode[q] /\ n \in Current
                 /\ \A x \in Current \cup Former : x.inode # w.inode[q]
  BY <1>1, PrimaryIs
<1>5. ASSUME SeenAt(w, q, Seen), b # NoRow, n.inode = w.inode[q], n.head = HeadAt(w, q), Covers(w, n, q, Seen)
      PROVE  Within(w.at[q], ResumeOffset(q), Seen)
  BY <1>5, OwnOffset
<1>6. ASSUME SeenAt(w, q, Seen), b = NoRow,
             Alone(w, q, Current, Former, Seen) \/ (q = Packed /\ ReadRotated(w, Current, Former, Seen))
      PROVE  Within(w.at[q], ResumeOffset(q), Seen)
  BY <1>6, FoundOffset
<1> HIDE DEF w, b, n
<1>7. CASE SeenAt(w, q, Seen) /\ OwnCovers(w, q, Current, Seen)
  <2>1. PICK x \in Current : x.inode = w.inode[q]
    BY <1>7 DEF OwnCovers, HasOwn
  <2>2. b # NoRow /\ n.inode = w.inode[q] /\ n \in Current
    BY <1>4, <2>1
  <2>3. n.head = HeadAt(w, q) /\ Covers(w, n, q, Seen)
    BY <1>7, <2>2 DEF OwnCovers
  <2> QED BY <1>5, <1>7, <2>2, <2>3 DEF w
<1>8. CASE SeenAt(w, q, Seen) /\ ~OwnCovers(w, q, Current, Seen)
  <2>1. CASE q = Live
    BY <1>1, <1>8, <2>1, BookParts DEF CoveredLive
  <2>2. CASE q = Rotated
    <3>1. /\ ~HasOwn(w, Rotated, Current)
          /\ \A x \in Current : x.path # Rotated
          /\ \A x \in Former : x.inode = w.inode[Rotated] => x.head = HeadAt(w, Rotated)
          /\ Alone(w, Rotated, Current, Former, Seen)
      BY <1>1, <1>8, <2>2, BookParts DEF CoveredRotated
    <3>2. CASE b = NoRow
      BY <1>6, <1>8, <2>2, <3>1, <3>2 DEF w
    <3>3. CASE b # NoRow
      <4>1. n \in Former /\ n.inode = w.inode[Rotated] /\ n.head = HeadAt(w, Rotated)
        BY <1>4, <2>2, <3>1, <3>3 DEF HasOwn
      <4>2. Covers(w, n, Rotated, Seen)
        BY <3>1, <4>1 DEF Alone
      <4> QED BY <1>5, <1>8, <2>2, <3>3, <4>1, <4>2 DEF w
    <3> QED BY <3>2, <3>3
  <2>3. CASE q = Packed
    <3>1. /\ ~HasOwn(w, Packed, Current)
          /\ \A x \in Current : x.path # Packed
          /\ ReadRotated(w, Current, Former, Seen) \/ Alone(w, Packed, Current, Former, Seen)
      BY <1>1, <1>8, <2>3, BookParts DEF CoveredPacked
    <3>2. \A x \in Current \cup Former : x.inode = w.inode[Packed] => x \notin Former
      BY <1>1, <1>2, <2>3, BookParts DEF PackedRows
    <3>3. b = NoRow
      BY <1>4, <2>3, <3>1, <3>2 DEF HasOwn
    <3> QED BY <1>6, <1>8, <2>3, <3>1, <3>3 DEF w
  <2> QED BY <1>2, <2>1, <2>2, <2>3, ThreePaths
<1> QED BY <1>3, <1>7, <1>8 DEF w

\* The files S in order: all of them.
LEMMA WorkIs ==
  ASSUME NEW S \in SUBSET Paths, NEW s \in InOrder(S)
  PROVE  /\ s \in Seq(S) /\ DOMAIN s = 1..Len(s) /\ Len(s) \in Nat
         /\ \A k \in DOMAIN s : s[k] \in S
         /\ \A p \in S : \E k \in DOMAIN s : s[k] = p
         /\ \A j, k \in DOMAIN s : j < k => Precedes(s[j], s[k])
         /\ S = {} => s = <<>>
         /\ \A p : S = {p} => s = <<p>>
<1> DEFINE n == Cardinality(S)
           D == 1..n
<1>1. n \in Nat /\ IsFiniteSet(S) /\ IsFiniteSet(D) /\ Cardinality(D) = n
  <2>1. n \in Nat /\ IsFiniteSet(S)
    BY PathsFinite
  <2>2. 1 \in Int /\ n \in Int /\ IsFiniteSet(1..n) /\ Cardinality(1..n) = IF 1 > n THEN 0 ELSE n - 1 + 1
    BY <2>1, FS_Interval
  <2> QED BY <2>1, <2>2
<1>2. /\ s \in [D -> S] /\ \A i, j \in D : i # j => s[i] # s[j]
      /\ \A i, j \in DOMAIN s : i < j => Precedes(s[i], s[j])
  <2>1. s \in SetToSeqs(S) /\ \A i, j \in DOMAIN s : i < j => Precedes(s[i], s[j])
    BY DEF InOrder
  <2> QED BY <2>1 DEF SetToSeqs
<1>3. s \in Seq(S) /\ DOMAIN s = D /\ Len(s) = n
  BY <1>1, <1>2
<1>4. s \in Injection(D, S)
  BY <1>2 DEF Injection, IsInjective
<1> HIDE DEF D
<1>5. s \in Surjection(D, S)
  BY <1>1, <1>4, FS_Injection
<1>6. \A p \in S : \E k \in D : s[k] = p
  BY <1>5 DEF Surjection
<1>7. ASSUME S = {} PROVE s = <<>>
  <2>1. n = 0
    BY <1>7, FS_EmptySet
  <2> QED BY <1>3, <2>1
<1>8. ASSUME NEW p, S = {p} PROVE s = <<p>>
  <2>1. n = 1
    BY <1>8, FS_Singleton
  <2>2. s[1] = p
    BY <1>2, <1>8, <2>1 DEF D
  <2> QED BY <1>3, <2>1, <2>2
<1> QED BY <1>1, <1>2, <1>3, <1>6, <1>7, <1>8 DEF D

\* At most the rotated file is skipped and stored.
LEMMA RunStores ==
  ASSUME ResumeInv, CoverInv, Untroubled, StartRun
  PROVE  \/ pending' = <<>> /\ (Rotated \in LookedUp => SkippedUpdate(Rotated) = {})
         \/ Rotated \in LookedUp /\ \E r \in SkippedUpdate(Rotated) : pending' = <<r>>
<1> DEFINE updated(S) == {p \in S : SkippedUpdate(p) # {}}
           rows(paths) == [k \in DOMAIN paths |-> TheOnly(SkippedUpdate(paths[k]))]
           Early == updated(OnDisk \ Pending)
           Late == updated(Resolved)
<1>1. TypeOK
  BY DEF ResumeInv
<1>2. PICK early \in InOrder(Early), late \in InOrder(Late) : pending' = rows(early) \o rows(late)
  BY DEF StartRun
<1>3. /\ LookedUp \subseteq OnDisk /\ OnDisk \subseteq Paths
      /\ LookedUp = (OnDisk \ Pending) \cup Resolved /\ (OnDisk \ Pending) \cap Resolved = {}
  BY <1>1, Files DEF LookedUp, Resolved, Pending, OrderSkip
<1>4. \A p \in OnDisk : SkippedUpdate(p) # {} => p = Rotated
  BY UpdateFits
<1>5. /\ Early \in SUBSET {Rotated} /\ Late \in SUBSET {Rotated} /\ Early \in SUBSET Paths /\ Late \in SUBSET Paths
      /\ Early \cap Late = {}
      /\ Early \cup Late = IF Rotated \in LookedUp /\ SkippedUpdate(Rotated) # {} THEN {Rotated} ELSE {}
  BY <1>3, <1>4
<1> HIDE DEF Early, Late
<1>6. /\ Early = {} => early = <<>>
      /\ Late = {} => late = <<>>
      /\ Early = {Rotated} => early = <<Rotated>>
      /\ Late = {Rotated} => late = <<Rotated>>
  BY <1>2, <1>5, WorkIs
<1>7. rows(<<>>) = <<>>
  OBVIOUS
<1>8. rows(<<Rotated>>) = <<TheOnly(SkippedUpdate(Rotated))>>
  OBVIOUS
<1> HIDE DEF rows
<1>9. CASE Rotated \in LookedUp /\ SkippedUpdate(Rotated) # {}
  <2>1. (Early = {Rotated} /\ Late = {}) \/ (Early = {} /\ Late = {Rotated})
    BY <1>5, <1>9
  <2>2. pending' = <<TheOnly(SkippedUpdate(Rotated))>>
    <3>1. \A x : <<>> \o <<x>> = <<x>> /\ <<x>> \o <<>> = <<x>>
      OBVIOUS
    <3> QED BY <1>2, <1>6, <1>7, <1>8, <2>1, <3>1
  <2> QED BY <1>9, <2>2, TheOnlyIs
<1>10. CASE ~(Rotated \in LookedUp /\ SkippedUpdate(Rotated) # {})
  <2>1. Early = {} /\ Late = {}
    BY <1>5, <1>10
  <2>2. <<>> \o <<>> = <<>>
    OBVIOUS
  <2> QED BY <1>2, <1>6, <1>7, <1>10, <2>1, <2>2
<1> QED BY <1>9, <1>10

\* What a run plans.
LEMMA RunPlans ==
  ASSUME ResumeInv, CoverInv, Untroubled, StartRun
  PROVE  \E work : /\ DOMAIN todo' = DOMAIN work
                   /\ \A k \in DOMAIN work :
                        /\ todo'[k] = PlanOf(work[k]) /\ work[k] \in Resolved /\ NeedsPlan(work[k])
                        /\ work[k] \in LookedUp /\ work[k] \in OnDisk /\ ~MetadataExactMatch(work[k])
                   /\ \A p \in Resolved : NeedsPlan(p) => \E k \in DOMAIN work : work[k] = p
                   /\ \A j, k \in DOMAIN work : j < k => Precedes(work[j], work[k])
                   /\ \A j, k \in DOMAIN work : j < k \/ j = k \/ k < j
<1> DEFINE Work == {p \in Resolved : NeedsPlan(p)}
<1>1. PICK work \in InOrder(Work) : todo' = [k \in DOMAIN work |-> PlanOf(work[k])]
  BY DEF StartRun
<1>2. Work \in SUBSET Paths
  BY Files DEF ResumeInv, Resolved, Pending
<1>3. \A p \in Work : /\ p \in Resolved /\ NeedsPlan(p) /\ p \in LookedUp /\ p \in OnDisk
                      /\ ~MetadataExactMatch(p)
  BY DEF Resolved, Pending, LookedUp, OrderSkip
<1>4. \A p \in Resolved : NeedsPlan(p) => p \in Work
  OBVIOUS
<1> HIDE DEF Work
<1>5. /\ DOMAIN work = 1..Len(work) /\ Len(work) \in Nat
      /\ \A k \in DOMAIN work : work[k] \in Work
      /\ \A p \in Work : \E k \in DOMAIN work : work[k] = p
      /\ \A j, k \in DOMAIN work : j < k => Precedes(work[j], work[k])
  BY <1>1, <1>2, WorkIs
<1>6. \A j, k \in DOMAIN work : j < k \/ j = k \/ k < j
  BY <1>5
<1>7. DOMAIN todo' = DOMAIN work /\ \A k \in DOMAIN work : todo'[k] = PlanOf(work[k])
  BY <1>1
<1>8. /\ DOMAIN todo' = DOMAIN work
      /\ \A k \in DOMAIN work :
           /\ todo'[k] = PlanOf(work[k]) /\ work[k] \in Resolved /\ NeedsPlan(work[k])
           /\ work[k] \in LookedUp /\ work[k] \in OnDisk /\ ~MetadataExactMatch(work[k])
      /\ \A p \in Resolved : NeedsPlan(p) => \E k \in DOMAIN work : work[k] = p
      /\ \A j, k \in DOMAIN work : j < k => Precedes(work[j], work[k])
      /\ \A j, k \in DOMAIN work : j < k \/ j = k \/ k < j
  BY <1>3, <1>4, <1>5, <1>6, <1>7
<1> QED BY <1>8

\* The tables as the first commit of a run would leave them.
LEMMA RunTables ==
  ASSUME ResumeInv, CoverInv, Untroubled, StartRun
  PROVE  /\ NextFormer' = Formerly /\ SeenNext' = Seen
         /\ \/ NextCurrent' = Remaining /\ pending' = <<>> /\ (Rotated \in LookedUp => SkippedUpdate(Rotated) = {})
            \/ /\ Rotated \in LookedUp /\ \E r \in SkippedUpdate(Rotated) : pending' = <<r>>
               /\ \A r \in SkippedUpdate(Rotated) : NextCurrent' = Stored(Remaining, Note(r))
<1>1. /\ TypeOK /\ active = NoFile /\ active' = NoFile /\ acc = NoCount /\ acc' = acc /\ count' = count
      /\ archive' = archive /\ targets' = targets
  <2>1. TypeOK /\ active = NoFile /\ acc = NoCount
    BY CoverParts DEF ResumeInv, Idle, StartRun, Done
  <2> QED BY <2>1 DEF StartRun, dbVars
<1>2. SeenNext' = Seen
  <2>1. \A l : BeforeTarget(l)' = BeforeTarget(l)
    BY <1>1 DEF BeforeTarget
  <2>2. \A l \in Line : count'[l] + acc'[l] = count[l]
    BY <1>1 DEF TypeOK, NoCount
  <2> QED BY <2>1, <2>2 DEF SeenNext, Seen
<1>3. NextFormer' = Formerly
  <2>1. Former' = Former /\ Notes(retired)' = Notes(retired')
    BY <1>1 DEF Former
  <2> QED BY <2>1 DEF NextFormer, Formerly, Filed
<1>4. Notes(Unretired)' = Remaining
  BY RunRetires
<1>5. Storing' = Notes(Range(pending'))
  BY <1>1 DEF Storing
<1>6. CASE pending' = <<>> /\ (Rotated \in LookedUp => SkippedUpdate(Rotated) = {})
  <2>1. Range(pending') = {}
    BY <1>6 DEF Range
  <2>2. Storing' = {}
    BY <1>5, <2>1 DEF Notes
  <2>3. NextCurrent' = Remaining
    BY <1>4, <2>2 DEF NextCurrent
  <2> QED BY <1>2, <1>3, <1>6, <2>3
<1>7. ASSUME Rotated \in LookedUp, NEW r \in SkippedUpdate(Rotated), pending' = <<r>>
      PROVE  \A x \in SkippedUpdate(Rotated) : NextCurrent' = Stored(Remaining, Note(x))
  <2>1. Range(pending') = {r}
    BY <1>7 DEF Range
  <2>2. Storing' = {Note(r)}
    BY <1>5, <2>1 DEF Notes
  <2>3. SkippedUpdate(Rotated) = {r}
    BY <1>7, UpdateFits DEF LookedUp
  <2>4. NextCurrent' = Stored(Remaining, Note(r))
    BY <1>4, <2>2 DEF NextCurrent, Stored
  <2> QED BY <2>3, <2>4
<1> QED BY <1>2, <1>3, <1>6, <1>7, RunStores

LEMMA RunBooks ==
  ASSUME ResumeInv, CoverInv, Untroubled, StartRun
  PROVE  /\ Book(World, NextCurrent', NextFormer', SeenNext')
         /\ \A p \in LookedUp : \A n \in NextCurrent' :
              n.path = p => n.inode = World.inode[p] /\ n.head \in {HeadAt(World, p), NoHead}
         /\ \A n \in Remaining : n.inode = World.inode[n.path] => HasOwn(World, n.path, NextCurrent')
         /\ Rotated \in LookedUp /\ SkippedUpdate(Rotated) # {} => HasOwn(World, Rotated, NextCurrent')
         /\ Settled(World, Packed, Current, Former, Seen) => Settled(World, Packed, NextCurrent', NextFormer', Seen)
<1> DEFINE w == World
<1>1. /\ Remaining \in SUBSET NoteType /\ Formerly \in SUBSET NoteType
      /\ Book(w, Remaining, Formerly, Seen)
      /\ Settled(w, Packed, Current, Former, Seen) => Settled(w, Packed, Remaining, Formerly, Seen)
      /\ \A p \in LookedUp : \A n \in Remaining :
           /\ n.inode = w.inode[p] => n.path = p
           /\ n.path = p => n.inode = w.inode[p] /\ n.head \in {HeadAt(w, p), NoHead}
  BY RunRetires
<1>2. NextFormer' = Formerly /\ SeenNext' = Seen
  BY RunTables
<1>3. /\ Tidy(w) /\ w \in WorldType /\ Seen \in SUBSET Line /\ HeadSize = 1
  BY CoverParts, ThisWorld, TablesTyped DEF ResumeInv, Untroubled
<1> HIDE DEF w
<1>4. CASE NextCurrent' = Remaining /\ (Rotated \in LookedUp => SkippedUpdate(Rotated) = {})
  BY <1>1, <1>2, <1>4 DEF HasOwn, w
<1>5. CASE /\ Rotated \in LookedUp /\ \E r \in SkippedUpdate(Rotated) : pending' = <<r>>
           /\ \A r \in SkippedUpdate(Rotated) : NextCurrent' = Stored(Remaining, Note(r))
  <2>1. PICK r \in SkippedUpdate(Rotated) : TRUE
    BY <1>5
  <2> DEFINE m == Note(r)
  <2>2. /\ m \in NoteType /\ m.path = Rotated /\ m.inode = w.inode[Rotated]
        /\ About(w, m, w.at[Rotated]) /\ Covers(w, m, Rotated, Seen)
    BY <1>5, <2>1, UpdateFits DEF LookedUp, w
  <2>3. NextCurrent' = Stored(Remaining, m)
    BY <1>5, <2>1
  <2> HIDE DEF m
  <2>4. m.head = HeadAt(w, Rotated)
    BY <2>2 DEF About, HeadAt
  <2>5. /\ \A n \in Remaining : n.path = m.path => n.inode = m.inode /\ n.head \in {m.head, NoHead}
        /\ \A n \in Remaining : n.inode = m.inode => n.path = m.path
    BY <1>1, <1>5, <2>2, <2>4
  <2>6. /\ Book(w, Stored(Remaining, m), Formerly, Seen) /\ HasOwn(w, m.path, Stored(Remaining, m))
        /\ \A p \in {Rotated, Packed} : Settled(w, p, Remaining, Formerly, Seen) => Settled(w, p, Stored(Remaining, m), Formerly, Seen)
    <3>1. m.inode = w.inode[m.path] /\ About(w, m, w.at[m.path]) /\ Covers(w, m, m.path, Seen) /\ m.path # Live
      BY <2>2, ThreePaths
    <3> QED BY <1>1, <1>3, <2>2, <2>5, <3>1, BookStores
  <2>7. /\ \A n \in Stored(Remaining, m) : n \in Remaining \/ n = m
        /\ \A n \in Remaining : n.path = Rotated \/ n \in Stored(Remaining, m)
    BY <2>2 DEF Stored
  <2>8. \A p \in LookedUp : \A n \in NextCurrent' :
          n.path = p => n.inode = w.inode[p] /\ n.head \in {HeadAt(w, p), NoHead}
    BY <1>1, <2>2, <2>3, <2>4, <2>7
  <2>9. \A n \in Remaining : n.inode = w.inode[n.path] => HasOwn(w, n.path, NextCurrent')
    BY <2>2, <2>3, <2>6, <2>7 DEF HasOwn
  <2>10. HasOwn(w, Rotated, NextCurrent')
    BY <2>2, <2>3, <2>6
  <2>11. Settled(w, Packed, Current, Former, Seen) => Settled(w, Packed, NextCurrent', NextFormer', Seen)
    BY <1>1, <1>2, <2>3, <2>6
  <2> QED BY <1>2, <2>3, <2>6, <2>8, <2>9, <2>10, <2>11 DEF w
<1> QED BY <1>4, <1>5, RunTables

\* What a file was found to be that is neither stored nor read.
LEMMA KnownAsItIs ==
  ASSUME ResumeInv, CoverInv, Untroubled, NEW p \in OnDisk, p # Live, SkippedUpdate(p) = {},
         MetadataExactMatch(p) \/ ~NeedsPlan(p)
  PROVE  \E n \in Current : n.path = p /\ n.inode = World.inode[p]
<1> DEFINE w == World
           b == Primary(p)
           n == Note(b)
<1>1. /\ TypeOK /\ Book(w, Current, Former, Seen) /\ HeadSize = 1
  BY CoverParts DEF ResumeInv, Untroubled
<1>2. p \in Paths /\ On(w, p) /\ w.inode[p] = dir[p] /\ w.at[p] = At(p)
  <2>1. p \in Paths /\ dir[p] # NoInode
    BY <1>1, Files DEF OnDisk
  <2> QED BY <1>1, <2>1, ThisWorld
<1>3. MetadataExactMatch(p) \/ CompressedMatch(p) \/ IsSameFile(p)
  BY DEF SkippedUpdate, NeedsPlan
<1>4. /\ MetadataExactMatch(p) => b.path = p
      /\ ~MetadataExactMatch(p) /\ CompressedMatch(p) => b.path = p
      /\ ~MetadataExactMatch(p) /\ ~CompressedMatch(p) => ~IsDuplicate(p)
      /\ ~MetadataExactMatch(p) /\ ~CompressedMatch(p) /\ ~IsDuplicate(p) /\ IsSameFile(p) => b.path = p
  BY DEF SkippedUpdate, AliasUpdate, AliasUpdateWithFps
<1>5. b.path = p /\ b.completed /\ (b.inode = dir[p] \/ (~IsCompressed(p) /\ b.uhead = HeadOf(At(p))))
  <2>1. MetadataExactMatch(p) => b.completed /\ b.inode = dir[p]
    BY DEF MetadataExactMatch
  <2>2. CompressedMatch(p) => b.completed /\ b.inode = dir[p]
    BY DEF CompressedMatch
  <2>3. IsSameFile(p) => b.completed /\ ~IsCompressed(p) /\ b.uhead = HeadOf(At(p))
    BY DEF IsSameFile, ComputeFingerprints
  <2> QED BY <1>3, <1>4, <2>1, <2>2, <2>3
<1>6. b # NoRow
  <2>1. b \in OptRow
    BY <1>1, FoundRows
  <2> QED BY <1>5, <2>1, RowFields
<1>7. /\ n \in Current \cup Former /\ n.path = p /\ n.inode = b.inode /\ n.head = b.uhead
  <2>1. b \in Row /\ n \in Current \cup Former
    BY <1>1, <1>6, PrimaryIs
  <2> QED BY <1>5, <2>1, NoteOf
<1>8. RotatedRows(w, Current, Former) /\ PackedRows(w, Current, Former)
  BY <1>1, BookParts
<1> HIDE DEF w, b, n
<1>9. CASE p = Rotated
  <2>1. n.head = HeadAt(w, Rotated) => n.inode = w.inode[Rotated]
    BY <1>2, <1>7, <1>8, <1>9, ThreePaths DEF RotatedRows
  <2>2. n.inode = w.inode[Rotated]
    BY <1>2, <1>5, <1>7, <1>9, <2>1 DEF HeadAt
  <2>3. n \notin Former
    BY <1>2, <1>7, <1>8, <1>9, <2>2, ThreePaths DEF RotatedRows
  <2> QED BY <1>7, <1>9, <2>2, <2>3 DEF w
<1>10. CASE p = Packed
  <2>1. n.inode = w.inode[Packed]
    BY <1>2, <1>5, <1>7, <1>10 DEF IsCompressed
  <2>2. n \notin Former
    BY <1>2, <1>7, <1>8, <1>10, <2>1 DEF PackedRows
  <2> QED BY <1>7, <1>10, <2>1, <2>2 DEF w
<1> QED BY <1>2, <1>9, <1>10, ThreePaths

\* A row of a file's path and inode is not retired.
LEMMA OwnRowStays ==
  ASSUME ResumeInv, CoverInv, Untroubled, StartRun, NEW n \in Current, n.path # Live,
         n.inode = World.inode[n.path]
  PROVE  n \in Remaining
BY RetiredRows DEF Remaining

\* What is on disk and is not read has been settled.
LEMMA RunSettles ==
  ASSUME ResumeInv, CoverInv, Untroubled, StartRun, NEW p \in OnDisk, p # Live,
         p \notin Resolved \/ ~NeedsPlan(p)
  PROVE  Settled(World, p, NextCurrent', NextFormer', Seen)
<1> DEFINE w == World
<1>1. /\ TypeOK /\ Tidy(w) /\ Book(w, Current, Former, Seen) /\ HeadSize = 1
  BY CoverParts DEF ResumeInv, Untroubled
<1>2. p \in Paths /\ On(w, p) /\ w.inode[p] = dir[p] /\ w.at[p] = At(p)
  <2>1. p \in Paths /\ dir[p] # NoInode
    BY <1>1, Files DEF OnDisk
  <2> QED BY <1>1, <2>1, ThisWorld
<1>3. /\ \A n \in Remaining : n.inode = w.inode[n.path] => HasOwn(w, n.path, NextCurrent')
      /\ Rotated \in LookedUp /\ SkippedUpdate(Rotated) # {} => HasOwn(w, Rotated, NextCurrent')
      /\ Settled(w, Packed, Current, Former, Seen) => Settled(w, Packed, NextCurrent', NextFormer', Seen)
  BY RunBooks
<1>4. \A n \in Current : n.path = p /\ n.inode = w.inode[p] => HasOwn(w, p, NextCurrent')
  BY <1>3, OwnRowStays
<1> SUFFICES ASSUME SeenAt(w, p, Seen)
             PROVE  HasOwn(w, p, NextCurrent') \/ (p = Packed /\ Settled(w, Packed, NextCurrent', NextFormer', Seen))
  BY DEF Settled
<1>5. CASE p \notin OrderSkip
  <2>1. p \in LookedUp /\ (MetadataExactMatch(p) \/ ~NeedsPlan(p))
    BY <1>5 DEF LookedUp, Resolved, Pending
  <2>2. CASE SkippedUpdate(p) = {}
    <3>1. \E n \in Current : n.path = p /\ n.inode = w.inode[p]
      BY <2>1, <2>2, KnownAsItIs
    <3> QED BY <1>4, <3>1
  <2>3. CASE SkippedUpdate(p) # {}
    <3>1. p = Rotated
      BY <2>3, UpdateFits
    <3> QED BY <1>3, <2>1, <2>3, <3>1
  <2> QED BY <2>2, <2>3
<1>6. CASE p \in OrderSkip
  <2>1. p \in {Rotated, Packed}
    BY <1>2, ThreePaths
  <2>2. PICK l \in Seen : ~(l <= EndAt(w, p))
    BY <1>6, OrderSkipped DEF SeenAt, SeenOf
  <2>3. ~Alone(w, p, Current, Former, Seen)
    BY <2>2 DEF Alone
  <2>4. CASE p = Rotated
    <3>1. OwnCovers(w, Rotated, Current, Seen)
      BY <1>1, <2>3, <2>4, BookParts DEF CoveredRotated
    <3>2. PICK x \in Current : x.inode = w.inode[Rotated]
      BY <3>1 DEF OwnCovers, HasOwn
    <3>3. x.path # Live
      BY <1>6, <2>4, <3>2, RotatedLookedAt DEF LookedUp
    <3>4. x.path = Rotated
      BY <1>1, <1>2, <2>4, <3>2, <3>3, BookParts, ThreePaths DEF RotatedRows
    <3> QED BY <1>4, <2>4, <3>2, <3>4
  <2>5. CASE p = Packed
    <3>1. CoveredPacked(w, Current, Former, Seen)
      BY <1>1, BookParts
    <3>2. Settled(w, Packed, Current, Former, Seen)
      BY <2>3, <2>5, <3>1 DEF CoveredPacked, Settled, OwnCovers
    <3> QED BY <1>3, <2>5, <3>2
  <2> QED BY <2>1, <2>4, <2>5
<1> QED BY <1>5, <1>6

\* A run's plans fit the files and the tables.
LEMMA RunPlansFit ==
  ASSUME ResumeInv, CoverInv, Untroubled, StartRun
  PROVE  PlansFit(World, file, glob, todo', NextCurrent', NextFormer', SeenNext')
<1> DEFINE w == World
<1>1. /\ TypeOK /\ Tidy(w) /\ HeadSize = 1 /\ Globs \subseteq {Paths, {Packed}} /\ w \in WorldType
  BY CoverParts, ThisWorld DEF ResumeInv, Untroubled
<1>2. ASSUME NEW q \in OnDisk
      PROVE  /\ q \in Paths /\ q \in glob /\ On(w, q) /\ w.inode[q] = dir[q] /\ w.at[q] = At(q) /\ At(q) = file[dir[q]]
             /\ w.at[q].from \in Nat
  <2>1. q \in Paths /\ q \in glob /\ dir[q] # NoInode
    BY <1>1, Files DEF OnDisk
  <2> QED BY <1>1, <2>1, ThisWorld, WorldIs DEF At
<1>3. SeenNext' = Seen
  BY RunTables
<1>4. \A p \in LookedUp : \A n \in NextCurrent' :
        n.path = p => n.inode = w.inode[p] /\ n.head \in {HeadAt(w, p), NoHead}
  BY RunBooks
<1>5. PICK work : /\ DOMAIN todo' = DOMAIN work
                  /\ \A k \in DOMAIN work :
                       /\ todo'[k] = PlanOf(work[k]) /\ work[k] \in Resolved /\ NeedsPlan(work[k])
                       /\ work[k] \in LookedUp /\ work[k] \in OnDisk /\ ~MetadataExactMatch(work[k])
                  /\ \A p \in Resolved : NeedsPlan(p) => \E k \in DOMAIN work : work[k] = p
                  /\ \A j, k \in DOMAIN work : j < k => Precedes(work[j], work[k])
                  /\ \A j, k \in DOMAIN work : j < k \/ j = k \/ k < j
  BY RunPlans
<1>6. ASSUME NEW k \in DOMAIN work
      PROVE  /\ todo'[k] \in Row /\ todo'[k].path = work[k] /\ todo'[k].inode = dir[work[k]]
             /\ todo'[k].uoff = ResumeOffset(work[k]) /\ todo'[k].uhead = HeadAt(w, work[k])
             /\ About(w, Note(todo'[k]), w.at[work[k]]) /\ Within(w.at[work[k]], todo'[k].uoff, Seen)
             /\ file[todo'[k].inode] = w.at[work[k]]
  <2>1. work[k] \in OnDisk /\ NeedsPlan(work[k]) /\ ~MetadataExactMatch(work[k]) /\ todo'[k] = PlanOf(work[k])
    BY <1>5
  <2>2. /\ todo'[k] \in Row /\ todo'[k].path = work[k] /\ todo'[k].inode = dir[work[k]]
        /\ todo'[k].uoff = ResumeOffset(work[k]) /\ todo'[k].uhead = HeadAt(w, work[k])
        /\ About(w, Note(todo'[k]), w.at[work[k]])
    BY <2>1, PlanNote
  <2>3. Within(w.at[work[k]], ResumeOffset(work[k]), Seen)
    BY <2>1, PlanCovers
  <2> QED BY <1>2, <2>1, <2>2, <2>3
<1>7. \A p, q \in Paths : On(w, p) /\ w.inode[p] = w.inode[q] => p = q
  BY <1>1 DEF Tidy
<1>8. ASSUME NEW k \in DOMAIN work
      PROVE  PlanFits(w, todo'[k], w.at[work[k]], NextCurrent', SeenNext')
  <2>1. \A p \in Paths : w.inode[p] = todo'[k].inode => p = todo'[k].path
    BY <1>2, <1>5, <1>6, <1>7
  <2>2. w.inode[todo'[k].path] = todo'[k].inode
    BY <1>2, <1>5, <1>6
  <2>3. \A n \in NextCurrent' : n.path = todo'[k].path => n.inode = todo'[k].inode /\ n.head \in {todo'[k].uhead, NoHead}
    BY <1>2, <1>4, <1>5, <1>6
  <2> QED BY <1>3, <1>6, <2>1, <2>2, <2>3 DEF PlanFits
<1>9. ASSUME NEW j \in DOMAIN work, NEW k \in DOMAIN work, j < k
      PROVE  w.at[work[j]].from < w.at[work[k]].from
  <2>1. Precedes(work[j], work[k]) /\ work[j] \in OnDisk /\ work[k] \in OnDisk
    BY <1>5, <1>9
  <2>2. At(work[j]).from < At(work[k]).from
    BY <1>1, <2>1, FileOrder
  <2> QED BY <1>2, <2>1, <2>2
<1>10. ASSUME NEW k \in DOMAIN work, NEW p \in {Rotated, Packed}, On(w, p), EndAt(w, p) <= w.at[work[k]].from
       PROVE  \/ Settled(w, p, NextCurrent', NextFormer', SeenNext')
              \/ \E j \in DOMAIN work : j < k /\ todo'[j].path = p
  <2>1. work[k] \in OnDisk
    BY <1>5
  <2>2. p \in OnDisk
    <3> SUFFICES ASSUME p \notin OnDisk PROVE FALSE
      OBVIOUS
    <3>1. p \notin glob
      BY <1>1, <1>10, ThisWorld, ThreePaths DEF OnDisk, On
    <3>2. glob = {Packed} /\ p = Rotated /\ work[k] = Packed
      BY <1>1, <1>2, <2>1, <3>1, ThreePaths DEF TypeOK
    <3>3. EndAt(w, Packed) = Edge(w) /\ Edge(w) = w.at[Rotated].from
      BY <1>1, <1>2, <1>10, <2>1, <3>2 DEF Tidy, Edge
    <3>4. /\ EndAt(w, Packed) = w.at[Packed].from + w.at[Packed].size
          /\ EndAt(w, Rotated) = w.at[Rotated].from + w.at[Rotated].size
          /\ w.at[Packed].from \in Nat /\ w.at[Packed].size \in Nat
          /\ w.at[Rotated].from \in Nat /\ w.at[Rotated].size \in Nat /\ w.at[Packed].size > 0
      BY <1>1, <1>2, <2>1, <3>2, WorldIs, ThreePaths DEF Tidy
    <3> QED BY <1>10, <3>2, <3>3, <3>4
  <2>3. CASE p \in Resolved /\ NeedsPlan(p)
    <3>1. PICK j \in DOMAIN work : work[j] = p
      BY <1>5, <2>3
    <3>2. p # work[k] /\ ~Precedes(work[k], p)
      <4>1. p # Live /\ EndAt(w, p) <= At(work[k]).from
        BY <1>2, <1>10, <2>1, ThreePaths
      <4> QED BY <1>1, <2>1, <2>2, <4>1, FileOrder
    <3>3. j < k
      BY <1>5, <3>1, <3>2
    <3> QED BY <1>6, <3>1, <3>3
  <2>4. CASE ~(p \in Resolved /\ NeedsPlan(p))
    <3>1. p # Live
      BY ThreePaths
    <3> QED BY <1>3, <2>2, <2>4, <3>1, RunSettles
  <2> QED BY <2>3, <2>4
<1> HIDE DEF w
<1> SUFFICES ASSUME NEW k \in DOMAIN todo'
             PROVE  LET c == file[todo'[k].inode]
                    IN /\ todo'[k].path \in glob /\ PlanFits(w, todo'[k], c, NextCurrent', SeenNext')
                       /\ \A j \in DOMAIN todo' : j < k => file[todo'[j].inode].from < c.from
                       /\ \A p \in {Rotated, Packed} : On(w, p) /\ EndAt(w, p) <= c.from =>
                            \/ Settled(w, p, NextCurrent', NextFormer', SeenNext')
                            \/ \E j \in DOMAIN todo' : j < k /\ (~On(w, todo'[j].path) \/ todo'[j].path = p)
  BY DEF PlansFit, w
<1>11. k \in DOMAIN work /\ file[todo'[k].inode] = w.at[work[k]] /\ todo'[k].path \in glob
  BY <1>2, <1>5, <1>6
<1>12. PlanFits(w, todo'[k], file[todo'[k].inode], NextCurrent', SeenNext')
  BY <1>8, <1>11
<1>13. \A j \in DOMAIN todo' : j < k => file[todo'[j].inode].from < file[todo'[k].inode].from
  BY <1>5, <1>6, <1>9, <1>11
<1>14. \A p \in {Rotated, Packed} : On(w, p) /\ EndAt(w, p) <= file[todo'[k].inode].from =>
         \/ Settled(w, p, NextCurrent', NextFormer', SeenNext')
         \/ \E j \in DOMAIN todo' : j < k /\ (~On(w, todo'[j].path) \/ todo'[j].path = p)
  BY <1>5, <1>10, <1>11
<1> QED BY <1>11, <1>12, <1>13, <1>14

LEMMA StartRunCovers == ASSUME ResumeInv, CoverInv, Untroubled, StartRun PROVE CoverInv'
<1>1. /\ TypeOK /\ Tidy(World) /\ Book(World, Current, Former, Seen) /\ LastSeen /\ Once
  BY CoverParts DEF ResumeInv
<1>2. /\ UNCHANGED fsVars /\ UNCHANGED dbVars /\ active' = NoFile /\ acc' = acc /\ targets' = targets /\ pc' = "run"
  BY DEF StartRun, ResumeInv, Idle
<1>3. /\ glob' = glob /\ dir' = dir /\ file' = file /\ written' = written /\ count' = count
      /\ parseState' = parseState /\ archive' = archive /\ lastLog' = lastLog
  BY <1>2 DEF fsVars, dbVars
<1>4. World' = World
  BY <1>3 DEF World
<1>5. \A l : BeforeTarget(l)' = BeforeTarget(l)
  BY <1>2 DEF BeforeTarget
<1>6. Current' = Current /\ Former' = Former /\ Seen' = Seen
  BY <1>3, <1>5 DEF Current, Former, Seen
<1>7. Tidy(World)' /\ Books'
  BY <1>1, <1>4, <1>6, RunBooks DEF Books
<1>8. Planned'
  BY <1>3, <1>4, RunPlansFit DEF Planned
<1>9. Reading'
  BY <1>2 DEF Reading
<1>10. \/ pending' = <<>>
       \/ \E r : /\ pending' = <<r>> /\ r.path = Rotated /\ r.completed /\ r.inode # dir[Live]
                 /\ Rotated \in LookedUp /\ SkippedUpdate(Rotated) # {}
  <2>1. CASE Rotated \in LookedUp /\ \E r \in SkippedUpdate(Rotated) : pending' = <<r>>
    <3>1. PICK r \in SkippedUpdate(Rotated) : pending' = <<r>>
      BY <2>1
    <3>2. Rotated \in OnDisk /\ dir[Rotated] # NoInode
      BY <2>1 DEF LookedUp, OnDisk
    <3>3. /\ r \in Row /\ r.completed /\ Note(r).path = Rotated /\ Note(r).inode = World.inode[Rotated]
      BY <3>1, <3>2, UpdateFits
    <3>4. r.path = Rotated /\ r.inode = dir[Rotated]
      BY <1>1, <3>3, NoteOf, ThisWorld
    <3>5. dir[Rotated] # dir[Live]
      BY <3>2, ThreePaths DEF ResumeInv, Disk
    <3> QED BY <2>1, <3>1, <3>3, <3>4, <3>5
  <2> QED BY <2>1, RunStores
<1>11. ASSUME NEW k \in DOMAIN todo', Rotated \in LookedUp, SkippedUpdate(Rotated) # {}
       PROVE  todo'[k].path # Rotated
  <2>1. PICK work : /\ DOMAIN todo' = DOMAIN work
                    /\ \A i \in DOMAIN work :
                         /\ todo'[i] = PlanOf(work[i]) /\ work[i] \in Resolved /\ NeedsPlan(work[i])
                         /\ work[i] \in LookedUp /\ work[i] \in OnDisk /\ ~MetadataExactMatch(work[i])
    BY RunPlans
  <2>2. /\ NeedsPlan(work[k]) /\ ~MetadataExactMatch(work[k]) /\ todo'[k].path = work[k]
    BY <2>1, PlanNote
  <2> SUFFICES ASSUME work[k] = Rotated PROVE FALSE
    BY <2>2
  <2> QED BY <1>11, <2>2 DEF NeedsPlan, SkippedUpdate
<1>12. Distinct'
  <2>1. CASE pending' = <<>>
    <3>1. DOMAIN pending' = {}
      BY <2>1
    <3> QED BY <1>2, <3>1 DEF Distinct
  <2>2. CASE pending' # <<>>
    <3>1. PICK r : /\ pending' = <<r>> /\ r.path = Rotated /\ Rotated \in LookedUp /\ SkippedUpdate(Rotated) # {}
      BY <1>10, <2>2
    <3>2. DOMAIN pending' = {1} /\ pending'[1] = r
      BY <3>1
    <3> QED BY <1>2, <1>11, <3>1, <3>2 DEF Distinct
  <2> QED BY <2>1, <2>2
<1>13. Done'
  <2>1. retired' \subseteq parseState' \cup archive'
    BY <1>3, RetiredRows
  <2>2. \A r \in Range(pending') : r.completed /\ r.inode # dir[Live]
    BY <1>10 DEF Range
  <2> QED BY <1>2, <1>3, <2>1, <2>2 DEF Done
<1>14. LastSeen'
  BY <1>1, <1>2, <1>3, <1>5, <1>6 DEF LastSeen
<1>15. Once'
  BY <1>1, <1>2, <1>3, <1>5 DEF Once
<1> QED BY <1>7, <1>8, <1>9, <1>12, <1>13, <1>14, <1>15 DEF CoverInv

-----------------------------------------------------------------------------
(* The invariant, and the theorem. *)

LEMMA CoverInit == Init => CoverInv
<1> SUFFICES ASSUME Init PROVE CoverInv
  OBVIOUS
<1>1. TypeOK /\ ResumeInv
  BY InvInit DEF ResumeInv
<1>2. /\ \A p \in Paths : dir[p] = IF p = Live THEN 1 ELSE NoInode
      /\ file[1] = Empty(0) /\ written = 0 /\ lastLog = 0 /\ targets = {}
      /\ parseState = {} /\ archive = {} /\ retired = {} /\ pending = <<>> /\ todo = <<>> /\ active = NoFile
      /\ count = NoCount /\ acc = NoCount /\ pc = "idle"
  BY Constants DEF Init
<1>3. 1 # NoInode /\ 0 \notin Line
  <2>1. MaxLines \in Nat
    BY ResumeAssumption
  <2> QED BY <2>1 DEF Line, NoInode
<1>4. /\ World \in WorldType /\ World.inode = dir /\ World.end = 0
      /\ On(World, Live) /\ World.at[Live] = Empty(0) /\ ~On(World, Rotated) /\ ~On(World, Packed)
  BY <1>1, <1>2, <1>3, ThisWorld, ThreePaths
<1>5. /\ Empty(0).from = 0 /\ Empty(0).size = 0 /\ Empty(0).mtime = 1
  BY DEF Empty
<1>6. Tidy(World)
  <2>1. EndAt(World, Live) = 0
    BY <1>4, <1>5 DEF EndAt, EndOfAll
  <2>2. \A p, q \in Paths : On(World, p) /\ World.inode[p] = World.inode[q] => p = q
    BY <1>2, <1>3, <1>4, ThreePaths
  <2> QED BY <1>4, <1>5, <2>1, <2>2 DEF Tidy
<1>7. Current = {} /\ Former = {} /\ Seen = {}
  BY <1>2 DEF Current, Former, Notes, Seen, NoCount
<1>8. Book(World, {}, {}, {})
  <2>1. \A p : ~SeenAt(World, p, {})
    BY DEF SeenAt, SeenOf
  <2>2. Kinds(World, {}, {})
    BY DEF Kinds, Single, LiveRows, RotatedRows, PackedRows
  <2> QED BY <2>1, <2>2 DEF Book, Counted, CoveredLive, CoveredRotated, CoveredPacked
<1>9. Books
  BY <1>1, <1>2, <1>7, <1>8, NothingInHand DEF Books
<1>10. DOMAIN todo = {} /\ DOMAIN pending = {} /\ Range(pending) = {}
  BY <1>2 DEF Range
<1>11. Planned /\ Reading /\ Distinct /\ Done
  BY <1>2, <1>10 DEF Planned, PlansFit, Reading, Distinct, Done
<1>12. LastSeen /\ Once
  BY <1>2, <1>3 DEF LastSeen, Once, NoCount
<1> QED BY <1>6, <1>9, <1>11, <1>12 DEF CoverInv

LEMMA CoverStays ==
  ASSUME ResumeInv, CoverInv, UNCHANGED vars
  PROVE  CoverInv'
<1>1. UNCHANGED fsVars /\ UNCHANGED dbVars /\ UNCHANGED runVars /\ UNCHANGED histVars
  BY DEF vars
<1>2. /\ glob' = glob /\ dir' = dir /\ file' = file /\ written' = written
      /\ count' = count /\ parseState' = parseState /\ archive' = archive /\ lastLog' = lastLog
      /\ pc' = pc /\ todo' = todo /\ active' = active /\ acc' = acc /\ pending' = pending /\ retired' = retired
      /\ targets' = targets
  BY <1>1 DEF fsVars, dbVars, runVars, histVars
<1>3. /\ Current' = Current /\ Former' = Former /\ Seen' = Seen
      /\ NextCurrent' = NextCurrent /\ NextFormer' = NextFormer /\ SeenNext' = SeenNext
      /\ Distinct' = Distinct /\ Once' = Once
  BY <1>1, <1>2, NothingStored
<1>4. World' = World
  BY <1>2 DEF World
<1>5. Tidy(World)' /\ Books'
  BY <1>3, <1>4, CoverParts DEF Books
<1>6. Planned' /\ Reading'
  BY <1>2, <1>3, <1>4, CoverParts DEF Planned, Reading
<1>7. Done'
  BY <1>2, CoverParts DEF Done, At
<1>8. LastSeen'
  <2>1. \A l : BeforeTarget(l)' = BeforeTarget(l)
    BY <1>2 DEF BeforeTarget
  <2> QED BY <1>2, <1>3, <2>1, CoverParts DEF LastSeen
<1> QED BY <1>3, <1>5, <1>6, <1>7, <1>8, CoverParts DEF CoverInv

LEMMA CoverNext == Untroubled /\ ResumeInv /\ CoverInv /\ [Next]_vars => CoverInv'
<1> SUFFICES ASSUME Untroubled, ResumeInv, CoverInv, [Next]_vars PROVE CoverInv'
  OBVIOUS
<1>1. CASE UNCHANGED vars
  BY <1>1, CoverStays
<1>2. CASE WriteLine
  BY <1>2, WriteLineCovers
<1>3. CASE Rename
  BY <1>3, RenameCovers
<1>4. CASE CopyTruncate
  BY <1>4, CopyTruncateCovers
<1>5. CASE PackNew
  BY <1>5, PackNewCovers
<1>6. CASE PackMember
  BY <1>6, PackMemberCovers
<1>7. CASE StartRun
  BY <1>7, StartRunCovers
<1>8. CASE OpenFile
  BY <1>8, OpenFileCovers
<1>9. CASE FileDone
  BY <1>9, FileDoneCovers
<1>10. CASE Checkpoint
  BY <1>10, CheckpointCovers
<1>11. CASE EndRun
  BY <1>11, EndRunCovers
<1>12. CASE AbortRun
  BY <1>12, AbortRunCovers
<1>13. CASE Crash
  BY <1>13, CrashCovers
<1>14. ASSUME NEW t \in Targets, Rollback(t) PROVE CoverInv'
  BY <1>14, RollbackCovers
<1> QED BY <1>1, <1>2, <1>3, <1>4, <1>5, <1>6, <1>7, <1>8, <1>9, <1>10, <1>11, <1>12, <1>13, <1>14 DEF Next

LEMMA CoverCounts == ResumeInv /\ CoverInv => CountedOnce
<1> SUFFICES ASSUME ResumeInv, CoverInv, NEW l \in Line, count[l] > 1 PROVE BeforeTarget(l)
  BY DEF CountedOnce
<1>1. count[l] \in Nat /\ acc[l] \in Nat
  BY DEF ResumeInv, TypeOK
<1>2. count[l] + acc[l] > 1
  BY <1>1
<1> QED BY <1>2, CoverParts DEF Once

\* No line is counted twice, unless it is older than a month that was rolled back to:
\* not when files are renamed, copied and truncated, packed or appended to a packed
\* file, while a run is under way or not, nor when runs stop half way, crash and start
\* again from what the tables tell them.
THEOREM CountedAtMostOnce == Spec => [](Untroubled => CountedOnce)
<1> DEFINE Inv == Untroubled => CoverInv
<1>1. Init => Inv
  BY CoverInit
<1>2. ResumeInv /\ Inv /\ [Next]_vars => Inv'
  BY CoverNext
<1>3. ResumeInv /\ Inv => (Untroubled => CountedOnce)
  BY CoverCounts
<1> HIDE DEF Inv
<1> QED BY <1>1, <1>2, <1>3, ResumeInvariant, PTL DEF Spec

=============================================================================
