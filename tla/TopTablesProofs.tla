--------------------------- MODULE TopTablesProofs ---------------------------
(***************************************************************************)
(* Proofs about the top tables: what culling and trimming take from a row  *)
(* is bounded by what the N-th best key really has, the best N keys by     *)
(* every column survive a checkpoint, and the pages show them.             *)
(*                                                                         *)
(* A rank is a number of rows, so that everything rests on one fact about  *)
(* finite sets, NthExists: of at least N rows one is the N-th best.  It is *)
(* proved by induction over the set, in its first-order form: a set of     *)
(* numbers that is not empty has a least member.                           *)
(***************************************************************************)
EXTENDS TopTables, FiniteSetTheorems, TLAPS

-----------------------------------------------------------------------------
(* Finite sets. *)

LEMMA SmallestNat ==
  ASSUME NEW S \in SUBSET Nat, S # {}
  PROVE  \E n \in S : \A m \in S : n <= m
<1>1. \E n \in S : \A m \in S : ~ (<<m, n>> \in OpToRel(<, Nat))
  BY WFMin, NatLessThanWellFounded
<1>2. ASSUME NEW m \in Nat, NEW n \in Nat, ~ (<<m, n>> \in OpToRel(<, Nat))
      PROVE  n <= m
  BY <1>2 DEF OpToRel
<1>3. PICK n \in S : \A m \in S : ~ (<<m, n>> \in OpToRel(<, Nat))
  BY <1>1
<1>4. ASSUME NEW m \in S PROVE n <= m
  BY <1>2, <1>3
<1> QED BY <1>4

\* What is true of an element for which a measure is least.
LEMMA LeastMeasure ==
  ASSUME NEW S, S # {}, NEW f \in [S -> Nat]
  PROVE  \E x \in S : \A y \in S : f[x] <= f[y]
<1> DEFINE V == {f[x] : x \in S}
<1>1. V \in SUBSET Nat /\ V # {}
  OBVIOUS
<1>2. PICK n \in V : \A m \in V : n <= m
  <2> HIDE DEF V
  <2> QED BY <1>1, SmallestNat
<1>3. PICK x \in S : f[x] = n
  OBVIOUS
<1> QED BY <1>2, <1>3

LEMMA SmallerSubset ==
  ASSUME NEW S, IsFiniteSet(S), NEW T \in SUBSET S, NEW x \in S, x \notin T
  PROVE  /\ IsFiniteSet(T) /\ Cardinality(T) \in Nat /\ Cardinality(S) \in Nat
         /\ Cardinality(T) < Cardinality(S)
<1>1. /\ IsFiniteSet(T) /\ Cardinality(T) <= Cardinality(S)
      /\ Cardinality(S) = Cardinality(T) => S = T
  BY FS_Subset
<1>2. Cardinality(T) \in Nat /\ Cardinality(S) \in Nat
  BY <1>1, FS_CardinalityType
<1> QED BY <1>1, <1>2

LEMMA SubsetCardinality ==
  ASSUME NEW S, IsFiniteSet(S), NEW T \in SUBSET S
  PROVE  /\ IsFiniteSet(T) /\ Cardinality(T) \in Nat /\ Cardinality(S) \in Nat
         /\ Cardinality(T) <= Cardinality(S)
BY FS_Subset, FS_CardinalityType

\* What none of a finite set precedes: <<i, j>> \in R says that i is before j.
Behind(S, R, j) == {i \in S : <<j, i>> \notin R}
Ahead(S, R, j) == {i \in S : <<i, j>> \in R}

IsStrictOrder(S, R) ==
  /\ \A i \in S : <<i, i>> \notin R
  /\ \A i, j, k \in S : <<i, j>> \in R /\ <<j, k>> \in R => <<i, k>> \in R


\* No two members of A precede one another all the way: one of A is behind none.
LEMMA LastOf ==
  ASSUME NEW S, IsFiniteSet(S), NEW R, IsStrictOrder(S, R), NEW A \in SUBSET S, A # {}
  PROVE  \E j \in A : A \subseteq Behind(S, R, j)
<1> DEFINE inFront == [j \in A |-> Cardinality({i \in A : <<j, i>> \in R})]
<1>1. IsFiniteSet(A)
  BY FS_Subset
<1>2. inFront \in [A -> Nat]
  <2>1. ASSUME NEW j \in A PROVE Cardinality({i \in A : <<j, i>> \in R}) \in Nat
    BY <1>1, SubsetCardinality
  <2> QED BY <2>1
<1>3. PICK j \in A : \A i \in A : inFront[j] <= inFront[i]
  <2> HIDE DEF inFront
  <2> QED BY <1>2, LeastMeasure
<1>4. SUFFICES ASSUME NEW i \in A, <<j, i>> \in R PROVE FALSE
  BY DEF Behind
<1>5. {l \in A : <<i, l>> \in R} \in SUBSET {l \in A : <<j, l>> \in R}
  BY <1>4 DEF IsStrictOrder
<1>6. i \in {l \in A : <<j, l>> \in R} /\ i \notin {l \in A : <<i, l>> \in R}
  BY <1>4 DEF IsStrictOrder
<1>7. IsFiniteSet({l \in A : <<j, l>> \in R})
  BY <1>1, SubsetCardinality
<1>8. Cardinality({l \in A : <<i, l>> \in R}) < Cardinality({l \in A : <<j, l>> \in R})
  BY <1>5, <1>6, <1>7, SmallerSubset
<1>9. inFront[i] < inFront[j] /\ inFront[i] \in Nat /\ inFront[j] \in Nat
  BY <1>2, <1>8
<1> QED BY <1>3, <1>4, <1>9

\* Of at least N elements one is the N-th: fewer than N are ahead of it, and
\* with it at least N are not behind.
LEMMA NthExists ==
  ASSUME NEW S, IsFiniteSet(S), NEW R, IsStrictOrder(S, R),
         NEW N \in Nat \ {0}, Cardinality(S) >= N
  PROVE  \E j \in S : /\ Cardinality(Ahead(S, R, j)) < N
                      /\ Cardinality(Behind(S, R, j)) >= N
<1> DEFINE C == {j \in S : Cardinality(Behind(S, R, j)) >= N}
           size == [j \in C |-> Cardinality(Behind(S, R, j))]
<1>0. \A j \in S : /\ Behind(S, R, j) \in SUBSET S
                   /\ IsFiniteSet(Behind(S, R, j)) /\ Cardinality(Behind(S, R, j)) \in Nat
                   /\ Ahead(S, R, j) \in SUBSET S
                   /\ IsFiniteSet(Ahead(S, R, j)) /\ Cardinality(Ahead(S, R, j)) \in Nat
  BY SubsetCardinality DEF Behind, Ahead
<1>1. ASSUME NEW A \in SUBSET S, Cardinality(A) >= N
      PROVE  \E j \in A : j \in C /\ A \subseteq Behind(S, R, j)
  <2>1. A # {}
    BY <1>1, FS_EmptySet
  <2>2. PICK j \in A : A \subseteq Behind(S, R, j)
    BY <2>1, LastOf
  <2>3. Cardinality(A) <= Cardinality(Behind(S, R, j)) /\ Cardinality(A) \in Nat
    BY <1>0, <2>2, SubsetCardinality
  <2>4. Cardinality(Behind(S, R, j)) >= N
    BY <1>0, <1>1, <2>3
  <2> QED BY <2>2, <2>4
<1>2. C # {}
  BY <1>1
<1>3. size \in [C -> Nat]
  BY <1>0
<1>4. PICK j \in C : \A i \in C : size[j] <= size[i]
  <2> HIDE DEF C, size
  <2> QED BY <1>2, <1>3, LeastMeasure
<1>5. SUFFICES ASSUME Cardinality(Ahead(S, R, j)) >= N PROVE FALSE
  BY <1>0
<1>6. PICK i \in Ahead(S, R, j) : i \in C /\ Ahead(S, R, j) \subseteq Behind(S, R, i)
  BY <1>0, <1>1, <1>5
<1>7. Behind(S, R, i) \in SUBSET Behind(S, R, j)
  BY <1>6 DEF Behind, Ahead, IsStrictOrder
<1>8. j \in Behind(S, R, j) /\ j \notin Behind(S, R, i)
  BY <1>6 DEF Behind, Ahead, IsStrictOrder
<1>9. Cardinality(Behind(S, R, i)) < Cardinality(Behind(S, R, j))
  BY <1>0, <1>7, <1>8, SmallerSubset
<1> QED BY <1>0, <1>4, <1>6, <1>9


-----------------------------------------------------------------------------
(* Fractions. *)

LEMMA FractionsAreOrdered ==
  ASSUME NEW a1 \in Nat, NEW a2 \in Nat, NEW a3 \in Nat,
         NEW b1 \in Nat \ {0}, NEW b2 \in Nat \ {0}, NEW b3 \in Nat \ {0}
  PROVE  /\ a1 * b2 > a2 * b1 /\ a2 * b3 > a3 * b2 => a1 * b3 > a3 * b1
         /\ a1 * b2 >= a2 * b1 /\ a2 * b3 > a3 * b2 => a1 * b3 > a3 * b1
BY SMTT(30)

LEMMA BelowAFraction ==
  ASSUME NEW a \in Nat, NEW n \in Nat, NEW c \in Nat \ {0}, a < n \div c
  PROVE  c * a <= n /\ a < n
BY SMTT(30)

-----------------------------------------------------------------------------
(* Rows. *)

Table == [Keys -> Row]
Fields == Sums \cup {"rtSum", "rtCount"}

LEMMA RowFields ==
  ASSUME NEW r \in Row
  PROVE  /\ r.hits \in Nat /\ r.bandwidth \in Nat /\ r.rtSum \in Nat /\ r.rtCount \in Nat
         /\ \A x \in Fields : r[x] \in Nat
         /\ r.codes \in SUBSET Nat
         /\ r.hits = 0 => r = NoRow
BY DEF Row, NoRow, Fields, Sums

LEMMA NoRowIsRow ==
  /\ NoRow \in Row /\ NoRows \in Table
  /\ \A x \in Fields : NoRow[x] = 0
BY DEF Row, NoRow, NoRows, Table, Fields, Sums

LEMMA PlusIsRow ==
  ASSUME NEW r \in Row, NEW s \in Row
  PROVE  /\ Plus(r, s) \in Row
         /\ \A x \in Fields : Plus(r, s)[x] = r[x] + s[x]
         /\ Plus(r, s).codes = r.codes \cup s.codes
         /\ r # NoRow \/ s # NoRow => Plus(r, s).hits > 0
BY DEF Row, NoRow, Plus, Fields, Sums

LEMMA PlusNoRow ==
  ASSUME NEW r \in Row
  PROVE  Plus(r, NoRow) = r /\ Plus(NoRow, r) = r
BY DEF Row, Plus, NoRow

LEMMA MergedIsTable ==
  ASSUME NEW rows \in Table, NEW added \in Table
  PROVE  /\ Merged(rows, added) \in Table
         /\ \A k \in Keys : Merged(rows, added)[k] = Plus(rows[k], added[k])
BY PlusIsRow DEF Merged, Table

LEMMA KeptIsTable ==
  ASSUME NEW rows \in Table, NEW S
  PROVE  /\ Kept(rows, S) \in Table
         /\ \A k \in Keys : Kept(rows, S)[k] = IF k \in S THEN rows[k] ELSE NoRow
         /\ Present(Kept(rows, S)) = Present(rows) \cap S
<1>1. /\ Kept(rows, S) \in Table
      /\ \A k \in Keys : Kept(rows, S)[k] = IF k \in S THEN rows[k] ELSE NoRow
  BY NoRowIsRow DEF Kept, Table
<1>2. NoRow.hits = 0
  BY DEF NoRow
<1> QED BY <1>1, <1>2 DEF Present

Orders == Sums \cup {"rt"}

LEMMA MetricsAreOrders == \A t \in AllKinds : Metrics(t) \subseteq Orders
BY DEF Metrics, Orders, Sums, AllKinds

LEMMA RankedIsFinite ==
  ASSUME NEW rows, NEW x
  PROVE  /\ Ranked(rows, x) \in SUBSET Present(rows) /\ Present(rows) \in SUBSET Keys
         /\ IsFiniteSet(Ranked(rows, x)) /\ IsFiniteSet(Present(rows))
         /\ Cardinality(Ranked(rows, x)) \in Nat /\ Cardinality(Present(rows)) \in Nat
         /\ x \in Sums => Ranked(rows, x) = Present(rows)
<1>1. Ranked(rows, x) \in SUBSET Present(rows) /\ Present(rows) \in SUBSET Keys
  BY DEF Ranked, Present
<1>2. IsFiniteSet(Keys)
  BY TopTablesAssumption
<1>3. x \in Sums => Ranked(rows, x) = Present(rows)
  BY DEF Ranked, Sums
<1> QED BY <1>1, <1>2, <1>3, SubsetCardinality

\* A column orders the rows that have it.
OrderBy(rows, x) == {p \in Keys \X Keys : Beats(rows[p[1]], rows[p[2]], x)}

LEMMA BeatsIsStrictOrder ==
  ASSUME NEW rows \in Table, NEW x \in Orders
  PROVE  /\ IsStrictOrder(Ranked(rows, x), OrderBy(rows, x))
         /\ \A j \in Ranked(rows, x) :
              /\ Ahead(Ranked(rows, x), OrderBy(rows, x), j)
                   = {i \in Ranked(rows, x) : Beats(rows[i], rows[j], x)}
              /\ Behind(Ranked(rows, x), OrderBy(rows, x), j)
                   = {i \in Ranked(rows, x) : ~Beats(rows[j], rows[i], x)}
<1> DEFINE S == Ranked(rows, x)
<1>1. S \in SUBSET Keys /\ \A k \in S : rows[k] \in Row
  BY RankedIsFinite DEF Table
<1>2. \A i, j \in S : <<i, j>> \in OrderBy(rows, x) <=> Beats(rows[i], rows[j], x)
  BY <1>1 DEF OrderBy
<1>3. \A i \in S : ~Beats(rows[i], rows[i], x)
  BY <1>1, RowFields DEF Beats, Orders, Fields
<1>4. ASSUME NEW i \in S, NEW j \in S, NEW k \in S,
             Beats(rows[i], rows[j], x), Beats(rows[j], rows[k], x)
      PROVE  Beats(rows[i], rows[k], x)
  <2>1. CASE x = "rt"
    <3>1. \A l \in S : rows[l].rtCount \in Nat \ {0} /\ rows[l].rtSum \in Nat
      BY <1>1, <2>1, RowFields DEF Ranked
    <3> QED BY <1>4, <2>1, <3>1, FractionsAreOrdered DEF Beats
  <2>2. CASE x \in Sums
    <3>1. \A l \in S : rows[l][x] \in Nat
      BY <1>1, <2>2, RowFields DEF Fields
    <3>2. x # "rt"
      BY <2>2 DEF Sums
    <3> QED BY <1>4, <3>1, <3>2 DEF Beats
  <2> QED BY <2>1, <2>2 DEF Orders
<1>5. IsStrictOrder(S, OrderBy(rows, x))
  BY <1>2, <1>3, <1>4 DEF IsStrictOrder
<1> QED BY <1>2, <1>5 DEF Ahead, Behind

\* If as many rows have a column, one of them is the N-th best by it.
LEMMA NthRowExists ==
  ASSUME NEW rows \in Table, NEW x \in Orders, topN \in Nat \ {0},
         Cardinality(Ranked(rows, x)) >= topN
  PROVE  NthRow(rows, x) # {}
<1>1. IsFiniteSet(Ranked(rows, x))
  BY RankedIsFinite
<1>2. PICK j \in Ranked(rows, x) :
        /\ Cardinality(Ahead(Ranked(rows, x), OrderBy(rows, x), j)) < topN
        /\ Cardinality(Behind(Ranked(rows, x), OrderBy(rows, x), j)) >= topN
  BY <1>1, BeatsIsStrictOrder, NthExists
<1>3. /\ Cardinality({i \in Ranked(rows, x) : Beats(rows[i], rows[j], x)}) < topN
      /\ Cardinality({i \in Ranked(rows, x) : ~Beats(rows[j], rows[i], x)}) >= topN
  <2>1. /\ Ahead(Ranked(rows, x), OrderBy(rows, x), j)
              = {i \in Ranked(rows, x) : Beats(rows[i], rows[j], x)}
        /\ Behind(Ranked(rows, x), OrderBy(rows, x), j)
              = {i \in Ranked(rows, x) : ~Beats(rows[j], rows[i], x)}
    BY BeatsIsStrictOrder
  <2> QED BY <1>2, <2>1, Zenon
<1>4. rows[j] \in NthRow(rows, x)
  BY <1>3, Zenon DEF NthRow
<1> QED BY <1>4

\* No sum of N rows is above that of the N-th.
LEMMA NthRowBound ==
  ASSUME NEW rows \in Table, NEW x \in Sums, topN \in Nat \ {0}, NEW v \in Nat,
         NEW A \in SUBSET Present(rows), Cardinality(A) >= topN, \A i \in A : rows[i][x] >= v
  PROVE  NthRow(rows, x) # {} /\ \A n \in NthRow(rows, x) : n \in Row /\ n[x] \in Nat /\ n[x] >= v
<1> DEFINE S == Ranked(rows, x)
<1>1. S = Present(rows) /\ IsFiniteSet(S) /\ S \in SUBSET Keys /\ x # "rt" /\ x \in Orders
  BY RankedIsFinite DEF Orders, Sums
<1>2. IsFiniteSet(A) /\ Cardinality(A) \in Nat /\ Cardinality(A) <= Cardinality(S)
  /\ Cardinality(S) \in Nat
  BY <1>1, SubsetCardinality
<1>3. NthRow(rows, x) # {}
  BY <1>1, <1>2, NthRowExists
<1>4. \A k \in S : rows[k] \in Row /\ rows[k][x] \in Nat
  BY <1>1, RowFields DEF Table, Fields
<1>5. ASSUME NEW j \in S, Cardinality({i \in S : Beats(rows[i], rows[j], x)}) < topN
      PROVE  rows[j][x] >= v
  <2>1. SUFFICES ASSUME rows[j][x] < v PROVE FALSE
    BY <1>4
  <2>2. A \in SUBSET {i \in S : Beats(rows[i], rows[j], x)}
    BY <1>1, <1>4, <2>1 DEF Beats
  <2>3. IsFiniteSet({i \in S : Beats(rows[i], rows[j], x)})
    BY <1>1, SubsetCardinality
  <2> QED BY <1>2, <1>5, <2>2, <2>3, SubsetCardinality
<1> QED BY <1>3, <1>4, <1>5 DEF NthRow


\* Every line of `rows` is one of `whole`.
Within(rows, whole) ==
  \A k \in Keys : rows[k].codes \subseteq whole[k].codes
                  /\ \A x \in Fields : rows[k][x] <= whole[k][x]

LEMMA WithinPresent ==
  ASSUME NEW rows \in Table, NEW whole \in Table, Within(rows, whole)
  PROVE  Present(rows) \in SUBSET Present(whole)
<1>1. \A k \in Keys : /\ rows[k].hits \in Nat /\ whole[k].hits \in Nat
                      /\ rows[k].hits <= whole[k].hits
  <2>1. ASSUME NEW k \in Keys
        PROVE  rows[k].hits \in Nat /\ whole[k].hits \in Nat /\ rows[k]["hits"] <= whole[k]["hits"]
    BY RowFields DEF Table, Within, Fields, Sums
  <2> QED BY <2>1
<1> QED BY <1>1 DEF Present

LEMMA NthSumIsNat ==
  ASSUME NEW rows \in Table, NEW x \in Sums
  PROVE  NthSum(rows, x) \in Nat
<1>1. \A n \in NthRow(rows, x) : n[x] \in Nat
  <2>1. \A k \in Ranked(rows, x) : rows[k] \in Row
    BY RankedIsFinite DEF Table
  <2> QED BY <2>1, RowFields DEF NthRow, Fields
<1> QED BY <1>1 DEF NthSum

\* N keys with at least v make the N-th sum at least v.
LEMMA NthSumBound ==
  ASSUME NEW rows \in Table, NEW x \in Sums, topN \in Nat \ {0}, NEW v \in Nat,
         NEW A \in SUBSET Present(rows), Cardinality(A) >= topN, \A i \in A : rows[i][x] >= v
  PROVE  v <= NthSum(rows, x)
<1>1. NthRow(rows, x) # {} /\ \A n \in NthRow(rows, x) : n[x] \in Nat /\ n[x] >= v
  BY NthRowBound
<1> QED BY <1>1 DEF NthSum

\* N keys have at least as much as this one.
Outranked(rows, k, x) ==
  \E A \in SUBSET Present(rows) : Cardinality(A) >= topN /\ \A i \in A : rows[i][x] >= rows[k][x]

LEMMA OutrankedIsSmall ==
  ASSUME NEW rows \in Table, NEW whole \in Table, Within(rows, whole),
         NEW x \in Sums, NEW k \in Keys, topN \in Nat \ {0}, Outranked(rows, k, x)
  PROVE  rows[k][x] <= NthSum(whole, x)
<1>1. PICK A \in SUBSET Present(rows) : Cardinality(A) >= topN /\ \A i \in A : rows[i][x] >= rows[k][x]
  BY DEF Outranked
<1>2. A \in SUBSET Present(whole) /\ A \in SUBSET Keys
  BY WithinPresent, RankedIsFinite
<1>3. \A i \in Keys : /\ rows[i][x] \in Nat /\ whole[i][x] \in Nat
                      /\ rows[i][x] <= whole[i][x]
  BY RowFields DEF Table, Within, Fields
<1>4. \A i \in A : whole[i][x] >= rows[k][x]
  BY <1>1, <1>2, <1>3
<1> QED BY <1>1, <1>2, <1>3, <1>4, NthSumBound

\* The N-th row has N rows that are no worse.
LEMMA NthRowIsOutranked ==
  ASSUME NEW rows \in Table, NEW x \in Sums, NEW n \in NthRow(rows, x)
  PROVE  \E j \in Present(rows) : n = rows[j] /\ Outranked(rows, j, x)
<1>1. PICK j \in Ranked(rows, x) :
        /\ n = rows[j]
        /\ Cardinality({i \in Ranked(rows, x) : ~Beats(rows[j], rows[i], x)}) >= topN
  BY DEF NthRow
<1>2. Ranked(rows, x) = Present(rows) /\ Present(rows) \in SUBSET Keys /\ x # "rt"
  BY RankedIsFinite DEF Sums
<1>3. \A i \in Keys : rows[i][x] \in Nat
  BY RowFields DEF Table, Fields
<1>4. \A i \in {i \in Ranked(rows, x) : ~Beats(rows[j], rows[i], x)} : rows[i][x] >= rows[j][x]
  BY <1>1, <1>2, <1>3 DEF Beats
<1>5. Outranked(rows, j, x)
  BY <1>1, <1>2, <1>4 DEF Outranked
<1> QED BY <1>1, <1>2, <1>5

LEMMA NthSumGrows ==
  ASSUME NEW rows \in Table, NEW whole \in Table, Within(rows, whole),
         NEW x \in Sums, topN \in Nat \ {0}
  PROVE  /\ NthSum(rows, x) <= NthSum(whole, x)
         /\ \A n \in NthRow(rows, x) : n[x] \in Nat /\ n[x] <= NthSum(whole, x)
<1>1. ASSUME NEW n \in NthRow(rows, x) PROVE n[x] \in Nat /\ n[x] <= NthSum(whole, x)
  <2>1. PICK j \in Present(rows) : n = rows[j] /\ Outranked(rows, j, x)
    BY NthRowIsOutranked
  <2>2. j \in Keys /\ rows[j][x] \in Nat
    BY RankedIsFinite, RowFields DEF Table, Fields
  <2> QED BY <2>1, <2>2, OutrankedIsSmall
<1>2. NthSum(whole, x) \in Nat
  BY NthSumIsNat
<1> QED BY <1>1, <1>2 DEF NthSum


-----------------------------------------------------------------------------
(* Trimming and culling. *)

LEMMA TopByFacts ==
  ASSUME NEW rows, NEW x, NEW n \in Nat, NEW S \in TopBy(rows, x, n)
  PROVE  /\ S \in SUBSET Ranked(rows, x) /\ IsFiniteSet(S)
         /\ Cardinality(S) \in Nat /\ Cardinality(S) <= n
         /\ \A k \in Ranked(rows, x) \ S :
              Cardinality(S) = n /\ \A j \in S : ~Beats(rows[k], rows[j], x)
<1>1. /\ S \in SUBSET Ranked(rows, x)
      /\ Cardinality(S) = IF n < Cardinality(Ranked(rows, x)) THEN n
                                                              ELSE Cardinality(Ranked(rows, x))
      /\ \A k \in S : \A j \in Ranked(rows, x) \ S : ~Beats(rows[j], rows[k], x)
  BY DEF TopBy
<1>2. IsFiniteSet(Ranked(rows, x)) /\ Cardinality(Ranked(rows, x)) \in Nat
  BY RankedIsFinite
<1>3. ASSUME NEW k \in Ranked(rows, x) \ S PROVE Cardinality(S) < Cardinality(Ranked(rows, x))
  BY <1>1, <1>2, SmallerSubset
<1> QED BY <1>1, <1>2, <1>3, SubsetCardinality

LEMMA TopUnionsParts ==
  ASSUME NEW rows, NEW metrics, NEW n, NEW U \in TopUnions(rows, metrics, n)
  PROVE  \E S \in TopIfMetric(rows, metrics, n, "hits") :
         \E T \in TopIfMetric(rows, metrics, n, "bandwidth") :
         \E V \in TopIfMetric(rows, metrics, n, "rt") : U = S \cup T \cup V
BY DEF TopUnions

LEMMA PartSize ==
  ASSUME NEW rows, NEW metrics, NEW n \in Nat, NEW x, NEW S \in TopIfMetric(rows, metrics, n, x)
  PROVE  /\ S \in SUBSET Present(rows) /\ IsFiniteSet(S) /\ Cardinality(S) \in Nat
         /\ Cardinality(S) <= IF x \in metrics THEN n ELSE 0
<1>1. CASE x \in metrics
  BY <1>1, TopByFacts, RankedIsFinite DEF TopIfMetric
<1>2. CASE x \notin metrics
  <2>1. S = {}
    BY <1>2 DEF TopIfMetric
  <2> QED BY <1>2, <2>1, FS_EmptySet
<1> QED BY <1>1, <1>2

LEMMA UnionSize ==
  ASSUME NEW S, NEW T, IsFiniteSet(S), IsFiniteSet(T)
  PROVE  /\ IsFiniteSet(S \cup T) /\ Cardinality(S \cup T) \in Nat
         /\ Cardinality(S \cup T) <= Cardinality(S) + Cardinality(T)
<1>1. S \cap T \in SUBSET S
  OBVIOUS
<1>2. Cardinality(S \cap T) \in Nat /\ Cardinality(S) \in Nat /\ Cardinality(T) \in Nat
  BY <1>1, SubsetCardinality, FS_CardinalityType
<1>3. /\ IsFiniteSet(S \cup T)
      /\ Cardinality(S \cup T) = Cardinality(S) + Cardinality(T) - Cardinality(S \cap T)
  BY FS_Union
<1>4. Cardinality(S \cup T) \in Nat
  BY <1>3, FS_CardinalityType
<1> QED BY <1>2, <1>3, <1>4

LEMMA MetricsCount ==
  ASSUME NEW t \in AllKinds
  PROVE  Cardinality(Metrics(t)) = (IF "hits" \in Metrics(t) THEN 1 ELSE 0)
           + (IF "bandwidth" \in Metrics(t) THEN 1 ELSE 0) + (IF "rt" \in Metrics(t) THEN 1 ELSE 0)
<1>1. IsFiniteSet({"hits"}) /\ Cardinality({"hits"}) = 1
  BY FS_Singleton
<1>2. IsFiniteSet(Sums) /\ Cardinality(Sums) = 2
  <2>1. Sums = {"hits"} \cup {"bandwidth"}
    BY DEF Sums
  <2>2. Cardinality({"hits"} \cup {"bandwidth"}) = 2 /\ IsFiniteSet({"hits"} \cup {"bandwidth"})
    <3>1. "bandwidth" \notin {"hits"}
      OBVIOUS
    <3> QED BY <1>1, <3>1, FS_AddElement
  <2> QED BY <2>1, <2>2
<1>3. Cardinality(Sums \cup {"rt"}) = 3
  <2>1. "rt" \notin Sums
    BY DEF Sums
  <2> QED BY <1>2, <2>1, FS_AddElement
<1>4. Cardinality({}) = 0
  BY FS_EmptySet
<1>5. CASE t \in {"urls", "bucket_urls"}
  BY <1>3, <1>5 DEF Metrics, Sums
<1>6. CASE t \in {"error_urls", "ips", "agents"}
  BY <1>2, <1>6 DEF Metrics, Sums
<1>7. CASE t = "referrers"
  BY <1>1, <1>7 DEF Metrics
<1>8. CASE t = "countries"
  BY <1>4, <1>8 DEF Metrics
<1> QED BY <1>5, <1>6, <1>7, <1>8 DEF AllKinds

LEMMA TopUnionsSize ==
  ASSUME NEW rows, NEW t \in AllKinds, NEW n \in Nat, NEW U \in TopUnions(rows, Metrics(t), n)
  PROVE  /\ U \in SUBSET Present(rows)
         /\ IsFiniteSet(U) /\ Cardinality(U) \in Nat
         /\ Cardinality(U) <= Cardinality(Metrics(t)) * n
<1> DEFINE M == Metrics(t)
<1>1. PICK S \in TopIfMetric(rows, M, n, "hits"), T \in TopIfMetric(rows, M, n, "bandwidth"),
           V \in TopIfMetric(rows, M, n, "rt") : U = S \cup T \cup V
  BY TopUnionsParts
<1>2. /\ S \in SUBSET Present(rows) /\ IsFiniteSet(S) /\ Cardinality(S) \in Nat
      /\ Cardinality(S) <= IF "hits" \in M THEN n ELSE 0
  BY PartSize
<1>3. /\ T \in SUBSET Present(rows) /\ IsFiniteSet(T) /\ Cardinality(T) \in Nat
      /\ Cardinality(T) <= IF "bandwidth" \in M THEN n ELSE 0
  BY PartSize
<1>4. /\ V \in SUBSET Present(rows) /\ IsFiniteSet(V) /\ Cardinality(V) \in Nat
      /\ Cardinality(V) <= IF "rt" \in M THEN n ELSE 0
  BY PartSize
<1>5. /\ IsFiniteSet(S \cup T) /\ Cardinality(S \cup T) \in Nat
      /\ Cardinality(S \cup T) <= Cardinality(S) + Cardinality(T)
  BY <1>2, <1>3, UnionSize
<1>6. /\ IsFiniteSet(U) /\ Cardinality(U) \in Nat
      /\ Cardinality(U) <= Cardinality(S) + Cardinality(T) + Cardinality(V)
  BY <1>1, <1>2, <1>3, <1>4, <1>5, UnionSize
<1>7. Cardinality(U) <= (IF "hits" \in M THEN n ELSE 0) + (IF "bandwidth" \in M THEN n ELSE 0)
                          + (IF "rt" \in M THEN n ELSE 0)
  BY <1>2, <1>3, <1>4, <1>6
<1>8. (IF "hits" \in M THEN n ELSE 0) + (IF "bandwidth" \in M THEN n ELSE 0)
        + (IF "rt" \in M THEN n ELSE 0) = Cardinality(M) * n
  <2> DEFINE a == IF "hits" \in M THEN 1 ELSE 0
             b == IF "bandwidth" \in M THEN 1 ELSE 0
             c == IF "rt" \in M THEN 1 ELSE 0
  <2>1. Cardinality(M) = a + b + c
    BY MetricsCount
  <2>2. a \in {0, 1} /\ b \in {0, 1} /\ c \in {0, 1}
    OBVIOUS
  <2>3. (a + b + c) * n = a * n + b * n + c * n
    BY <2>2, SMT
  <2>4. /\ (IF "hits" \in M THEN n ELSE 0) = a * n
        /\ (IF "bandwidth" \in M THEN n ELSE 0) = b * n
        /\ (IF "rt" \in M THEN n ELSE 0) = c * n
    OBVIOUS
  <2> QED BY <2>1, <2>3, <2>4
<1> QED BY <1>1, <1>2, <1>3, <1>4, <1>6, <1>7, <1>8

\* A union has the best rows of each of its columns.
LEMMA TopUnionsHasTop ==
  ASSUME NEW rows, NEW metrics, NEW n, NEW U \in TopUnions(rows, metrics, n),
         NEW x \in metrics \cap Orders
  PROVE  \E S \in TopBy(rows, x, n) : S \subseteq U
<1>1. PICK S \in TopIfMetric(rows, metrics, n, "hits"), T \in TopIfMetric(rows, metrics, n, "bandwidth"),
           V \in TopIfMetric(rows, metrics, n, "rt") : U = S \cup T \cup V
  BY TopUnionsParts
<1>2. x \in {"hits", "bandwidth", "rt"}
  BY DEF Orders, Sums
<1> QED BY <1>1, <1>2 DEF TopIfMetric

\* A row that was trimmed is outranked in every sum.
LEMMA TrimmedIsOutranked ==
  ASSUME NEW rows \in Table, NEW metrics, topN \in Nat,
         NEW U \in TopUnions(rows, metrics, topN), NEW k \in Present(rows) \ U,
         NEW x \in metrics \cap Sums
  PROVE  Outranked(rows, k, x)
<1>1. PICK S \in TopBy(rows, x, topN) : S \subseteq U
  BY TopUnionsHasTop DEF Orders
<1>2. k \in Ranked(rows, x) \ S /\ Ranked(rows, x) = Present(rows) /\ Present(rows) \in SUBSET Keys
  BY <1>1, RankedIsFinite
<1>3. /\ S \in SUBSET Present(rows) /\ Cardinality(S) = topN
      /\ \A j \in S : ~Beats(rows[k], rows[j], x)
  BY <1>2, TopByFacts
<1>4. \A j \in Keys : rows[j][x] \in Nat
  BY RowFields DEF Table, Fields
<1>5. \A j \in S : rows[j][x] >= rows[k][x]
  BY <1>2, <1>3, <1>4 DEF Beats, Sums
<1> QED BY <1>3, <1>5 DEF Outranked

LEMMA TrimFacts ==
  ASSUME NEW rows \in Table, kind \in AllKinds, topN \in Nat, NEW left \in Trim(rows, topN)
  PROVE  /\ left \in Table
         /\ \A k \in Keys :
              \/ left[k] = rows[k]
              \/ /\ left[k] = NoRow /\ k \in Present(rows) /\ Metrics(kind) # {}
                 /\ \A x \in Metrics(kind) \cap Sums : Outranked(rows, k, x)
         /\ Metrics(kind) # {} => Cardinality(Present(left)) <= Cardinality(Metrics(kind)) * topN
<1>1. CASE Metrics(kind) = {}
  BY <1>1 DEF Trim
<1>2. CASE Metrics(kind) # {}
  <2>1. PICK U \in TopUnions(rows, Metrics(kind), topN) : left = Kept(rows, U)
    BY <1>2 DEF Trim
  <2>2. /\ left \in Table
        /\ \A k \in Keys : left[k] = IF k \in U THEN rows[k] ELSE NoRow
        /\ Present(left) = Present(rows) \cap U
    BY <2>1, KeptIsTable
  <2>3. \A k \in Keys : k \notin Present(rows) => rows[k] = NoRow
    BY RowFields DEF Present, Table
  <2>4. \A k \in Present(rows) \ U : \A x \in Metrics(kind) \cap Sums : Outranked(rows, k, x)
    BY TrimmedIsOutranked
  <2>5. /\ U \in SUBSET Present(rows)
        /\ Cardinality(U) <= Cardinality(Metrics(kind)) * topN
    BY TopUnionsSize
  <2>6. Present(left) = U
    BY <2>2, <2>5
  <2> QED BY <1>2, <2>2, <2>3, <2>4, <2>5, <2>6
<1> QED BY <1>1, <1>2


LEMMA PretrimFacts ==
  ASSUME acc \in Table, kind \in AllKinds, topN \in Nat, NEW left \in Pretrim
  PROVE  /\ left \in Table
         /\ \A k \in Keys :
              \/ left[k] = acc[k]
              \/ /\ left[k] = NoRow /\ topN > 0
                 /\ \A x \in Metrics(kind) \cap Sums : Outranked(acc, k, x)
<1>1. CASE topN = 0 \/ Cardinality(Present(acc)) <= topN
  BY <1>1 DEF Pretrim
<1>2. CASE ~ (topN = 0 \/ Cardinality(Present(acc)) <= topN)
  <2>1. left \in Trim(acc, topN) /\ topN > 0
    BY <1>2 DEF Pretrim
  <2> QED BY <2>1, TrimFacts
<1> QED BY <1>1, <1>2

LEMMA FinalTrimFacts ==
  ASSUME NEW rows \in Table, kind \in AllKinds, topN \in Nat, NEW left \in FinalTrim(rows)
  PROVE  /\ left \in Table
         /\ \A k \in Keys :
              \/ left[k] = rows[k]
              \/ /\ left[k] = NoRow
                 /\ topN = 0 => kind = "referrers"
                 /\ topN > 0 => \A x \in Metrics(kind) \cap Sums : Outranked(rows, k, x)
         /\ topN > 0 /\ Metrics(kind) # {} =>
              Cardinality(Present(left)) <= Cardinality(Metrics(kind)) * topN
<1>1. CASE topN = 0 /\ kind # "referrers"
  BY <1>1 DEF FinalTrim
<1>2. CASE ~ (topN = 0 /\ kind # "referrers")
  <2>1. left \in Trim(rows, topN)
    BY <1>2 DEF FinalTrim
  <2> QED BY <1>2, <2>1, TrimFacts
<1> QED BY <1>1, <1>2

\* A row that is culled is small beside the N-th by every sum.
LEMMA CullFacts ==
  ASSUME NEW rows \in Table, kind \in AllKinds, topN \in Nat
  PROVE  /\ CullPeriod(rows) \in Table
         /\ \A k \in Keys :
              \/ CullPeriod(rows)[k] = rows[k]
              \/ /\ CullPeriod(rows)[k] = NoRow /\ topN > 0 /\ k \in Culls(rows)
                 /\ \A x \in Metrics(kind) \cap Sums :
                      \E n \in NthRow(rows, x) : CullFraction * rows[k][x] <= n[x] /\ rows[k][x] < n[x]
<1>1. CASE topN = 0 \/ Metrics(kind) = {} \/ RowCount(rows) <= topN * CullFactor
  BY <1>1 DEF CullPeriod
<1>2. CASE ~ (topN = 0 \/ Metrics(kind) = {} \/ RowCount(rows) <= topN * CullFactor)
  <2>1. CullPeriod(rows) = Kept(rows, Keys \ Culls(rows)) /\ topN > 0
    BY <1>2 DEF CullPeriod
  <2>2. ASSUME NEW k \in Culls(rows), NEW x \in Metrics(kind) \cap Sums
        PROVE  \E n \in NthRow(rows, x) : CullFraction * rows[k][x] <= n[x] /\ rows[k][x] < n[x]
    <3>1. k \in Keys
      BY RankedIsFinite DEF Culls
    <3>2. PICK n \in NthRow(rows, x) : rows[k][x] < n[x] \div CullFraction
      BY <2>2 DEF Culls, SumBelow
    <3>3. PICK j \in Present(rows) : n = rows[j]
      BY NthRowIsOutranked
    <3>4. rows[k][x] \in Nat /\ n[x] \in Nat
      BY <3>1, <3>3, RankedIsFinite, RowFields DEF Table, Fields
    <3>5. CullFraction \in Nat \ {0}
      BY TopTablesAssumption
    <3> QED BY <3>2, <3>4, <3>5, BelowAFraction
  <2> QED BY <2>1, <2>2, KeptIsTable
<1> QED BY <1>1, <1>2

-----------------------------------------------------------------------------
(* The steps. *)

\* The variables hold values of their types.
Typed ==
  /\ kind \in Kinds /\ topN \in TopNs /\ month \in Months
  /\ acc \in Table /\ culls \in [Months -> Nat]
  /\ table \in [Months -> Table] /\ truth \in [Months -> Table]

LEMMA TypedConstants == Typed => kind \in AllKinds /\ topN \in Nat
BY TopTablesAssumption DEF Typed

\* Of a key a month has what its lines add up to, or less.
LeftOf(m) == [k \in Keys |-> Have(m, k)]

LEMMA LeftOfIsTable ==
  ASSUME Typed, NEW m \in Months
  PROVE  LeftOf(m) \in Table /\ \A k \in Keys : LeftOf(m)[k] = Have(m, k) /\ Have(m, k) \in Row
<1>1. \A k \in Keys : table[m][k] \in Row /\ acc[k] \in Row /\ NoRow \in Row
  BY NoRowIsRow DEF Typed, Table
<1>2. \A k \in Keys : Have(m, k) \in Row
  BY <1>1, PlusIsRow DEF Have
<1> QED BY <1>2 DEF LeftOf, Table

SizesBounded ==
  \A m \in 1..(month - 1) :
    topN > 0 /\ Metrics(kind) # {} => Cardinality(Present(table[m])) <= Cardinality(Metrics(kind)) * topN

AllWithin == \A m \in Months : Within(LeftOf(m), truth[m])

LEMMA TypeOKParts == TypeOK <=> Typed /\ SizesBounded /\ AllWithin
<1>1. TypeOK => Typed
  BY DEF TypeOK, Typed, Table
<1>2. SUFFICES ASSUME Typed
               PROVE  TypeOK <=> SizesBounded /\ AllWithin
  BY <1>1
<1>3. ASSUME NEW m \in Months, NEW k \in Keys
      PROVE  /\ LeftOf(m)[k] = Have(m, k)
             /\ \A x \in Fields : /\ Have(m, k)[x] \in Nat /\ truth[m][k][x] \in Nat
  <2>1. Have(m, k) \in Row /\ LeftOf(m)[k] = Have(m, k) /\ truth[m][k] \in Row
    BY <1>2, LeftOfIsTable DEF Typed, Table
  <2> QED BY <2>1, RowFields
<1>4. ASSUME NEW m \in Months
      PROVE  Within(LeftOf(m), truth[m])
        <=> \A k \in Keys : /\ \A x \in Fields : Have(m, k)[x] \in 0..truth[m][k][x]
                            /\ Have(m, k).codes \subseteq truth[m][k].codes
  BY <1>3 DEF Within
<1>5. {table, truth} \subseteq [Months -> [Keys -> Row]] /\ acc \in [Keys -> Row]
  BY <1>2 DEF Typed, Table
<1> QED BY <1>2, <1>4, <1>5 DEF TypeOK, Typed, SizesBounded, AllWithin, Fields


LEMMA HaveIsSum ==
  ASSUME Typed, NEW m \in Months, NEW k \in Keys
  PROVE  /\ table[m][k] \in Row /\ acc[k] \in Row /\ truth[m][k] \in Row /\ Have(m, k) \in Row
         /\ m = month => Have(m, k) = Plus(table[m][k], acc[k])
         /\ m # month => Have(m, k) = table[m][k]
         /\ \A x \in Fields : /\ table[m][k][x] \in Nat /\ acc[k][x] \in Nat
                              /\ truth[m][k][x] \in Nat /\ Have(m, k)[x] \in Nat
                              /\ m = month => Have(m, k)[x] = table[m][k][x] + acc[k][x]
<1>1. table[m][k] \in Row /\ acc[k] \in Row /\ truth[m][k] \in Row
  BY DEF Typed, Table
<1>2. Have(m, k) \in Row /\ (m = month => Have(m, k) = Plus(table[m][k], acc[k]))
  BY <1>1, LeftOfIsTable DEF Have
<1>3. m # month => Have(m, k) = table[m][k]
  BY <1>1, PlusNoRow DEF Have
<1>4. \A x \in Fields : m = month => Have(m, k)[x] = table[m][k][x] + acc[k][x]
  BY <1>1, <1>2, PlusIsRow
<1> QED BY <1>1, <1>2, <1>3, <1>4, RowFields

LEMMA PlusAssociates ==
  ASSUME NEW r \in Row, NEW s \in Row, NEW t \in Row
  PROVE  Plus(r, Plus(s, t)) = Plus(Plus(r, s), t)
<1>1. ASSUME NEW x \in Fields PROVE r[x] + (s[x] + t[x]) = (r[x] + s[x]) + t[x]
  BY RowFields
<1>2. /\ r.hits + (s.hits + t.hits) = (r.hits + s.hits) + t.hits
      /\ r.bandwidth + (s.bandwidth + t.bandwidth) = (r.bandwidth + s.bandwidth) + t.bandwidth
      /\ r.rtSum + (s.rtSum + t.rtSum) = (r.rtSum + s.rtSum) + t.rtSum
      /\ r.rtCount + (s.rtCount + t.rtCount) = (r.rtCount + s.rtCount) + t.rtCount
  BY <1>1 DEF Fields, Sums
<1>3. r.codes \cup (s.codes \cup t.codes) = (r.codes \cup s.codes) \cup t.codes
  OBVIOUS
<1>4. Plus(r, Plus(s, t)) =
        [hits |-> r.hits + (s.hits + t.hits),
         bandwidth |-> r.bandwidth + (s.bandwidth + t.bandwidth),
         rtSum |-> r.rtSum + (s.rtSum + t.rtSum), rtCount |-> r.rtCount + (s.rtCount + t.rtCount),
         codes |-> r.codes \cup (s.codes \cup t.codes)]
  BY Zenon DEF Plus
<1>5. Plus(Plus(r, s), t) =
        [hits |-> (r.hits + s.hits) + t.hits,
         bandwidth |-> (r.bandwidth + s.bandwidth) + t.bandwidth,
         rtSum |-> (r.rtSum + s.rtSum) + t.rtSum, rtCount |-> (r.rtCount + s.rtCount) + t.rtCount,
         codes |-> (r.codes \cup s.codes) \cup t.codes]
  BY Zenon DEF Plus
<1> QED BY <1>2, <1>3, <1>4, <1>5, Zenon

LEMMA RecordStep ==
  ASSUME Typed, NEW k \in Keys, NEW line \in Lines[kind], Record(k, line)
  PROVE  /\ Typed' /\ line \in Row /\ month' = month /\ kind' = kind /\ topN' = topN
         /\ table' = table /\ culls' = culls
         /\ \A m \in Months, j \in Keys :
              IF m = month /\ j = k
              THEN Have(m, j)' = Plus(Have(m, j), line) /\ truth'[m][j] = Plus(truth[m][j], line)
              ELSE Have(m, j)' = Have(m, j) /\ truth'[m][j] = truth[m][j]
<1>1. line \in Row
  BY TopTablesAssumption DEF Typed
<1>2. /\ acc' = [acc EXCEPT ![k] = Plus(@, line)]
      /\ truth' = [truth EXCEPT ![month][k] = Plus(@, line)]
      /\ month' = month /\ kind' = kind /\ topN' = topN /\ table' = table /\ culls' = culls
  BY DEF Record
<1>3. Plus(acc[k], line) \in Row /\ Plus(truth[month][k], line) \in Row
  <2>1. month \in Months
    BY DEF Typed
  <2> QED BY <1>1, <2>1, HaveIsSum, PlusIsRow
<1>4. acc' \in Table /\ truth' \in [Months -> Table]
  BY <1>2, <1>3 DEF Typed, Table
<1>5. Typed'
  BY <1>2, <1>4 DEF Typed
<1>6. ASSUME NEW m \in Months, NEW j \in Keys
      PROVE  IF m = month /\ j = k
             THEN Have(m, j)' = Plus(Have(m, j), line) /\ truth'[m][j] = Plus(truth[m][j], line)
             ELSE Have(m, j)' = Have(m, j) /\ truth'[m][j] = truth[m][j]
  <2>1. CASE m = month /\ j = k
    <3>1. acc'[j] = Plus(acc[j], line) /\ truth'[m][j] = Plus(truth[m][j], line)
      BY <1>2, <2>1 DEF Typed, Table
    <3>2. Have(m, j)' = Plus(table[m][j], Plus(acc[j], line))
      BY <1>2, <2>1, <3>1 DEF Have
    <3>3. Have(m, j) = Plus(table[m][j], acc[j]) /\ table[m][j] \in Row /\ acc[j] \in Row
      BY <2>1, HaveIsSum
    <3> QED BY <1>1, <2>1, <3>1, <3>2, <3>3, PlusAssociates
  <2>2. CASE ~ (m = month /\ j = k)
    <3>1. (m = month => acc'[j] = acc[j]) /\ truth'[m][j] = truth[m][j]
      BY <1>2, <2>2 DEF Typed, Table
    <3>2. Have(m, j)' = Have(m, j)
      BY <1>2, <3>1 DEF Have
    <3> QED BY <2>2, <3>1, <3>2
  <2> QED BY <2>1, <2>2
<1> QED BY <1>1, <1>2, <1>5, <1>6

\* The rows of the current month with what was accumulated.
LEMMA MergedIsLeft ==
  ASSUME Typed
  PROVE  Merged(table[month], acc) = LeftOf(month) /\ LeftOf(month) \in Table
<1>1. month \in Months
  BY DEF Typed
<1> QED BY <1>1, LeftOfIsTable DEF Merged, LeftOf, Have

LEMMA CheckpointStep ==
  ASSUME Typed, \A m \in Months : Within(LeftOf(m), truth[m]), Checkpoint
  PROVE  /\ Typed' /\ month' = month /\ kind' = kind /\ topN' = topN /\ truth' = truth
         /\ culls' = [culls EXCEPT ![month] = @ + 1]
         /\ table' = [table EXCEPT ![month] = CullPeriod(LeftOf(month))]
         /\ \A m \in Months, k \in Keys :
              \/ Have(m, k)' = Have(m, k)
              \/ /\ m = month /\ Have(m, k)' = NoRow /\ topN > 0
                 /\ \A x \in Metrics(kind) \cap Sums :
                      CullFraction * Have(m, k)[x] <= NthSum(truth[m], x)
<1>1. /\ table' = [table EXCEPT ![month] = CullPeriod(LeftOf(month))]
      /\ acc' = NoRows /\ culls' = [culls EXCEPT ![month] = @ + 1]
      /\ month' = month /\ kind' = kind /\ topN' = topN /\ truth' = truth
  BY MergedIsLeft DEF Checkpoint
<1>2. LeftOf(month) \in Table /\ month \in Months /\ kind \in AllKinds /\ topN \in Nat
      /\ Within(LeftOf(month), truth[month]) /\ truth[month] \in Table
  BY MergedIsLeft, TypedConstants DEF Typed
<1>3. CullPeriod(LeftOf(month)) \in Table
  BY <1>2, CullFacts
<1>4. Typed'
  BY <1>1, <1>2, <1>3, NoRowIsRow DEF Typed
<1>5. ASSUME NEW m \in Months, NEW k \in Keys
      PROVE  \/ Have(m, k)' = Have(m, k)
             \/ /\ m = month /\ Have(m, k)' = NoRow /\ topN > 0
                /\ \A x \in Metrics(kind) \cap Sums :
                     CullFraction * Have(m, k)[x] <= NthSum(truth[m], x)
  <2>1. Have(m, k)' = table'[m][k]
    <3>1. table'[m][k] \in Row /\ acc'[k] = NoRow
      BY <1>1, <1>4 DEF Typed, Table, NoRows
    <3> QED BY <1>1, <3>1, PlusNoRow DEF Have
  <2>2. CASE m # month
    BY <1>1, <2>1, <2>2, HaveIsSum DEF Typed
  <2>3. CASE m = month
    <3>1. Have(m, k)' = CullPeriod(LeftOf(m))[k] /\ LeftOf(m)[k] = Have(m, k)
      BY <1>1, <2>1, <2>3, LeftOfIsTable DEF Typed
    <3>2. \/ CullPeriod(LeftOf(m))[k] = LeftOf(m)[k]
          \/ /\ CullPeriod(LeftOf(m))[k] = NoRow /\ topN > 0
             /\ \A x \in Metrics(kind) \cap Sums :
                  \E n \in NthRow(LeftOf(m), x) : CullFraction * LeftOf(m)[k][x] <= n[x]
      BY <1>2, <2>3, CullFacts
    <3>3. ASSUME topN > 0, NEW x \in Metrics(kind) \cap Sums, NEW n \in NthRow(LeftOf(m), x),
                 CullFraction * LeftOf(m)[k][x] <= n[x]
          PROVE  CullFraction * Have(m, k)[x] <= NthSum(truth[m], x)
      <4>1. n[x] \in Nat /\ n[x] <= NthSum(truth[m], x)
        BY <1>2, <2>3, <3>3, NthSumGrows
      <4>2. Have(m, k)[x] \in Nat /\ CullFraction \in Nat /\ NthSum(truth[m], x) \in Nat
        BY <1>2, <2>3, HaveIsSum, NthSumIsNat, TopTablesAssumption DEF Fields
      <4>3. CullFraction * Have(m, k)[x] \in Nat
        BY <4>2
      <4>4. CullFraction * Have(m, k)[x] <= n[x]
        BY <3>1, <3>3
      <4> QED BY <4>1, <4>2, <4>3, <4>4
    <3> QED BY <2>3, <3>1, <3>2, <3>3
  <2> QED BY <2>2, <2>3
<1> QED BY <1>1, <1>4, <1>5


LEMMA FinalizeStep ==
  ASSUME Typed, \A m \in Months : Within(LeftOf(m), truth[m]), FinalizeAndAdvanceMonth
  PROVE  /\ Typed' /\ month' = month + 1 /\ kind' = kind /\ topN' = topN /\ truth' = truth
         /\ culls' = culls
         /\ \A m \in Months : m # month => table'[m] = table[m]
         /\ topN > 0 /\ Metrics(kind) # {} =>
              Cardinality(Present(table'[month])) <= Cardinality(Metrics(kind)) * topN
         /\ \A m \in Months, k \in Keys :
              \/ Have(m, k)' = Have(m, k)
              \/ /\ m = month
                 /\ topN = 0 => kind = "referrers"
                 /\ Have(m, k)' \in {NoRow, table[m][k]}
                 /\ topN > 0 => \A x \in Metrics(kind) \cap Sums :
                      Have(m, k)[x] <= (Have(m, k)')[x] + 2 * NthSum(truth[m], x)
<1>0. PICK added \in Pretrim : \E rows \in FinalTrim(Merged(table[month], added)) :
        table' = [table EXCEPT ![month] = rows]
  BY DEF FinalizeAndAdvanceMonth
<1>1. PICK rows \in FinalTrim(Merged(table[month], added)) :
        table' = [table EXCEPT ![month] = rows]
  BY <1>0
<1>2. /\ month' = month + 1 /\ acc' = NoRows /\ month < LastMonth
      /\ kind' = kind /\ topN' = topN /\ truth' = truth /\ culls' = culls
  BY DEF FinalizeAndAdvanceMonth
<1>3. /\ month \in Months /\ month + 1 \in Months /\ month \in Nat /\ kind \in AllKinds
      /\ topN \in Nat /\ acc \in Table /\ table[month] \in Table /\ truth[month] \in Table
  BY <1>2, TypedConstants, TopTablesAssumption DEF Typed, Months
<1> DEFINE merged == Merged(table[month], added)
<1>4. /\ added \in Table
      /\ \A k \in Keys :
           \/ added[k] = acc[k]
           \/ /\ added[k] = NoRow /\ topN > 0
              /\ \A x \in Metrics(kind) \cap Sums : Outranked(acc, k, x)
  BY <1>3, PretrimFacts
<1>5. merged \in Table /\ \A k \in Keys : merged[k] = Plus(table[month][k], added[k])
  BY <1>3, <1>4, MergedIsTable
<1>6. /\ rows \in Table
      /\ \A k \in Keys :
           \/ rows[k] = merged[k]
           \/ /\ rows[k] = NoRow
              /\ topN = 0 => kind = "referrers"
              /\ topN > 0 => \A x \in Metrics(kind) \cap Sums : Outranked(merged, k, x)
      /\ topN > 0 /\ Metrics(kind) # {} =>
           Cardinality(Present(rows)) <= Cardinality(Metrics(kind)) * topN
  <2> HIDE DEF merged
  <2>1. rows \in FinalTrim(merged)
    BY <1>1 DEF merged
  <2> QED BY <1>3, <1>5, <2>1, FinalTrimFacts
<1>7. Typed'
  BY <1>1, <1>2, <1>3, <1>6, NoRowIsRow DEF Typed
<1>8. \A m \in Months, k \in Keys : Have(m, k)' = table'[m][k]
  <2>1. ASSUME NEW m \in Months, NEW k \in Keys PROVE Have(m, k)' = table'[m][k]
    <3>1. table'[m][k] \in Row /\ acc'[k] = NoRow
      BY <1>2, <1>7 DEF Typed, Table, NoRows
    <3> QED BY <3>1, PlusNoRow DEF Have
  <2> QED BY <2>1
<1>9. \A m \in Months : table'[m] = IF m = month THEN rows ELSE table[m]
  BY <1>1 DEF Typed
<1>10. \A k \in Keys : /\ Have(month, k) = Plus(table[month][k], acc[k])
                       /\ table[month][k] \in Row /\ acc[k] \in Row /\ added[k] \in Row
  BY <1>3, <1>4, HaveIsSum DEF Table
<1>11. \A k \in Keys, x \in Fields :
         /\ table[month][k][x] \in Nat /\ acc[k][x] \in Nat /\ truth[month][k][x] \in Nat
         /\ Have(month, k)[x] = table[month][k][x] + acc[k][x]
         /\ Have(month, k)[x] <= truth[month][k][x]
         /\ added[k][x] \in Nat /\ added[k][x] <= acc[k][x]
         /\ merged[k][x] = table[month][k][x] + added[k][x]
  <2>1. ASSUME NEW k \in Keys, NEW x \in Fields
        PROVE  /\ table[month][k][x] \in Nat /\ acc[k][x] \in Nat /\ truth[month][k][x] \in Nat
               /\ Have(month, k)[x] = table[month][k][x] + acc[k][x]
               /\ Have(month, k)[x] <= truth[month][k][x]
               /\ added[k][x] \in Nat /\ added[k][x] <= acc[k][x]
               /\ merged[k][x] = table[month][k][x] + added[k][x]
    <3>1. /\ table[month][k][x] \in Nat /\ acc[k][x] \in Nat /\ truth[month][k][x] \in Nat
          /\ Have(month, k)[x] = table[month][k][x] + acc[k][x]
      BY <1>3, HaveIsSum
    <3>2. Have(month, k)[x] <= truth[month][k][x]
      BY <1>3, LeftOfIsTable DEF Within
    <3>3. added[k][x] \in Nat /\ added[k][x] <= acc[k][x]
      <4>1. NoRow[x] = 0
        BY NoRowIsRow
      <4> QED BY <1>4, <3>1, <4>1
    <3>4. merged[k][x] = table[month][k][x] + added[k][x]
      BY <1>5, <1>10, PlusIsRow
    <3> QED BY <3>1, <3>2, <3>3, <3>4
  <2> QED BY <2>1
<1>12. \A k \in Keys : /\ acc[k].codes \subseteq truth[month][k].codes
                       /\ merged[k].codes \subseteq truth[month][k].codes
  <2>1. ASSUME NEW k \in Keys
        PROVE  /\ acc[k].codes \subseteq truth[month][k].codes
               /\ merged[k].codes \subseteq truth[month][k].codes
    <3>1. Have(month, k).codes \subseteq truth[month][k].codes
      BY <1>3, LeftOfIsTable DEF Within
    <3>2. Have(month, k).codes = table[month][k].codes \cup acc[k].codes
      BY <1>10, PlusIsRow
    <3>3. merged[k].codes = table[month][k].codes \cup added[k].codes
      BY <1>5, <1>10, PlusIsRow
    <3>4. added[k].codes \subseteq acc[k].codes
      BY <1>4 DEF NoRow
    <3> QED BY <3>1, <3>2, <3>3, <3>4
  <2> QED BY <2>1
<1>13. Within(acc, truth[month]) /\ Within(merged, truth[month])
  <2> HIDE DEF merged
  <2>1. \A k \in Keys, x \in Fields : acc[k][x] <= truth[month][k][x] /\ merged[k][x] <= truth[month][k][x]
    BY <1>11
  <2> QED BY <1>12, <2>1 DEF Within
<1>14. ASSUME NEW k \in Keys, rows[k] # Have(month, k)
       PROVE  /\ topN = 0 => kind = "referrers"
              /\ rows[k] \in {NoRow, table[month][k]}
              /\ topN > 0 => \A x \in Metrics(kind) \cap Sums :
                   Have(month, k)[x] <= rows[k][x] + 2 * NthSum(truth[month], x)
  <2>1. added[k] = NoRow => merged[k] = table[month][k]
    BY <1>5, <1>10, PlusNoRow
  <2>2. added[k] = acc[k] => merged[k] = Have(month, k)
    BY <1>5, <1>10
  <2>3. /\ topN = 0 => kind = "referrers"
        /\ rows[k] \in {NoRow, table[month][k]}
    BY <1>4, <1>6, <1>14, <2>1, <2>2
  <2>4. ASSUME topN > 0, NEW x \in Metrics(kind) \cap Sums
        PROVE  Have(month, k)[x] <= rows[k][x] + 2 * NthSum(truth[month], x)
    <3> DEFINE N == NthSum(truth[month], x)
    <3>1. N \in Nat /\ NoRow[x] = 0 /\ x \in Fields
      BY <1>3, NthSumIsNat, NoRowIsRow DEF Fields
    <3>2. added[k][x] = acc[k][x] \/ (added[k][x] = 0 /\ acc[k][x] <= N)
      <4>1. Outranked(acc, k, x) => acc[k][x] <= N
        BY <1>3, <1>13, <2>4, OutrankedIsSmall
      <4> QED BY <1>4, <3>1, <4>1
    <3>3. rows[k][x] = merged[k][x] \/ (rows[k][x] = 0 /\ merged[k][x] <= N)
      <4>1. Outranked(merged, k, x) => merged[k][x] <= N
        <5> HIDE DEF merged
        <5> QED BY <1>3, <1>5, <1>13, <2>4, OutrankedIsSmall
      <4> QED BY <1>6, <2>4, <3>1, <4>1
    <3> HIDE DEF N, merged
    <3> QED BY <1>11, <3>1, <3>2, <3>3 DEF N
  <2> QED BY <2>3, <2>4
<1>15. \A m \in Months, k \in Keys :
         \/ Have(m, k)' = Have(m, k)
         \/ /\ m = month
            /\ topN = 0 => kind = "referrers"
            /\ Have(m, k)' \in {NoRow, table[m][k]}
            /\ topN > 0 => \A x \in Metrics(kind) \cap Sums :
                 Have(m, k)[x] <= (Have(m, k)')[x] + 2 * NthSum(truth[m], x)
  <2>1. ASSUME NEW m \in Months, NEW k \in Keys, m # month PROVE Have(m, k)' = Have(m, k)
    BY <1>8, <1>9, <2>1, HaveIsSum
  <2>2. ASSUME NEW m \in Months, NEW k \in Keys, m = month
        PROVE  /\ Have(m, k)' = rows[k]
               /\ rows[k] # Have(m, k) =>
                    /\ topN = 0 => kind = "referrers"
                    /\ rows[k] \in {NoRow, table[m][k]}
                    /\ topN > 0 => \A x \in Metrics(kind) \cap Sums :
                         Have(m, k)[x] <= rows[k][x] + 2 * NthSum(truth[m], x)
    <3>1. Have(m, k)' = rows[k]
      BY <1>8, <1>9, <2>2
    <3> QED BY <1>14, <2>2, <3>1
  <2> QED BY <2>1, <2>2
<1> QED BY <1>2, <1>3, <1>6, <1>7, <1>9, <1>15


-----------------------------------------------------------------------------
(* Types. *)

LEMMA TypeOKPartsPrimed ==
  TypeOK' <=> Typed' /\ SizesBounded' /\ AllWithin'
BY TypeOKParts, PTL

LEMMA StepsAreTyped ==
  ASSUME TypeOK, [Next]_vars
  PROVE  TypeOK'
<1>1. Typed /\ SizesBounded /\ \A m \in Months : Within(LeftOf(m), truth[m])
  BY TypeOKParts DEF AllWithin
<1> DEFINE Part(m) == \A k \in Keys : /\ Have(m, k).codes \subseteq truth[m][k].codes
                                      /\ \A x \in Fields : Have(m, k)[x] <= truth[m][k][x]
<1>2. \A m \in Months : Part(m)
  BY <1>1, LeftOfIsTable DEF Within
<1>3. SUFFICES Typed' /\ SizesBounded' /\ \A m \in Months : Part(m)'
  <2>1. TypeOK' <=> Typed' /\ SizesBounded' /\ \A m \in Months : Within(LeftOf(m), truth[m])'
    BY TypeOKPartsPrimed DEF AllWithin
  <2>2. ASSUME Typed', NEW m \in Months, Part(m)' PROVE Within(LeftOf(m), truth[m])'
    BY <2>2, LeftOfIsTable DEF Within, LeftOf
  <2> QED BY <2>1, <2>2
<1>4. ASSUME NEW k \in Keys, NEW line \in Lines[kind], Record(k, line)
      PROVE  Typed' /\ SizesBounded' /\ \A m \in Months : Part(m)'
  <2>1. /\ Typed' /\ line \in Row /\ month' = month /\ kind' = kind /\ topN' = topN /\ table' = table
        /\ \A m \in Months, j \in Keys :
             IF m = month /\ j = k
             THEN Have(m, j)' = Plus(Have(m, j), line) /\ truth'[m][j] = Plus(truth[m][j], line)
             ELSE Have(m, j)' = Have(m, j) /\ truth'[m][j] = truth[m][j]
    BY <1>1, <1>4, RecordStep
  <2>2. ASSUME NEW m \in Months, NEW j \in Keys
        PROVE  /\ (Have(m, j)').codes \subseteq truth'[m][j].codes
               /\ \A x \in Fields : (Have(m, j)')[x] <= truth'[m][j][x]
    <3>1. CASE m = month /\ j = k
      <4>1. Have(m, j)' = Plus(Have(m, j), line) /\ truth'[m][j] = Plus(truth[m][j], line)
        BY <2>1, <3>1
      <4>2. Have(m, j) \in Row /\ truth[m][j] \in Row
        BY <1>1, HaveIsSum
      <4>3. /\ Have(m, j).codes \subseteq truth[m][j].codes
            /\ \A x \in Fields : /\ Have(m, j)[x] <= truth[m][j][x]
                                 /\ Have(m, j)[x] \in Nat /\ truth[m][j][x] \in Nat /\ line[x] \in Nat
        BY <1>2, <2>1, <4>2, RowFields
      <4>4. /\ (Have(m, j)').codes = Have(m, j).codes \cup line.codes
            /\ truth'[m][j].codes = truth[m][j].codes \cup line.codes
            /\ \A x \in Fields : /\ (Have(m, j)')[x] = Have(m, j)[x] + line[x]
                                 /\ truth'[m][j][x] = truth[m][j][x] + line[x]
        BY <2>1, <4>1, <4>2, PlusIsRow
      <4> QED BY <4>3, <4>4
    <3>2. CASE ~ (m = month /\ j = k)
      BY <1>2, <2>1, <3>2
    <3> QED BY <3>1, <3>2
  <2>3. SizesBounded'
    BY <1>1, <2>1 DEF SizesBounded
  <2> QED BY <2>1, <2>2, <2>3
<1>5. ASSUME Checkpoint
      PROVE  Typed' /\ SizesBounded' /\ \A m \in Months : Part(m)'
  <2>1. /\ Typed' /\ month' = month /\ kind' = kind /\ topN' = topN /\ truth' = truth
        /\ table' = [table EXCEPT ![month] = CullPeriod(LeftOf(month))]
        /\ \A m \in Months, k \in Keys : Have(m, k)' = Have(m, k) \/ Have(m, k)' = NoRow
    BY <1>1, <1>5, CheckpointStep
  <2>2. \A m \in Months : Part(m)'
    <3>1. NoRow.codes = {} /\ \A x \in Fields : NoRow[x] = 0
      BY NoRowIsRow DEF NoRow
    <3>2. \A m \in Months, k \in Keys, x \in Fields : truth[m][k][x] \in Nat
      BY <1>1, HaveIsSum
    <3> QED BY <1>2, <2>1, <3>1, <3>2
  <2>3. SizesBounded'
    <3>1. \A m \in 1..(month - 1) : table'[m] = table[m]
      BY <1>1, <2>1 DEF Typed, Months
    <3> QED BY <1>1, <2>1, <3>1 DEF SizesBounded
  <2> QED BY <2>1, <2>2, <2>3
<1>6. ASSUME FinalizeAndAdvanceMonth
      PROVE  Typed' /\ SizesBounded' /\ \A m \in Months : Part(m)'
  <2>1. /\ Typed' /\ month' = month + 1 /\ kind' = kind /\ topN' = topN /\ truth' = truth
        /\ \A m \in Months : m # month => table'[m] = table[m]
        /\ topN > 0 /\ Metrics(kind) # {} =>
             Cardinality(Present(table'[month])) <= Cardinality(Metrics(kind)) * topN
        /\ \A m \in Months, k \in Keys :
             Have(m, k)' = Have(m, k) \/ (m = month /\ Have(m, k)' \in {NoRow, table[m][k]})
    BY <1>1, <1>6, FinalizeStep
  <2>2. ASSUME NEW m \in Months, NEW k \in Keys
        PROVE  /\ (Have(m, k)').codes \subseteq truth'[m][k].codes
               /\ \A x \in Fields : (Have(m, k)')[x] <= truth'[m][k][x]
    <3>1. /\ NoRow.codes = {} /\ \A x \in Fields : NoRow[x] = 0
          /\ \A x \in Fields : truth[m][k][x] \in Nat
      BY <1>1, NoRowIsRow, HaveIsSum DEF NoRow
    <3>2. /\ table[m][k].codes \subseteq Have(m, k).codes
          /\ \A x \in Fields : table[m][k][x] \in Nat /\ Have(m, k)[x] \in Nat
                               /\ table[m][k][x] <= Have(m, k)[x]
      <4>1. m = month => Have(m, k).codes = table[m][k].codes \cup acc[k].codes
        BY <1>1, HaveIsSum, PlusIsRow
      <4> QED BY <1>1, <4>1, HaveIsSum
    <3>3. /\ Have(m, k).codes \subseteq truth[m][k].codes
          /\ \A x \in Fields : Have(m, k)[x] <= truth[m][k][x]
      BY <1>2
    <3>4. CASE Have(m, k)' = Have(m, k)
      BY <2>1, <3>3, <3>4
    <3>5. CASE Have(m, k)' = NoRow
      BY <2>1, <3>1, <3>5
    <3>6. CASE Have(m, k)' = table[m][k]
      BY <2>1, <3>1, <3>2, <3>3, <3>6
    <3> QED BY <2>1, <3>4, <3>5, <3>6
  <2>3. SizesBounded'
    <3>1. month \in Nat /\ 1..(month - 1) \subseteq Months /\ month \in Months
      BY <1>1, TopTablesAssumption DEF Typed, Months
    <3>2. ASSUME NEW m \in 1..(month' - 1), topN > 0, Metrics(kind) # {}
          PROVE  Cardinality(Present(table'[m])) <= Cardinality(Metrics(kind)) * topN
      <4>1. m = month \/ (m \in 1..(month - 1) /\ table'[m] = table[m])
        BY <2>1, <3>1
      <4> QED BY <1>1, <2>1, <3>2, <4>1 DEF SizesBounded
    <3> QED BY <2>1, <3>2 DEF SizesBounded
  <2> QED BY <2>1, <2>2, <2>3
<1>7. ASSUME UNCHANGED vars
      PROVE  Typed' /\ SizesBounded' /\ \A m \in Months : Part(m)'
  <2>1. UNCHANGED <<kind, topN, month, acc, table, truth, culls>>
    BY <1>7 DEF vars
  <2>2. \A m \in Months, k \in Keys : Have(m, k)' = Have(m, k)
    BY <2>1 DEF Have
  <2> QED BY <1>1, <1>2, <2>1, <2>2 DEF Typed, SizesBounded
<1> QED BY <1>4, <1>5, <1>6, <1>7 DEF Next


LEMMA InitIsTyped == Init => TypeOK
<1> SUFFICES ASSUME Init PROVE TypeOK
  OBVIOUS
<1>1. /\ kind \in Kinds /\ topN \in TopNs /\ month = 1 /\ acc = NoRows
      /\ table = [m \in Months |-> NoRows] /\ truth = [m \in Months |-> NoRows]
      /\ culls = [m \in Months |-> 0]
  BY DEF Init
<1>2. month \in Months
  BY <1>1, TopTablesAssumption DEF Months
<1>3. Typed
  BY <1>1, <1>2, NoRowIsRow DEF Typed
<1>4. SizesBounded
  BY <1>1 DEF SizesBounded
<1>5. ASSUME NEW m \in Months, NEW k \in Keys
      PROVE  Have(m, k) = NoRow /\ truth[m][k] = NoRow
  BY <1>1, NoRowIsRow, PlusNoRow DEF Have, NoRows
<1>6. ASSUME NEW m \in Months PROVE Within(LeftOf(m), truth[m])
  BY <1>5, NoRowIsRow DEF LeftOf, Within
<1> QED BY <1>3, <1>4, <1>6, TypeOKParts DEF AllWithin

\* The variables hold values of their types, a row never has more than its
\* lines, and a month that is finalized has at most top_n rows for each column.
THEOREM TopTablesTypeCorrect == Spec => []TypeOK
BY InitIsTyped, StepsAreTyped, PTL DEF Spec

-----------------------------------------------------------------------------
(* What is lost. *)

LEMMA ErrorArithmetic ==
  ASSUME NEW f \in Nat \ {0}, NEW c \in Nat, NEW n \in Nat, NEW t \in Nat, NEW h \in Nat, h <= t,
         f * (t - h) <= c * n
  PROVE  /\ \A g \in Nat : g >= n => f * (t - h) <= c * g
         /\ \A d \in Nat : d >= c => f * (t - h) <= d * n
         /\ f * h <= n => f * (t - 0) <= (c + 1) * n
         /\ \A i \in Nat : h <= i + 2 * n => f * (t - i) <= (c + 2 * f) * n
<1>1. t - h \in Nat /\ f * (t - h) \in Nat /\ c * n \in Nat
  BY SMT
<1>2. ASSUME NEW g \in Nat, g >= n PROVE f * (t - h) <= c * g
  <2>1. c * n <= c * g /\ c * g \in Nat
    BY <1>2, SMTT(30)
  <2> QED BY <1>1, <2>1
<1>3. ASSUME NEW d \in Nat, d >= c PROVE f * (t - h) <= d * n
  <2>1. c * n <= d * n /\ d * n \in Nat
    BY <1>3, SMTT(30)
  <2> QED BY <1>1, <2>1
<1>4. ASSUME f * h <= n PROVE f * (t - 0) <= (c + 1) * n
  <2>1. f * (t - 0) = f * (t - h) + f * h
    BY SMTT(30)
  <2>2. (c + 1) * n = c * n + n
    BY SMTT(30)
  <2>3. f * h \in Nat
    BY SMT
  <2> QED BY <1>1, <1>4, <2>1, <2>2, <2>3
<1>5. ASSUME NEW i \in Nat, h <= i + 2 * n PROVE f * (t - i) <= (c + 2 * f) * n
  <2>1. f * (t - i) = f * (t - h) + f * (h - i)
    BY SMTT(30)
  <2>2. f * (h - i) <= f * (2 * n)
    BY <1>5, SMTT(30)
  <2>3. (c + 2 * f) * n = c * n + f * (2 * n)
    BY SMTT(30)
  <2>4. f * (h - i) \in Int /\ f * (2 * n) \in Int
    BY SMT
  <2> QED BY <1>1, <2>1, <2>2, <2>3, <2>4
<1> QED BY <1>2, <1>3, <1>4, <1>5

\* What ErrorBounded says of a key of a month.
Bounded(m, k, x) ==
  IF topN = 0 THEN truth[m][k][x] - Have(m, k)[x] > 0 => kind = "referrers" /\ m < month
  ELSE CullFraction * (truth[m][k][x] - Have(m, k)[x]) <=
         (culls[m] + IF m < month THEN 2 * CullFraction ELSE 0) * NthSum(truth[m], x)

LEMMA ErrorBoundedParts ==
  ErrorBounded <=> \A m \in Months, k \in Keys : \A x \in Metrics(kind) \cap Sums : Bounded(m, k, x)
BY DEF ErrorBounded, Bounded

LEMMA ErrorStays ==
  ASSUME TypeOK, ErrorBounded, [Next]_vars
  PROVE  ErrorBounded'
<1>1. Typed /\ (\A m \in Months : Within(LeftOf(m), truth[m])) /\ kind \in AllKinds /\ topN \in Nat
  BY TypeOKParts, TypedConstants DEF AllWithin
<1>2. CullFraction \in Nat \ {0}
  BY TopTablesAssumption
<1>3. \A m \in Months, k \in Keys : \A x \in Metrics(kind) \cap Sums : Bounded(m, k, x)
  BY DEF ErrorBounded, Bounded
<1>4. month \in Nat /\ \A m \in Months : m \in Nat
  BY <1>1 DEF Typed, Months
<1>5. ASSUME NEW m \in Months, NEW k \in Keys, NEW x \in Sums
      PROVE  /\ truth[m][k][x] \in Nat /\ Have(m, k)[x] \in Nat /\ Have(m, k)[x] <= truth[m][k][x]
             /\ truth[m] \in Table /\ NthSum(truth[m], x) \in Nat /\ culls[m] \in Nat
             /\ x \in Fields
  <2>1. x \in Fields /\ truth[m] \in Table /\ culls[m] \in Nat
    BY <1>1 DEF Fields, Typed
  <2>2. truth[m][k][x] \in Nat /\ Have(m, k)[x] \in Nat
    BY <1>1, <2>1, HaveIsSum
  <2>3. Have(m, k)[x] <= truth[m][k][x]
    BY <1>1, <2>1, LeftOfIsTable DEF Within
  <2> QED BY <2>1, <2>2, <2>3, NthSumIsNat
<1>6. SUFFICES ASSUME NEW m \in Months, NEW k \in Keys, NEW x \in (Metrics(kind)') \cap Sums
               PROVE  Bounded(m, k, x)'
  BY DEF ErrorBounded, Bounded
<1> DEFINE t == truth[m][k][x]
           h == Have(m, k)[x]
           n == NthSum(truth[m], x)
           c == culls[m] + IF m < month THEN 2 * CullFraction ELSE 0
<1>7. t \in Nat /\ h \in Nat /\ h <= t /\ n \in Nat /\ c \in Nat
  BY <1>2, <1>5
<1>8. topN' = topN => NthSum(truth[m], x)' = NthSum(truth'[m], x)
  BY DEF NthSum, NthRow
<1>9. ASSUME NEW j \in Keys, NEW line \in Lines[kind], Record(j, line)
      PROVE  Bounded(m, k, x)'
  <2>1. /\ line \in Row /\ month' = month /\ kind' = kind /\ topN' = topN /\ culls' = culls /\ Typed'
        /\ \A l \in Months, i \in Keys :
             IF l = month /\ i = j
             THEN Have(l, i)' = Plus(Have(l, i), line) /\ truth'[l][i] = Plus(truth[l][i], line)
             ELSE Have(l, i)' = Have(l, i) /\ truth'[l][i] = truth[l][i]
    BY <1>1, <1>9, RecordStep
  <2>2. Bounded(m, k, x)
    BY <1>3, <1>6, <2>1
  <2>3. truth'[m][k][x] - (Have(m, k)')[x] = t - h
    <3>1. CASE m = month /\ k = j
      <4>1. Have(m, k) \in Row /\ truth[m][k] \in Row /\ line[x] \in Nat
        BY <1>1, <1>5, <2>1, HaveIsSum, RowFields
      <4>2. (Have(m, k)')[x] = h + line[x] /\ truth'[m][k][x] = t + line[x]
        BY <1>5, <2>1, <3>1, <4>1, PlusIsRow
      <4> QED BY <1>7, <4>1, <4>2
    <3>2. CASE ~ (m = month /\ k = j)
      BY <2>1, <3>2
    <3> QED BY <3>1, <3>2
  <2>4. ASSUME topN > 0 PROVE n <= NthSum(truth'[m], x)
    <3>1. truth'[m] \in Table
      BY <2>1 DEF Typed
    <3>2. ASSUME NEW i \in Keys, NEW y \in Fields PROVE truth[m][i][y] <= truth'[m][i][y]
      <4>1. truth[m][i] \in Row /\ truth[m][i][y] \in Nat /\ line[y] \in Nat
        BY <1>1, <2>1, HaveIsSum, RowFields
      <4>2. truth'[m][i] = truth[m][i] \/ truth'[m][i][y] = truth[m][i][y] + line[y]
        BY <2>1, <4>1, PlusIsRow
      <4> QED BY <4>1, <4>2
    <3>3. ASSUME NEW i \in Keys PROVE truth[m][i].codes \subseteq truth'[m][i].codes
      BY <1>1, <2>1, HaveIsSum, PlusIsRow
    <3>4. Within(truth[m], truth'[m])
      BY <3>2, <3>3 DEF Within
    <3> QED BY <1>1, <1>5, <2>4, <3>1, <3>4, NthSumGrows
  <2>5. CASE topN = 0
    BY <2>1, <2>2, <2>3, <2>5 DEF Bounded
  <2>6. CASE topN > 0
    <3>1. CullFraction * (t - h) <= c * n
      BY <2>2, <2>6 DEF Bounded
    <3>2. NthSum(truth'[m], x) \in Nat
      BY <2>1, NthSumIsNat DEF Typed
    <3>3. CullFraction * (t - h) <= c * NthSum(truth'[m], x)
      <4> HIDE DEF t, h, n, c
      <4> QED BY <1>2, <1>7, <2>4, <2>6, <3>1, <3>2, ErrorArithmetic
    <3> QED BY <1>8, <2>1, <2>3, <2>6, <3>3 DEF Bounded
  <2> QED BY <1>1, <2>5, <2>6
<1>10. ASSUME Checkpoint
       PROVE  Bounded(m, k, x)'
  <2>1. /\ month' = month /\ kind' = kind /\ topN' = topN /\ truth' = truth
        /\ culls' = [culls EXCEPT ![month] = @ + 1]
        /\ \/ Have(m, k)' = Have(m, k)
           \/ /\ m = month /\ Have(m, k)' = NoRow /\ topN > 0
              /\ \A y \in Metrics(kind) \cap Sums : CullFraction * Have(m, k)[y] <= NthSum(truth[m], y)
    BY <1>1, <1>10, CheckpointStep
  <2>2. Bounded(m, k, x) /\ x \in Metrics(kind)
    BY <1>3, <1>6, <2>1
  <2>3. CASE topN = 0
    BY <2>1, <2>2, <2>3 DEF Bounded
  <2>4. CASE topN > 0
    <3>1. CullFraction * (t - h) <= c * n
      BY <2>2, <2>4 DEF Bounded
    <3>2. m # month \/ ~ (m < month)
      BY <1>4
    <3>3. culls'[m] = (IF m = month THEN culls[m] + 1 ELSE culls[m]) /\ culls[m] \in Nat
      BY <1>1, <2>1 DEF Typed
    <3> DEFINE d == culls'[m] + IF m < month THEN 2 * CullFraction ELSE 0
    <3>4. d \in Nat /\ d >= c /\ (m = month => d = c + 1)
      BY <1>2, <1>4, <3>3
    <3>5. (Have(m, k)')[x] = h \/ ((Have(m, k)')[x] = 0 /\ m = month /\ CullFraction * h <= n)
      BY <1>6, <2>1, <2>2, <2>4, <1>5, NoRowIsRow
    <3>6. CullFraction * (t - (Have(m, k)')[x]) <= d * n
      <4>1. CASE (Have(m, k)')[x] = h
        <5>1. CullFraction * (t - h) <= d * n
          <6> HIDE DEF t, h, n, c, d
          <6> QED BY <1>2, <1>7, <3>1, <3>4, ErrorArithmetic
        <5> QED BY <4>1, <5>1
      <4>2. CASE (Have(m, k)')[x] = 0 /\ m = month /\ CullFraction * h <= n
        <5>1. CullFraction * (t - 0) <= d * n
          <6> HIDE DEF t, h, n, c, d
          <6> QED BY <1>2, <1>7, <3>1, <3>4, <4>2, ErrorArithmetic
        <5> QED BY <4>2, <5>1
      <4> QED BY <3>5, <4>1, <4>2
    <3> QED BY <1>8, <2>1, <2>4, <3>6 DEF Bounded
  <2> QED BY <1>1, <2>3, <2>4

<1>11. ASSUME FinalizeAndAdvanceMonth
       PROVE  Bounded(m, k, x)'
  <2>1. /\ month' = month + 1 /\ kind' = kind /\ topN' = topN /\ truth' = truth /\ culls' = culls
        /\ \/ Have(m, k)' = Have(m, k)
           \/ /\ m = month
              /\ topN = 0 => kind = "referrers"
              /\ Have(m, k)' \in {NoRow, table[m][k]}
              /\ topN > 0 => \A y \in Metrics(kind) \cap Sums :
                   Have(m, k)[y] <= (Have(m, k)')[y] + 2 * NthSum(truth[m], y)
    BY <1>1, <1>11, FinalizeStep
  <2>2. Bounded(m, k, x) /\ x \in Metrics(kind)
    BY <1>3, <1>6, <2>1
  <2>3. m < month => m < month'
    BY <1>4, <2>1
  <2>4. CASE topN = 0
    <3>1. CASE Have(m, k)' = Have(m, k)
      BY <2>1, <2>2, <2>3, <2>4, <3>1 DEF Bounded
    <3>2. CASE m = month /\ kind = "referrers"
      <4>1. m < month'
        BY <1>4, <2>1, <3>2
      <4> QED BY <2>1, <2>4, <3>2, <4>1 DEF Bounded
    <3> QED BY <2>1, <2>4, <3>1, <3>2
  <2>5. CASE topN > 0
    <3>1. CullFraction * (t - h) <= c * n
      BY <2>2, <2>5 DEF Bounded
    <3> DEFINE d == culls[m] + IF m < month' THEN 2 * CullFraction ELSE 0
    <3>2. d \in Nat /\ d >= c /\ (m = month => d = c + 2 * CullFraction)
      BY <1>2, <1>4, <1>5, <2>1
    <3>3. \/ (Have(m, k)')[x] = h
          \/ m = month /\ (Have(m, k)')[x] \in Nat /\ h <= (Have(m, k)')[x] + 2 * n
      <4>1. NoRow[x] = 0 /\ table[m][k][x] \in Nat
        BY <1>1, <1>5, NoRowIsRow, HaveIsSum
      <4> QED BY <1>6, <2>1, <2>2, <2>5, <4>1
    <3>4. CullFraction * (t - (Have(m, k)')[x]) <= d * n
      <4>1. CASE (Have(m, k)')[x] = h
        <5>1. CullFraction * (t - h) <= d * n
          <6> HIDE DEF t, h, n, c, d
          <6> QED BY <1>2, <1>7, <3>1, <3>2, ErrorArithmetic
        <5> QED BY <4>1, <5>1
      <4>2. CASE m = month /\ (Have(m, k)')[x] \in Nat /\ h <= (Have(m, k)')[x] + 2 * n
        <5> HIDE DEF t, h, n, c, d
        <5> QED BY <1>2, <1>7, <3>1, <3>2, <4>2, ErrorArithmetic
      <4> QED BY <3>3, <4>1, <4>2
    <3> QED BY <1>8, <2>1, <2>5, <3>4 DEF Bounded
  <2> QED BY <1>1, <2>4, <2>5
<1>12. ASSUME UNCHANGED vars
       PROVE  Bounded(m, k, x)'
  <2>1. UNCHANGED <<kind, topN, month, acc, table, truth, culls>>
    BY <1>12 DEF vars
  <2>2. Have(m, k)' = Have(m, k)
    BY <2>1 DEF Have
  <2>3. Bounded(m, k, x)
    BY <1>3, <1>6, <2>1
  <2> QED BY <1>8, <2>1, <2>2, <2>3 DEF Bounded
<1> QED BY <1>9, <1>10, <1>11, <1>12 DEF Next

LEMMA InitErrorBounded == Init => ErrorBounded
<1> SUFFICES ASSUME Init PROVE ErrorBounded
  OBVIOUS
<1>1. Typed
  BY InitIsTyped, TypeOKParts
<1>2. ASSUME NEW m \in Months, NEW k \in Keys, NEW x \in Metrics(kind) \cap Sums
      PROVE  Bounded(m, k, x)
  <2>1. /\ table[m][k] = NoRow /\ truth[m][k] = NoRow /\ acc[k] = NoRow /\ culls[m] = 0
        /\ month = 1 /\ m \in Nat /\ m >= 1
    BY DEF Init, NoRows, Months
  <2>2. Have(m, k) = NoRow
    BY <2>1, NoRowIsRow, PlusNoRow DEF Have
  <2>3. NoRow[x] = 0 /\ NthSum(truth[m], x) \in Nat /\ CullFraction \in Nat
    BY <1>1, NoRowIsRow, NthSumIsNat, TopTablesAssumption DEF Fields, Typed
  <2> QED BY <2>1, <2>2, <2>3 DEF Bounded
<1> QED BY <1>2 DEF ErrorBounded, Bounded

\* Of what a key really has, the tables have lost at most a fraction of the N-th
\* best sum for each checkpoint, and twice that sum when the month has ended.
THEOREM ErrorsStayBounded == Spec => []ErrorBounded
<1>1. Init => TypeOK /\ ErrorBounded
  BY InitIsTyped, InitErrorBounded
<1>2. TypeOK /\ ErrorBounded /\ [Next]_vars => TypeOK' /\ ErrorBounded'
  BY StepsAreTyped, ErrorStays
<1> QED BY <1>1, <1>2, PTL DEF Spec

-----------------------------------------------------------------------------
(* What a checkpoint deletes. *)

LEMMA NthRowOf ==
  ASSUME NEW rows, NEW x, NEW n \in NthRow(rows, x)
  PROVE  \E j \in Ranked(rows, x) :
           /\ n = rows[j]
           /\ Cardinality({i \in Ranked(rows, x) : ~Beats(rows[j], rows[i], x)}) >= topN
BY DEF NthRow

\* A row that is worse than the N-th is beaten by N rows.
LEMMA WorseThanNth ==
  ASSUME NEW rows \in Table, NEW x \in Orders, NEW j \in Ranked(rows, x), NEW k \in Ranked(rows, x),
         topN \in Nat, Beats(rows[j], rows[k], x),
         Cardinality({i \in Ranked(rows, x) : ~Beats(rows[j], rows[i], x)}) >= topN
  PROVE  Cardinality({i \in Ranked(rows, x) : Beats(rows[i], rows[k], x)}) >= topN
<1>1. Ranked(rows, x) \in SUBSET Keys /\ IsFiniteSet(Ranked(rows, x))
  BY RankedIsFinite
<1>2. ASSUME NEW i \in Ranked(rows, x), ~Beats(rows[j], rows[i], x)
      PROVE  Beats(rows[i], rows[k], x)
  <2>1. CASE x = "rt"
    <3>1. \A l \in Ranked(rows, x) : rows[l].rtCount \in Nat \ {0} /\ rows[l].rtSum \in Nat
      BY <1>1, <2>1, RowFields DEF Ranked, Table
    <3>2. /\ rows[j].rtSum * rows[k].rtCount > rows[k].rtSum * rows[j].rtCount
          /\ ~ (rows[j].rtSum * rows[i].rtCount > rows[i].rtSum * rows[j].rtCount)
      BY <1>2, <2>1 DEF Beats
    <3>3. /\ rows[j].rtSum * rows[i].rtCount \in Nat /\ rows[i].rtSum * rows[j].rtCount \in Nat
      BY <3>1, SMT
    <3>4. rows[i].rtSum * rows[j].rtCount >= rows[j].rtSum * rows[i].rtCount
      BY <3>2, <3>3
    <3>5. rows[i].rtSum * rows[k].rtCount > rows[k].rtSum * rows[i].rtCount
      BY <3>1, <3>2, <3>4, FractionsAreOrdered
    <3> QED BY <2>1, <3>5 DEF Beats
  <2>2. CASE x \in Sums
    <3>1. \A l \in Ranked(rows, x) : rows[l][x] \in Nat
      BY <1>1, <2>2, RowFields DEF Fields, Table
    <3>2. x # "rt"
      BY <2>2 DEF Sums
    <3> QED BY <1>2, <3>1, <3>2 DEF Beats
  <2> QED BY <2>1, <2>2 DEF Orders
<1>3. {i \in Ranked(rows, x) : ~Beats(rows[j], rows[i], x)}
        \in SUBSET {i \in Ranked(rows, x) : Beats(rows[i], rows[k], x)}
  BY <1>2
<1>4. IsFiniteSet({i \in Ranked(rows, x) : Beats(rows[i], rows[k], x)})
  BY <1>1, SubsetCardinality
<1> QED BY <1>3, <1>4, SubsetCardinality

LEMMA CulledIsBeaten ==
  ASSUME NEW rows \in Table, kind \in AllKinds, topN \in Nat \ {0},
         NEW k \in Culls(rows), NEW x \in Metrics(kind), k \in Ranked(rows, x),
         \A y \in Metrics(kind) \cap Sums :
           \E n \in NthRow(rows, y) : CullFraction * rows[k][y] <= n[y] /\ rows[k][y] < n[y]
  PROVE  \/ Cardinality({j \in Ranked(rows, x) : Beats(rows[j], rows[k], x)}) >= topN
         \/ kind = "urls" /\ x = "rt" /\ Cardinality(Ranked(rows, x)) < topN
<1>1. x \in Orders
  BY MetricsAreOrders
<1>2. Ranked(rows, x) \in SUBSET Keys /\ Cardinality(Ranked(rows, x)) \in Nat
  BY RankedIsFinite
<1>3. CASE x \in Sums
  <2>1. PICK n \in NthRow(rows, x) : rows[k][x] < n[x]
    BY <1>3
  <2>2. PICK j \in Ranked(rows, x) :
          /\ n = rows[j]
          /\ Cardinality({i \in Ranked(rows, x) : ~Beats(rows[j], rows[i], x)}) >= topN
    BY NthRowOf
  <2>3. rows[j][x] \in Nat /\ rows[k][x] \in Nat /\ x # "rt"
    BY <1>2, <1>3, RowFields DEF Table, Fields, Sums
  <2>4. Beats(rows[j], rows[k], x)
    BY <2>1, <2>2, <2>3 DEF Beats
  <2> QED BY <1>1, <2>2, <2>4, WorseThanNth
<1>4. CASE x = "rt"
  <2>1. kind \in {"urls", "bucket_urls"}
    BY <1>4 DEF Metrics, Sums, AllKinds
  <2>2. rows[k].rtCount \in Nat \ {0} /\ rows[k].rtSum \in Nat
    BY <1>2, <1>4, RowFields DEF Ranked, Table
  <2>3. RtBelow(rows, k)
    BY DEF Culls
  <2>4. \/ \E n \in NthRow(rows, x) : AvgBelow(rows[k], n)
        \/ kind = "urls" /\ NthRow(rows, x) = {}
    BY <1>4, <2>1, <2>2, <2>3 DEF RtBelow
  <2>5. ASSUME NEW n \in NthRow(rows, x), AvgBelow(rows[k], n)
        PROVE  Cardinality({j \in Ranked(rows, x) : Beats(rows[j], rows[k], x)}) >= topN
    <3>1. PICK j \in Ranked(rows, x) :
            /\ n = rows[j]
            /\ Cardinality({i \in Ranked(rows, x) : ~Beats(rows[j], rows[i], x)}) >= topN
      BY NthRowOf
    <3>2. rows[j].rtCount \in Nat \ {0} /\ rows[j].rtSum \in Nat
      BY <1>2, <1>4, RowFields DEF Ranked, Table
    <3>3. CullFraction * rows[k].rtSum * rows[j].rtCount < rows[j].rtSum * rows[k].rtCount
      BY <2>2, <2>5, <3>1 DEF AvgBelow
    <3>4. rows[k].rtSum * rows[j].rtCount <= CullFraction * rows[k].rtSum * rows[j].rtCount
      <4>1. CullFraction \in Nat \ {0}
        BY TopTablesAssumption
      <4>2. \A a, b \in Nat : \A f \in Nat \ {0} : a * b <= f * a * b
        BY SMTT(30)
      <4> QED BY <2>2, <3>2, <4>1, <4>2
    <3>5. /\ rows[k].rtSum * rows[j].rtCount \in Nat /\ rows[j].rtSum * rows[k].rtCount \in Nat
          /\ CullFraction * rows[k].rtSum * rows[j].rtCount \in Nat
      BY <2>2, <3>2, TopTablesAssumption, SMT
    <3>6. Beats(rows[j], rows[k], x)
      BY <1>4, <3>3, <3>4, <3>5 DEF Beats
    <3> QED BY <1>1, <3>1, <3>6, WorseThanNth
  <2>6. NthRow(rows, x) = {} => Cardinality(Ranked(rows, x)) < topN
    BY <1>1, <1>2, NthRowExists
  <2> QED BY <1>4, <2>4, <2>5, <2>6
<1> QED BY <1>1, <1>3, <1>4 DEF Orders

\* A checkpoint culls no row that is among the best top_n by one of the columns
\* of its table.
THEOREM CheckpointsSpareTheTop == Spec => CullSparesTop
<1> DEFINE Spared ==
      Checkpoint =>
        LET rows == Merged(table[month], acc) IN
        \A k \in Present(rows) \ Present(table'[month]) : \A x \in Metrics(kind) :
          k \in Ranked(rows, x) =>
            \/ Cardinality({j \in Ranked(rows, x) : Beats(rows[j], rows[k], x)}) >= topN
            \/ kind = "urls" /\ x = "rt" /\ Cardinality(Ranked(rows, x)) < topN
<1>1. TypeOK => Spared
  <2> SUFFICES ASSUME TypeOK, Checkpoint PROVE Spared
    OBVIOUS
  <2>1. Typed /\ kind \in AllKinds /\ topN \in Nat /\ month \in Months
    BY TypeOKParts, TypedConstants DEF Typed
  <2> DEFINE rows == Merged(table[month], acc)
  <2>2. rows \in Table /\ table'[month] = CullPeriod(rows)
    <3>1. table' = [table EXCEPT ![month] = CullPeriod(rows)]
      BY DEF Checkpoint
    <3> QED BY <2>1, <3>1, MergedIsLeft DEF Typed
  <2> HIDE DEF rows
  <2>3. SUFFICES ASSUME NEW k \in Present(rows) \ Present(CullPeriod(rows)), NEW x \in Metrics(kind),
                        k \in Ranked(rows, x)
                 PROVE  \/ Cardinality({j \in Ranked(rows, x) : Beats(rows[j], rows[k], x)}) >= topN
                        \/ kind = "urls" /\ x = "rt" /\ Cardinality(Ranked(rows, x)) < topN
    BY <2>2 DEF rows
  <2>4. k \in Keys
    BY RankedIsFinite
  <2>5. CullPeriod(rows)[k] # rows[k]
    BY <2>3, <2>4 DEF Present
  <2>6. /\ topN > 0 /\ k \in Culls(rows)
        /\ \A y \in Metrics(kind) \cap Sums :
             \E n \in NthRow(rows, y) : CullFraction * rows[k][y] <= n[y] /\ rows[k][y] < n[y]
    BY <2>1, <2>2, <2>4, <2>5, CullFacts
  <2> QED BY <2>1, <2>2, <2>3, <2>6, CulledIsBeaten
<1>2. CullSparesTop <=> [][Spared]_vars
  BY DEF CullSparesTop
<1> HIDE DEF Spared
<1> QED BY <1>1, <1>2, TopTablesTypeCorrect, PTL

-----------------------------------------------------------------------------
(* What the pages show. *)

\* A row with no more than N rows that it does not beat, itself among them, is in
\* every choice of the best N.
LEMMA BestIsInTop ==
  ASSUME NEW rows \in Table, NEW x \in Orders, NEW n \in Nat, NEW S \in TopBy(rows, x, n),
         NEW k \in Ranked(rows, x),
         Cardinality({j \in Ranked(rows, x) : ~Beats(rows[k], rows[j], x)}) <= n
  PROVE  k \in S
<1> DEFINE A == {j \in Ranked(rows, x) : ~Beats(rows[k], rows[j], x)}
<1>1. SUFFICES ASSUME k \notin S PROVE FALSE
  OBVIOUS
<1>2. /\ S \in SUBSET Ranked(rows, x) /\ Cardinality(S) = n
      /\ \A j \in S : ~Beats(rows[k], rows[j], x)
  BY <1>1, TopByFacts
<1>3. ~Beats(rows[k], rows[k], x)
  <2>1. A = Behind(Ranked(rows, x), OrderBy(rows, x), k)
    BY BeatsIsStrictOrder
  <2>2. <<k, k>> \notin OrderBy(rows, x) /\ k \in Keys
    BY BeatsIsStrictOrder, RankedIsFinite DEF IsStrictOrder
  <2> QED BY <2>2 DEF OrderBy
<1>4. S \in SUBSET A /\ k \in A /\ IsFiniteSet(A)
  BY <1>2, <1>3, RankedIsFinite, FS_Subset
<1>5. Cardinality(S) < Cardinality(A) /\ Cardinality(S) \in Nat /\ Cardinality(A) \in Nat
  <2> HIDE DEF A
  <2> QED BY <1>1, <1>4, SmallerSubset
<1> QED BY <1>2, <1>5

\* The months of a period are added up one after the other.
SumStep(rows, ms, f, m) ==
  IF m = 0 THEN NoRows ELSE IF m \in ms THEN Merged(f[m - 1], rows[m]) ELSE f[m - 1]

LEMMA SumsExist ==
  ASSUME NEW rows, NEW ms, NEW n \in Nat
  PROVE  \E f : f = [m \in 0..n |-> SumStep(rows, ms, f, m)]
<1> DEFINE None == {i \in Nat : ~ \E f : f = [m \in 0..i |-> SumStep(rows, ms, f, m)]}
<1>1. SUFFICES ASSUME None # {} PROVE FALSE
  OBVIOUS
<1>2. PICK i \in None : \A j \in None : i <= j
  <2>1. None \in SUBSET Nat
    OBVIOUS
  <2> HIDE DEF None
  <2> QED BY <1>1, <2>1, SmallestNat
<1>3. CASE i = 0
  <2> DEFINE f == [m \in 0..0 |-> NoRows]
  <2>1. f = [m \in 0..0 |-> SumStep(rows, ms, f, m)]
    BY DEF SumStep
  <2> HIDE DEF f
  <2> QED BY <1>2, <1>3, <2>1
<1>4. CASE i # 0
  <2>1. i - 1 \in Nat /\ i - 1 \notin None
    BY <1>2, <1>4
  <2>2. PICK g : g = [m \in 0..(i - 1) |-> SumStep(rows, ms, g, m)]
    BY <2>1
  <2> DEFINE f == [m \in 0..i |-> IF m = i THEN SumStep(rows, ms, g, i) ELSE g[m]]
  <2>3. ASSUME NEW m \in 0..i PROVE f[m] = SumStep(rows, ms, f, m)
    <3>1. CASE m = 0
      BY <1>4, <2>1, <2>2, <3>1 DEF SumStep
    <3>2. CASE m # 0
      <4>1. m - 1 \in 0..(i - 1) /\ f[m - 1] = g[m - 1]
        BY <2>1, <3>2
      <4>2. SumStep(rows, ms, f, m) = SumStep(rows, ms, g, m)
        BY <3>2, <4>1 DEF SumStep
      <4>3. CASE m = i
        BY <4>2, <4>3
      <4>4. CASE m # i
        <5>1. m \in 0..(i - 1) /\ f[m] = g[m]
          BY <2>1, <4>4
        <5>2. g[m] = SumStep(rows, ms, g, m)
          BY <2>2, <5>1
        <5> QED BY <4>2, <5>1, <5>2
      <4> QED BY <4>3, <4>4
    <3> QED BY <3>1, <3>2
  <2>4. f = [m \in 0..i |-> SumStep(rows, ms, f, m)]
    <3>1. f = [m \in 0..i |-> f[m]]
      OBVIOUS
    <3> HIDE DEF f
    <3>2. [m \in 0..i |-> f[m]] = [m \in 0..i |-> SumStep(rows, ms, f, m)]
      BY <2>3
    <3> QED BY <3>1, <3>2
  <2> HIDE DEF f
  <2> QED BY <1>2, <2>4
<1> QED BY <1>3, <1>4

LEMMA SumOverSteps ==
  ASSUME NEW rows, NEW ms
  PROVE  \E f : /\ SumOver(rows, ms) = f[LastMonth]
                /\ \A m \in 0..LastMonth : f[m] = SumStep(rows, ms, f, m)
<1> DEFINE IsSum(f) == f = [m \in 0..LastMonth |->
                              IF m = 0 THEN NoRows
                              ELSE IF m \in ms THEN Merged(f[m - 1], rows[m]) ELSE f[m - 1]]
           sum == CHOOSE f : IsSum(f)
<1>1. SumOver(rows, ms) = sum[LastMonth]
  BY DEF SumOver
<1>2. \E f : IsSum(f)
  <2>1. \E f : f = [m \in 0..LastMonth |-> SumStep(rows, ms, f, m)]
    <3>1. LastMonth \in Nat
      BY TopTablesAssumption
    <3> QED BY <3>1, SumsExist
  <2> QED BY <2>1, Zenon DEF SumStep
<1>3. IsSum(sum)
  BY <1>2
<1>4. \A m \in 0..LastMonth : sum[m] = SumStep(rows, ms, sum, m)
  BY <1>3 DEF SumStep
<1> HIDE DEF sum
<1> QED BY <1>1, <1>4

\* The sum of some months is a table, and that of one month is the month's.
LEMMA SumOverFacts ==
  ASSUME NEW rows \in [Months -> Table], NEW ms
  PROVE  /\ SumOver(rows, ms) \in Table
         /\ \A m \in Months : ms = {m} => SumOver(rows, ms) = rows[m]
<1>1. PICK f : /\ SumOver(rows, ms) = f[LastMonth]
               /\ \A m \in 0..LastMonth : f[m] = SumStep(rows, ms, f, m)
  BY SumOverSteps
<1>2. LastMonth \in Nat \ {0} /\ NoRows \in Table
  BY TopTablesAssumption, NoRowIsRow
<1> DEFINE Right(i) ==
      /\ f[i] \in Table
      /\ \A m \in Months : ms = {m} => f[i] = IF i < m THEN NoRows ELSE rows[m]
<1>3. ASSUME NEW i \in 0..LastMonth, i # 0 => Right(i - 1) PROVE Right(i)
  <2>1. CASE i = 0
    BY <1>1, <1>2, <2>1 DEF SumStep, Months
  <2>2. CASE i # 0 /\ i \in ms
    <3>1. f[i] = Merged(f[i - 1], rows[i]) /\ f[i - 1] \in Table /\ i \in Months
      BY <1>1, <1>2, <1>3, <2>2 DEF SumStep, Months
    <3>2. f[i] \in Table
      BY <3>1, MergedIsTable
    <3>3. ASSUME NEW m \in Months, ms = {m} PROVE f[i] = rows[m]
      <4>1. m = i /\ f[i - 1] = NoRows
        BY <1>3, <2>2, <3>3 DEF Months
      <4>2. \A k \in Keys : Merged(NoRows, rows[m])[k] = rows[m][k]
        BY <1>2, MergedIsTable, PlusNoRow DEF Table, NoRows
      <4>3. Merged(NoRows, rows[m]) \in Table /\ rows[m] \in Table
        BY <1>2, MergedIsTable
      <4> QED BY <3>1, <4>1, <4>2, <4>3 DEF Table
    <3> QED BY <2>2, <3>2, <3>3
  <2>3. CASE i # 0 /\ i \notin ms
    <3>1. f[i] = f[i - 1]
      BY <1>1, <2>3 DEF SumStep
    <3>2. ASSUME NEW m \in Months, ms = {m} PROVE i < m <=> i - 1 < m
      BY <2>3, <3>2 DEF Months
    <3> QED BY <1>3, <2>3, <3>1, <3>2
  <2> QED BY <2>1, <2>2, <2>3
<1>4. Right(LastMonth)
  <2> DEFINE Wrong == {i \in 0..LastMonth : ~Right(i)}
  <2>1. ASSUME Wrong # {} PROVE FALSE
    <3>1. Wrong \in SUBSET Nat /\ \A i \in Wrong : i \in 0..LastMonth /\ ~Right(i)
      BY <1>2
    <3>2. PICK i \in Wrong : \A j \in Wrong : i <= j
      <4> HIDE DEF Wrong
      <4> QED BY <2>1, <3>1, SmallestNat
    <3>3. i \in 0..LastMonth /\ ~Right(i)
      OBVIOUS
    <3>4. i # 0 => Right(i - 1)
      <4>1. i # 0 => i - 1 \in 0..LastMonth /\ i - 1 \notin Wrong
        BY <1>2, <3>2, <3>3
      <4> HIDE DEF Right
      <4> QED BY <4>1
    <3> HIDE DEF Right
    <3> QED BY <1>3, <3>3, <3>4
  <2>2. LastMonth \in 0..LastMonth
    BY <1>2
  <2> HIDE DEF Right
  <2> QED BY <2>1, <2>2
<1> QED BY <1>1, <1>2, <1>4 DEF Months

\* One row of each key is, of one month, the month's table.
LEMMA OneMonthsRows ==
  ASSUME Typed, NEW m \in Months, NEW rows \in OneRowOfEach({m})
  PROVE  rows = table[m]
<1> DEFINE monthsOf(k) == {n \in {m} : table[n][k].hits > 0}
<1>1. PICK p \in [Keys -> {m}] :
        rows = [k \in Keys |-> IF monthsOf(k) = {} THEN NoRow ELSE table[p[k]][k]]
  BY DEF OneRowOfEach
<1>2. table[m] \in Table
  BY DEF Typed
<1>3. ASSUME NEW k \in Keys PROVE rows[k] = table[m][k]
  <2>1. table[m][k] \in Row /\ table[m][k].hits \in Nat /\ (table[m][k].hits = 0 => table[m][k] = NoRow)
    BY <1>2, RowFields DEF Table
  <2>2. monthsOf(k) = {} <=> table[m][k].hits = 0
    BY <2>1
  <2>3. rows[k] = IF monthsOf(k) = {} THEN NoRow ELSE table[m][k]
    BY <1>1
  <2> QED BY <2>1, <2>2, <2>3
<1> QED BY <1>1, <1>2, <1>3 DEF Table

LEMMA TypedShowsTop == Typed => EveryColumnHasItsTop
<1> DEFINE Periods == {{m} : m \in Months} \cup (IF kind \in SortedByOneRow THEN {} ELSE {Months})
           best(rows, x) == {k \in Ranked(rows, x) :
             Cardinality({j \in Ranked(rows, x) : ~Beats(rows[k], rows[j], x)}) <= topN}
           Belongs(rows) == UNION {best(rows, x) : x \in Columns}
<1> SUFFICES ASSUME Typed, NEW ms \in Periods, NEW shown \in TopOf(ms),
                    NEW k \in Belongs(SumOver(table, ms))
             PROVE  k \in shown
  <2>1. EveryColumnHasItsTop <=>
          (acc = NoRows =>
             \A ms \in Periods : Belongs(SumOver(table, ms)) # {} =>
               \A shown \in TopOf(ms) : Belongs(SumOver(table, ms)) \subseteq shown)
    BY Zenon DEF EveryColumnHasItsTop
  <2> HIDE DEF Periods, Belongs
  <2> QED BY <2>1
<1>0. PICK x \in Columns : k \in best(SumOver(table, ms), x)
  OBVIOUS
<1> DEFINE rows == SumOver(table, ms)
<1>1. rows \in Table /\ topN \in Nat /\ kind \in AllKinds /\ table \in [Months -> Table]
  BY SumOverFacts, TypedConstants DEF Typed
<1>2. x \in Orders /\ Columns \cap Orders = Columns
  BY <1>1, MetricsAreOrders DEF Columns, Orders
<1>3. shown \in TopUnions(rows, Columns, topN)
  <2>1. CASE kind \notin SortedByOneRow
    BY <2>1 DEF TopOf
  <2>2. CASE kind \in SortedByOneRow
    <3>1. PICK m \in Months : ms = {m}
      BY <2>2
    <3>2. PICK r \in OneRowOfEach(ms) : shown \in TopUnions(r, Columns, topN)
      BY <2>2 DEF TopOf
    <3>3. r = table[m]
      BY <3>1, <3>2, OneMonthsRows
    <3>4. rows = table[m]
      BY <1>1, <3>1, SumOverFacts
    <3> QED BY <3>2, <3>3, <3>4
  <2> QED BY <2>1, <2>2
<1>4. PICK S \in TopBy(rows, x, topN) : S \subseteq shown
  BY <1>2, <1>3, TopUnionsHasTop
<1>5. k \in S
  BY <1>0, <1>1, <1>2, <1>4, BestIsInTop
<1> QED BY <1>4, <1>5

\* Every column of a page has its best N keys, whichever rows the queries pick
\* among equals.
THEOREM PagesShowEveryColumnsTop == Spec => []EveryColumnHasItsTop
<1>1. TypeOK => EveryColumnHasItsTop
  BY TypeOKParts, TypedShowsTop
<1> QED BY <1>1, TopTablesTypeCorrect, PTL
=============================================================================
