------------------------------ MODULE MCMonths ------------------------------
(* Constants of the runs of Months. *)
EXTENDS Months

\* Two months of one year, of which the first has two days, and one of the next.
MCDates   == 1..4
MCMonthOf == <<1, 1, 2, 3>>
MCYearOf  == <<1, 1, 2>>

MCAddresses == {"a", "b"}
MCGroupOf   == [x \in MCAddresses |-> 1]
MCBuckets   == {"api"}

\* An address inside and one outside the bucket, and a host name.
Hits(d) ==
  {[date |-> d, ip |-> "a", bucket |-> NoBucket, timed |-> TRUE],
   [date |-> d, ip |-> "b", bucket |-> "api",    timed |-> TRUE]}
HostName(d) == [date |-> d, ip |-> NoAddress, bucket |-> "api", timed |-> FALSE]

Calendars == {ds \in [1..4 -> MCDates] : \A i \in 1..3 : ds[i] <= ds[i + 1]}

\* Every log of four entries in calendar order.
OrderedLogs ==
  LET WithDates(ds) == {l \in [1..4 -> UNION {Hits(d) : d \in MCDates}] :
                          \A i \in 1..4 : l[i].date = ds[i]}
  IN UNION {WithDates(ds) : ds \in Calendars}
     \cup {<<HostName(1), HostName(3), HostName(4)>>}

\* Two files whose months overlap, read one after the other, or requests that
\* began before midnight and are logged after the first one of the next month.
AnyOrderLogs ==
  LET WithDates(ds) == {l \in [1..4 -> UNION {Hits(d) : d \in 2..4}] :
                          \A i \in 1..4 : l[i].date = ds[i]}
  IN UNION {WithDates(ds) : ds \in [1..4 -> 2..4]}

AllLogs == OrderedLogs \cup AnyOrderLogs

NoRollback  == {}
AnyRollback == {1, 2, 3}
=============================================================================
