------------------------------ MODULE MCVisits ------------------------------
(* Constants of the runs of Visits: a timeout of 2. *)
EXTENDS Visits

MCVisitors == {"a", "b"}
LogsOf(Stamps) ==
  {[i \in 1..4 |-> [ts |-> stamps[i], visitor |-> who[i]]] :
     stamps \in Stamps, who \in {w \in [1..4 -> MCVisitors] : w[1] = "a"}}

OrderedLogs  == LogsOf({s \in [1..4 -> 1..6] : \A i \in 1..3 : s[i] <= s[i + 1]})

AnyRollback == {2, 4}
=============================================================================
