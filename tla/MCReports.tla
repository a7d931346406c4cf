------------------------------ MODULE MCReports ------------------------------
(* Constants of the run of Reports. *)
EXTENDS Reports

\* Two months of one year: a year's page depends on both.
MCMonths  == 1..2
MCYears   == {2001}
MCYearOf  == <<2001, 2001>>
MCBuckets == {"api"}
MCTrouble == {}
=============================================================================
