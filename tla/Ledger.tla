------------------------------- MODULE Ledger -------------------------------
(***************************************************************************)
(* What the database promises about the lines of the log files, without    *)
(* threads, channels, batches, runs or crashes: now and then a commit adds *)
(* lines nobody added before and moves the offsets the files are resumed   *)
(* from, in one step.                                                      *)
(***************************************************************************)
EXTENDS Naturals, Sequences

CONSTANTS File, MaxLines, Logs, Dropped

VARIABLES log, count, offset

vars == <<log, count, offset>>

Init ==
  /\ log \in Logs
  /\ count = [f \in File |-> [i \in 1..MaxLines |-> 0]]
  /\ offset = [f \in File |-> 0]

\* The files only grow.
Grow ==
  /\ \A f \in File : \A i \in 1..Len(log[f]) : i \in 1..Len(log'[f]) /\ log'[f][i] = log[f][i]
  /\ UNCHANGED <<count, offset>>

\* A line is added at most once, only if it is an entry of its file, and
\* never stays behind the offset as something the next run would add again.
CommitLines ==
  /\ \A f \in File, i \in 1..MaxLines :
       \/ count'[f][i] = count[f][i]
       \/ /\ count[f][i] = 0 /\ count'[f][i] = 1
          /\ i <= Len(log[f]) /\ log[f][i] # Dropped
  /\ \A f \in File, i \in 1..MaxLines : count'[f][i] > 0 => i <= offset'[f]
  /\ UNCHANGED log

\* Every entry before an offset has been added.
Covered(off, cnt) ==
  \A f \in File : \A i \in 1..off[f] : log[f][i] # Dropped => cnt[f][i] = 1

\* At most once: an entry may be lost.
AtMostOnceSpec == Init /\ [][Grow \/ CommitLines]_vars

\* Exactly once: offsets only advance, and over entries that are added.
CommitExactly ==
  /\ CommitLines
  /\ Covered(offset', count')
  /\ \A f \in File : offset[f] <= offset'[f]

NothingDropped == \A f \in File : \A i \in 1..Len(log[f]) : log[f][i] # Dropped

\* Exactly once while every line is an entry, at most once otherwise.
ExactlyOnceSpec ==
  Init /\ [][Grow \/ IF NothingDropped THEN CommitExactly ELSE CommitLines]_vars

=============================================================================
