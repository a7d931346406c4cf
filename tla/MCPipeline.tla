----------------------------- MODULE MCPipeline -----------------------------
(* Constants of the runs of Pipeline. *)
EXTENDS PipelineOrder

MCStamps  == 1..3
\* The third stamp lies in the second month.
MCMonthOf == <<1, 1, 2>>

\* A rotated file and the one being written: the second file goes on where
\* the first one ends.  First nothing is dropped, then lines the parser drops.
RotatedLogs == {<< <<1, 1, 1>>, <<2, 3>> >>, << <<1, 1, 3>>, <<3>> >>}
DroppedLogs == {<< <<1, 0, 1>>, <<0, 2>> >>}
AllLogs     == RotatedLogs \cup DroppedLogs
GrowSecond  == {<<2, 0>>, <<2, 3>>}
\* A late line of a bot in the rotated file makes it pending once more.
GrowInTurn  == {<<1, 0>>, <<2, 3>>}

\* Two servers write a file each.
TwoStreams == {<< <<1>>, <<1>> >>}
GrowBoth   == {<<1, 2>>, <<2, 2>>}
=============================================================================
