------------------------------ MODULE MCResume ------------------------------
(* Constants of the runs of Resume. *)
EXTENDS Resume

\* Everything in the log directory, or the packed logs only.
AllGlobs == {Paths, {Packed}}
OnlyAll == {Paths}
\* A server that does not rotate.
OnlyLive == {{Live}}
=============================================================================
