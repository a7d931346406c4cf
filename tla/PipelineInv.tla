---------------------------- MODULE PipelineInv ----------------------------
(***************************************************************************)
(* The inductive invariant behind AtMostOnce.  The two channels carry one  *)
(* stream: files in increasing order, each a FileStart, batches of later   *)
(* and later lines, and a FileDone.  Each thread stands at a position in   *)
(* that stream: whether a file is open, which one, and the last line of it *)
(* that went by.                                                           *)
(***************************************************************************)
EXTENDS Pipeline, Integers

\* A position is a file and the last line of it that went by, Shut when the
\* file is not open.
Shut == -1

LoaderAt == IF loader.open THEN loader.pos ELSE Shut
ParserInAt == IF parser.open THEN parser.off ELSE Shut
ParserOutAt == IF parser.open THEN parser.from - 1 ELSE Shut
AggAt == IF agg.active THEN agg.hi ELSE Shut
After(m) == IF m.kind \in {"start", "lines", "entries"} THEN m.hi ELSE Shut

\* Message m may come next after the position (f, h).
Follows(f, h, m) ==
  \/ /\ m.kind = "done"
     /\ h # Shut => loader.failed
  \/ /\ m.kind = "start" /\ h = Shut
     /\ f < m.file
     /\ m.lo = m.hi + 1 /\ m.hi = plan[m.file].offset /\ m.off = m.hi
  \/ /\ m.kind \in {"lines", "entries"} /\ h # Shut
     /\ m.file = f /\ h < m.lo
  \/ /\ m.kind = "fdone" /\ h # Shut
     /\ m.file = f /\ h < m.lo
     /\ m.lo = m.off + 1 /\ m.hi = m.off

\* The messages of ch are in order, and ready for a receiver at (f, h).
InOrder(ch, f, h) ==
  /\ ch # <<>> => Follows(f, h, ch[1])
  /\ \A k \in 1..(Len(ch) - 1) :
       /\ ch[k].kind # "done"
       /\ Follows(ch[k].file, After(ch[k]), ch[k + 1])

\* A sender at (f, h) stands right behind ch, or where the receiver stands
\* if ch is empty.
Behind(ch, f, h, rf, rh) ==
  IF ch = <<>> THEN f = rf /\ h = rh
               ELSE f = ch[Len(ch)].file /\ h = After(ch[Len(ch)])

\* A message speaks of lines its file has.
MsgOK(m) ==
  m.kind # "done" =>
    /\ m.file \in File
    /\ 1 <= m.lo /\ m.lo <= m.hi + 1
    /\ m.hi <= m.off /\ m.off <= Len(log[m.file])
    /\ m.kind = "lines" => m.hi = m.off

\* Between two runs no thread exists and nothing is in memory.
QuietWhenIdle ==
  mode = "idle" =>
    /\ plan = NoPlan /\ skipped = {} /\ todo = {}
    /\ loader = IdleLoader /\ toParser = <<>> /\ parser = IdleParser
    /\ toAgg = <<>> /\ agg = IdleAgg /\ acc = NoCount /\ pending = NoPending

\* A channel carries no message of kind `other`.
CarriesOK(ch, other) == \A k \in 1..Len(ch) : MsgOK(ch[k]) /\ ch[k].kind # other

HasDone(ch) == \E k \in 1..Len(ch) : ch[k].kind = "done"

LoaderOK ==
  /\ loader.open => /\ loader.file \in File
                    /\ loader.pos <= Len(log[loader.file])
                    /\ ~loader.done
  /\ \A f \in todo : loader.file < f
  /\ \A f \in File : plan[f].offset <= Len(log[f])

ParserOK ==
  /\ 1 <= parser.from /\ parser.from <= parser.at /\ parser.at <= parser.off + 1
  /\ IF parser.open
     THEN parser.file \in File /\ parser.off <= Len(log[parser.file])
     ELSE ParserFree /\ parser.from = parser.at
  /\ parser.done => loader.done /\ toParser = <<>> /\ ParserFree

ToParserOK ==
  /\ CarriesOK(toParser, "entries")
  /\ HasDone(toParser) => loader.done
  /\ InOrder(toParser, parser.file, ParserInAt)
  /\ ~loader.done => Behind(toParser, loader.file, LoaderAt, parser.file, ParserInAt)

ToAggOK ==
  /\ CarriesOK(toAgg, "lines")
  /\ HasDone(toAgg) => parser.done
  /\ InOrder(toAgg, agg.file, AggAt)
  /\ ~parser.done => Behind(toAgg, parser.file, ParserOutAt, agg.file, AggAt)

AggOK ==
  /\ agg.active => /\ agg.file \in File
                   /\ 1 <= agg.at /\ agg.at <= agg.hi + 1
                   /\ agg.hi <= agg.off /\ agg.off <= Len(log[agg.file])
  /\ agg.pc \in {"entries", "ts_month", "finalize", "advance"} => agg.active
  /\ agg.pc = "ts_final" => ~agg.active

Once(f, i) == count[f][i] + acc[f][i] <= 1

Touched(f, i) == count[f][i] + acc[f][i] > 0

\* Where the next flush leaves the resume offset of a file that is not open.
NextOffset(f) == IF pending[f].known THEN pending[f].offset ELSE stored[f].offset

\* A line is counted at most once.  A counted line is an entry of its file.
\* Committed lines lie before the committed offset, and lines touched so far
\* before the offset the next flush commits; of the open file they lie
\* before the line at hand, of a file not begun before its planned offset.
CountOK ==
  \A f \in File, i \in 1..MaxLines :
    /\ Once(f, i)
    /\ Touched(f, i) => i <= Len(log[f]) /\ log[f][i] # Dropped
    /\ count[f][i] > 0 => i <= stored[f].offset
    /\ Touched(f, i) => IF agg.active /\ f = agg.file
                        THEN i < agg.at
                        ELSE i <= NextOffset(f)
    /\ agg.file < f /\ mode = "running" => /\ acc[f][i] = 0
                                           /\ count[f][i] > 0 => i <= plan[f].offset

\* The inductive invariant.
IInv ==
  /\ TypeOK
  /\ QuietWhenIdle
  /\ LoaderOK
  /\ ToParserOK
  /\ ParserOK
  /\ ToAggOK
  /\ AggOK
  /\ CountOK

=============================================================================
