--------------------------- MODULE PipelineCover ---------------------------
(***************************************************************************)
(* The inductive invariant behind FaultFreeLosesNothing and                *)
(* ImplementsExactlyOnce: the stream of lines has no gaps, so that         *)
(* everything before the position of the aggregator has been counted.      *)
(***************************************************************************)
EXTENDS PipelineInv

\* No entry is left out between a position h and the message m that follows.
NoGap(h, m) ==
  m.kind \in {"lines", "entries", "fdone"} => Kept(m.file, h + 1, m.lo - 1) = {}

Gapless(ch, h) ==
  /\ ch # <<>> => NoGap(h, ch[1])
  /\ \A k \in 1..(Len(ch) - 1) : NoGap(After(ch[k]), ch[k + 1])

GapInv == Gapless(toParser, ParserInAt) /\ Gapless(toAgg, AggAt)

\* Offsets lie in their files.  A file that the run has not come to has no
\* pending state and is read from where the database says.
OffsetsOK ==
  /\ \A f \in File : stored[f].offset <= Len(log[f]) /\ pending[f].offset <= Len(log[f])
  /\ mode = "running" =>
       \A f \in File : agg.file < f =>
         ~pending[f].known /\ plan[f].offset = stored[f].offset
  /\ agg.active /\ agg.pc \in {"recv", "ts_checkpoint"} => agg.at = agg.hi + 1
  /\ agg.pc = "ts_final" => acc = NoCount /\ pending = NoPending
  /\ loader.failed => faults > 0

\* What waits in the accumulators belongs to the current month, and the
\* accumulators are empty while the month is changed.
SegmentInv ==
  /\ SegmentInMonth
  /\ agg.pc \in {"ts_month", "finalize", "advance"} => acc = NoCount

\* How far a file has been worked off.
Reached(f) == IF agg.active /\ f = agg.file THEN agg.at - 1 ELSE NextOffset(f)

\* All entries up to there are counted, committed or not.
CoverInv ==
  \A f \in File : \A i \in 1..Reached(f) : log[f][i] # Dropped => Touched(f, i)

\* The two stages make batches of the same size, and no line is dropped.
Lockstep == LoaderBatch = ParserBatch /\ L!NothingDropped

\* A batch of lines that is not full is the last one of its file.
ShortLines(m) == m.kind = "lines" /\ m.hi + 1 < m.lo + LoaderBatch

NoMoreLines == IF toParser = <<>> THEN loader.eof \/ loader.done
                                  ELSE toParser[1].kind # "lines"

LinesInStep ==
  /\ \A k \in 1..Len(toParser) :
       toParser[k].kind = "lines" => toParser[k].hi < toParser[k].lo + LoaderBatch
  /\ \A k \in 1..(Len(toParser) - 1) :
       ShortLines(toParser[k]) => toParser[k + 1].kind # "lines"
  /\ toParser # <<>> /\ ShortLines(toParser[Len(toParser)]) => loader.eof \/ loader.done

\* The entry batch begins with the lines in hand and ends with them.
ParserInStep ==
  parser.open =>
    /\ parser.off < parser.from + LoaderBatch /\ parser.at < parser.from + ParserBatch
    /\ parser.from <= parser.off /\ parser.off + 1 < parser.from + LoaderBatch => NoMoreLines

\* The offset that goes with a batch of entries is its end.
EntriesInStep ==
  /\ \A k \in 1..Len(toAgg) : toAgg[k].kind = "entries" => toAgg[k].hi = toAgg[k].off
  /\ agg.active => agg.hi = agg.off

\* What holds of batches that keep step.  In every state, after whatever
\* crash, nothing before a resume offset is missing, and no flush moves an
\* offset back.
ExactInv ==
  /\ LinesInStep /\ ParserInStep /\ EntriesInStep
  /\ NothingLost
  /\ \A f \in File : stored[f].offset <= Reached(f)

\* The inductive invariant.
FullInv ==
  /\ GapInv /\ OffsetsOK /\ SegmentInv
  /\ faults = 0 \/ Lockstep => CoverInv
  /\ Lockstep => ExactInv

=============================================================================
