------------------------------ MODULE Pipeline ------------------------------
(***************************************************************************)
(* The `webstat process` run: log files are planned, then a loader thread, *)
(* a parser thread and the aggregator (the calling thread) pass batches    *)
(* through two bounded channels; the aggregator commits what it counted,   *)
(* together with the offset to resume each file from, to SQLite.  A crash  *)
(* loses everything but the database; the next run resumes from it.        *)
(*                                                                         *)
(* Data abstraction.  A file is the sequence of its lines and an offset is *)
(* a number of lines: the byte after line i is offset i, line i starts at  *)
(* offset i - 1.  A line is the time stamp it carries, or Dropped when the *)
(* parser keeps nothing of it (unparsable, a bot, ignored or sampled out   *)
(* by a rule); one in front of a file's first entry is unparsable, since   *)
(* the first line that parses dates the file.  A batch is named by the     *)
(* interval of lines it was built from.  Of what a counted line adds to    *)
(* the tables only how often it was added is kept.  A file keeps its path  *)
(* and its inode; rotation and compression are about which stored row a    *)
(* file matches, not about the threads.                                    *)
(***************************************************************************)
EXTENDS Naturals, Sequences, FiniteSets

CONSTANTS
  NFiles,        \* files, numbered in the order of their first time stamps
  MaxLines,      \* bound: no file grows beyond this many lines
  Stamps,        \* the time stamps lines may carry
  MonthOf,       \* the month of each time stamp
  Logs,          \* the files' possible contents before the first run
  Appendable,    \* <<file, line>>: what the web server may append to which file
  LoaderBatch,   \* LOADER_BATCH_SIZE
  ParserBatch,   \* PARSER_BATCH_SIZE
  ChannelCap,    \* CHANNEL_CAPACITY
  MaxFaults      \* bound: crashes and read errors in a behaviour

File    == 1..NFiles
NoFile  == 0
NoMonth == 0     \* the empty string of current_month
Dropped == 0

\* Content of a file: at most MaxLines lines.
IsLog(s) == s \in Seq(Stamps \cup {Dropped}) /\ Len(s) <= MaxLines

\* Position of the first line of s that carries a time stamp.
IsFirstKept(s, i) ==
  /\ i \in 1..Len(s)
  /\ s[i] # Dropped
  /\ \A j \in 1..(i - 1) : s[j] = Dropped

ASSUME SizesAssumption ==
  /\ NFiles \in Nat \ {0}
  /\ MaxLines \in Nat \ {0}
  /\ LoaderBatch \in Nat \ {0}
  /\ ParserBatch \in Nat \ {0}
  /\ ChannelCap \in Nat \ {0}
  /\ MaxFaults \in Nat

ASSUME StampsAssumption ==
  /\ Stamps \subseteq Nat \ {0}
  /\ MonthOf \in [Stamps -> Nat \ {NoMonth}]
  /\ Appendable \subseteq File \X (Stamps \cup {Dropped})

\* Every file starts with a stamped line somewhere, and process_globs has
\* sorted the files by it.
ASSUME LogsAssumption ==
  \A L \in Logs :
    /\ DOMAIN L = File
    /\ \A f \in File : IsLog(L[f]) /\ \E i \in 1..Len(L[f]) : IsFirstKept(L[f], i)
    /\ \A f, g \in File : \A i \in 1..Len(L[f]), j \in 1..Len(L[g]) :
         f < g /\ IsFirstKept(L[f], i) /\ IsFirstKept(L[g], j) => L[f][i] <= L[g][j]

-----------------------------------------------------------------------------
VARIABLES
  log,        \* the files as the web server writes them
  \* The database, which survives a crash.
  count,      \* how often each line has been added to the tables
  stored,     \* parse_state row of each file
  dbMonth,    \* meta.current_month
  complete,   \* months finalize_month has marked complete
  dbSeen,     \* greatest last_seen_ts of visit_state
  lastLog,    \* meta.last_log_ts
  \* The run in progress.
  mode,       \* "idle" or "running"
  plan,       \* FileResumePlan of each file: offset to read from, stat size
  skipped,    \* files the order-based skip left out of this run
  todo,       \* files the loader has not started
  loader,     \* loader thread: the file being read and how far
  toParser,   \* channel loader -> parser
  parser,     \* parser thread: the lines it holds and the batch it fills
  toAgg,      \* channel parser -> aggregator
  agg,        \* aggregator: what it waits for, the active file, its batch
  acc,        \* RunAccumulators: lines counted since the last flush
  pending,    \* pending_parse_states
  month,      \* run_acc.current_month
  seen,       \* visit_max_seen_ts
  faults      \* crashes and read errors so far

dbVars   == <<count, stored, dbMonth, complete, dbSeen, lastLog>>
runVars  == <<mode, plan, skipped>>
loadVars == <<todo, loader>>
aggVars  == <<agg, acc, pending, month, seen>>
vars == <<log, dbVars, runVars, loadVars, toParser, parser, toAgg, aggVars, faults>>

Later(s, t) == IF s >= t THEN s ELSE t

\* A parse_state row; `known` is FALSE where there is none.
Row == [known : BOOLEAN, offset : Nat, size : Nat, completed : BOOLEAN]
NoRow == [known |-> FALSE, offset |-> 0, size |-> 0, completed |-> FALSE]
RowOf(off, sz, comp) == [known |-> TRUE, offset |-> off, size |-> sz, completed |-> comp]
NoPending == [f \in File |-> NoRow]
NoPlan    == [f \in File |-> [offset |-> 0, size |-> 0]]
NoCount   == [f \in File |-> [i \in 1..MaxLines |-> 0]]

\* LoaderMsg and ParserMsg.  lo..hi is the interval of lines a batch was
\* built from and off its current_offset or final_offset.
Msg == [kind : {"start", "lines", "entries", "fdone", "done"}, file : 0..NFiles,
        lo : Nat, hi : Nat, off : Nat, completed : BOOLEAN]
MsgOf(k, f, lo, hi, off, comp) ==
  [kind |-> k, file |-> f, lo |-> lo, hi |-> hi, off |-> off, completed |-> comp]
FileStart(f, p)          == MsgOf("start", f, p + 1, p, p, FALSE)
Lines(f, lo, hi)         == MsgOf("lines", f, lo, hi, hi, FALSE)
Entries(f, lo, hi, off)  == MsgOf("entries", f, lo, hi, off, FALSE)
FileDone(f, off, comp)   == MsgOf("fdone", f, off + 1, off, off, comp)
Done                     == MsgOf("done", NoFile, 1, 0, 0, FALSE)

IdleLoader == [open |-> FALSE, file |-> NoFile, pos |-> 0, eof |-> FALSE,
               done |-> FALSE, failed |-> FALSE]
IdleParser == [open |-> FALSE, file |-> NoFile, from |-> 1, at |-> 1, off |-> 0, done |-> FALSE]
IdleAgg    == [pc |-> "recv", active |-> FALSE, file |-> NoFile, at |-> 1, hi |-> 0, off |-> 0]

Init ==
  /\ log \in Logs
  /\ count = NoCount
  /\ stored = [f \in File |-> NoRow]
  /\ dbMonth = NoMonth /\ complete = {} /\ dbSeen = 0 /\ lastLog = 0
  /\ mode = "idle" /\ plan = NoPlan /\ skipped = {}
  /\ todo = {} /\ loader = IdleLoader
  /\ toParser = <<>> /\ parser = IdleParser /\ toAgg = <<>>
  /\ agg = IdleAgg /\ acc = NoCount /\ pending = NoPending
  /\ month = NoMonth /\ seen = 0
  /\ faults = 0

-----------------------------------------------------------------------------
(* Planning: which files need work and where each is read from. *)

\* Mutant: the row matches on the size alone.
MatchOnSize(f) == stored[f].known /\ stored[f].size = Len(log[f])

\* metadata_exact_match for a file that keeps its inode and whose mtime
\* changes when it grows.
MetadataExactMatch(f) ==
  /\ stored[f].known /\ stored[f].completed
  /\ stored[f].offset >= Len(log[f])
  /\ stored[f].size = Len(log[f])

\* Files the cheap check of phase 0a does not settle.
Pending == {f \in File : ~MetadataExactMatch(f)}

\* read_first_line_ts(f) is before last_log_ts.
StartsBefore(f, ts) == \E i \in 1..Len(log[f]) : IsFirstKept(log[f], i) /\ log[f][i] < ts

\* Mutant: the boundary file is skipped too.
SkipThroughBoundary ==
  {f \in Pending : \E g \in Pending : f <= g /\ StartsBefore(g, lastLog)}

\* Phase 0b: the pending files before the last one that starts before
\* last_log_ts are taken for processed.
OrderSkip ==
  {f \in Pending : \E g \in Pending : f < g /\ StartsBefore(g, lastLog)}

\* derive_resume_point: PlainExtended from the stored offset, else from zero.
ResumeOffset(f) ==
  IF stored[f].offset <= Len(log[f]) THEN stored[f].offset ELSE Len(log[f])

StartRun ==
  /\ mode = "idle"
  /\ Pending # {}
  /\ mode' = "running"
  /\ plan' = [f \in File |-> [offset |-> ResumeOffset(f), size |-> Len(log[f])]]
  /\ skipped' = OrderSkip
  /\ todo' = Pending \ OrderSkip
  /\ month' = dbMonth
  /\ seen' = dbSeen
  /\ UNCHANGED <<log, dbVars, loader, toParser, parser, toAgg, agg, acc, pending, faults>>

\* Every file is settled by phase 0a: run_pipeline returns before it makes
\* a thread and flush_run finds nothing to write.
EmptyRun ==
  /\ mode = "idle"
  /\ Pending = {}
  /\ UNCHANGED vars

\* The threads and everything the run held in memory are gone.
Stop ==
  /\ mode' = "idle" /\ plan' = NoPlan /\ skipped' = {}
  /\ todo' = {} /\ loader' = IdleLoader
  /\ toParser' = <<>> /\ parser' = IdleParser /\ toAgg' = <<>>
  /\ agg' = IdleAgg /\ acc' = NoCount /\ pending' = NoPending
  /\ month' = NoMonth /\ seen' = 0

-----------------------------------------------------------------------------
(* Loader thread: run_loader, read_plain, read_compressed. *)

\* Mutant: one message too many.
HasRoomForOneMore(ch) == Len(ch) <= ChannelCap

HasRoom(ch) == Len(ch) < ChannelCap

PushToParser(m) == HasRoom(toParser) /\ toParser' = Append(toParser, m)

LoaderVarsOnly == UNCHANGED <<log, dbVars, runVars, parser, toAgg, aggVars>>

LoaderFileStart ==
  /\ ~loader.open /\ ~loader.done
  /\ \E f \in todo :
       /\ \A g \in todo : f <= g
       /\ PushToParser(FileStart(f, plan[f].offset))
       /\ todo' = todo \ {f}
       /\ loader' = [loader EXCEPT !.open = TRUE, !.file = f, !.pos = plan[f].offset,
                                   !.eof = FALSE]
  /\ UNCHANGED faults
  /\ LoaderVarsOnly

\* A full batch, or what is left at the end of the file.
LoaderLines ==
  /\ loader.open /\ ~loader.eof
  /\ loader.pos < Len(log[loader.file])
  /\ LET left == Len(log[loader.file]) - loader.pos
         end  == IF left >= LoaderBatch THEN loader.pos + LoaderBatch
                                        ELSE Len(log[loader.file])
     IN /\ PushToParser(Lines(loader.file, loader.pos + 1, end))
        /\ loader' = [loader EXCEPT !.pos = end, !.eof = left < LoaderBatch]
  /\ UNCHANGED <<todo, faults>>
  /\ LoaderVarsOnly

LoaderFileDone ==
  /\ loader.open
  /\ loader.eof \/ loader.pos >= Len(log[loader.file])
  /\ PushToParser(FileDone(loader.file, loader.pos, loader.pos >= plan[loader.file].size))
  /\ loader' = [loader EXCEPT !.open = FALSE]
  /\ UNCHANGED <<todo, faults>>
  /\ LoaderVarsOnly

LoaderDone ==
  /\ mode = "running" /\ ~loader.open /\ ~loader.done /\ todo = {}
  /\ PushToParser(Done)
  /\ loader' = [loader EXCEPT !.done = TRUE]
  /\ UNCHANGED <<todo, faults>>
  /\ LoaderVarsOnly

\* Mutant: the reading thread dies without a word.
LoaderErrorSilent ==
  /\ loader.open /\ ~loader.done
  /\ faults < MaxFaults
  /\ loader' = [loader EXCEPT !.open = FALSE, !.done = TRUE, !.failed = TRUE]
  /\ faults' = faults + 1
  /\ UNCHANGED <<todo, toParser>>
  /\ LoaderVarsOnly

\* Mutant: the error is not reported to the thread that joins the loader.
LoaderErrorSwallowed ==
  /\ loader.open /\ ~loader.done
  /\ faults < MaxFaults
  /\ PushToParser(Done)
  /\ loader' = [loader EXCEPT !.open = FALSE, !.done = TRUE]
  /\ faults' = faults + 1
  /\ UNCHANGED todo
  /\ LoaderVarsOnly

\* Opening, decoding or reading the file failed: Done without FileDone, and
\* the lines of the batch being filled are never sent.
LoaderError ==
  /\ loader.open /\ ~loader.done
  /\ faults < MaxFaults
  /\ PushToParser(Done)
  /\ loader' = [loader EXCEPT !.open = FALSE, !.done = TRUE, !.failed = TRUE]
  /\ faults' = faults + 1
  /\ UNCHANGED todo
  /\ LoaderVarsOnly

-----------------------------------------------------------------------------
(* Parser thread: run_parser.  A message whose handling only pushes it on  *)
(* leaves the channel in the step that pushes it.                          *)

Kept(f, lo, hi) == {i \in lo..hi : log[f][i] # Dropped}

PushToAgg(m) == HasRoom(toAgg) /\ toAgg' = Append(toAgg, m)

ParserVarsOnly == UNCHANGED <<log, dbVars, runVars, loadVars, aggVars, faults>>

\* Every line of the batch in hand has been looked at.
ParserFree == parser.at > parser.off

ParserFileStart ==
  /\ ParserFree /\ toParser # <<>>
  /\ Head(toParser).kind = "start"
  /\ PushToAgg(Head(toParser))
  /\ toParser' = Tail(toParser)
  /\ parser' = [parser EXCEPT !.open = TRUE, !.file = Head(toParser).file,
                              !.from = Head(toParser).lo, !.at = Head(toParser).lo,
                              !.off = Head(toParser).off]
  /\ ParserVarsOnly

\* current_offset becomes the end of the whole batch before its first line
\* is parsed.
ParserTakeLines ==
  /\ ParserFree /\ toParser # <<>>
  /\ Head(toParser).kind = "lines"
  /\ toParser' = Tail(toParser)
  /\ parser' = [parser EXCEPT !.at = Head(toParser).lo, !.off = Head(toParser).off]
  /\ UNCHANGED toAgg
  /\ ParserVarsOnly

\* The line at hand is kept and fills the entry batch.
BatchFull ==
  /\ log[parser.file][parser.at] # Dropped
  /\ Cardinality(Kept(parser.file, parser.from, parser.at)) >= ParserBatch

ParseLine ==
  /\ ~ParserFree /\ ~BatchFull
  /\ parser' = [parser EXCEPT !.at = @ + 1]
  /\ UNCHANGED <<toParser, toAgg>>
  /\ ParserVarsOnly

ParseLineFull ==
  /\ ~ParserFree /\ BatchFull
  /\ PushToAgg(Entries(parser.file, parser.from, parser.at, parser.off))
  /\ parser' = [parser EXCEPT !.at = @ + 1, !.from = parser.at + 1]
  /\ UNCHANGED toParser
  /\ ParserVarsOnly

\* Mutant: the partial entry batch is forgotten at the end of a file.
PartialBatchForgotten == TRUE

EntryBatchEmpty == Kept(parser.file, parser.from, parser.at - 1) = {}

AtEnd == ParserFree /\ toParser # <<>> /\ Head(toParser).kind \in {"fdone", "done"}

\* FileDone or Done first pushes the partial entry batch.
ParserFlushBatch ==
  /\ AtEnd /\ ~EntryBatchEmpty
  /\ PushToAgg(Entries(parser.file, parser.from, parser.at - 1, parser.off))
  /\ parser' = [parser EXCEPT !.from = parser.at]
  /\ UNCHANGED toParser
  /\ ParserVarsOnly

ParserFileDone ==
  /\ AtEnd /\ EntryBatchEmpty
  /\ Head(toParser).kind = "fdone"
  /\ PushToAgg(Head(toParser))
  /\ toParser' = Tail(toParser)
  /\ parser' = [parser EXCEPT !.open = FALSE, !.from = Head(toParser).lo,
                              !.at = Head(toParser).lo, !.off = Head(toParser).off]
  /\ ParserVarsOnly

ParserDone ==
  /\ AtEnd /\ EntryBatchEmpty
  /\ Head(toParser).kind = "done"
  /\ PushToAgg(Head(toParser))
  /\ toParser' = Tail(toParser)
  /\ parser' = [parser EXCEPT !.done = TRUE]
  /\ ParserVarsOnly

-----------------------------------------------------------------------------
(* Aggregator: the loop of run_pipeline, and flush_run. *)

AggVarsOnly == UNCHANGED <<log, runVars, loadVars, toParser, parser, faults>>

Received(k) ==
  /\ agg.pc = "recv"
  /\ toAgg # <<>> /\ Head(toAgg).kind = k
  /\ toAgg' = Tail(toAgg)

\* Mutant: the accumulators keep what was committed.
FlushKeepingAccumulators(pend) ==
  /\ count' = [f \in File |-> [i \in 1..MaxLines |-> count[f][i] + acc[f][i]]]
  /\ stored' = [f \in File |-> IF pend[f].known THEN pend[f] ELSE stored[f]]
  /\ dbSeen' = Later(dbSeen, seen)
  /\ pending' = NoPending
  /\ UNCHANGED <<dbMonth, complete, lastLog, acc>>

\* Mutant: the tables are committed without the offsets.
FlushWithoutOffsets(pend) ==
  /\ count' = [f \in File |-> [i \in 1..MaxLines |-> count[f][i] + acc[f][i]]]
  /\ dbSeen' = Later(dbSeen, seen)
  /\ acc' = NoCount
  /\ pending' = NoPending
  /\ UNCHANGED <<dbMonth, complete, lastLog, stored>>

\* The transaction of Database::flush: what the run counted and the resume
\* offsets are committed together.  The accumulators are dropped with it:
\* nothing reads them before clear_for_new_month.
Flush(pend) ==
  /\ count' = [f \in File |-> [i \in 1..MaxLines |-> count[f][i] + acc[f][i]]]
  /\ stored' = [f \in File |-> IF pend[f].known THEN pend[f] ELSE stored[f]]
  /\ dbSeen' = Later(dbSeen, seen)
  /\ acc' = NoCount
  /\ pending' = NoPending
  /\ UNCHANGED <<dbMonth, complete, lastLog>>

\* Mutant: the active file is resumed from where this run began.
PartialAtPlannedOffset(off) ==
  [pending EXCEPT ![agg.file] = RowOf(plan[agg.file].offset, plan[agg.file].size, FALSE)]

\* partial_parse_state of the active file, added to the pending states.
WithPartial(off) ==
  [pending EXCEPT ![agg.file] = RowOf(off, plan[agg.file].size, FALSE)]

AggFileStart ==
  /\ Received("start")
  /\ agg' = [agg EXCEPT !.active = TRUE, !.file = Head(toAgg).file,
                        !.at = Head(toAgg).lo, !.hi = Head(toAgg).hi,
                        !.off = Head(toAgg).off]
  /\ UNCHANGED <<dbVars, acc, pending, month, seen>>
  /\ AggVarsOnly

AggEntries ==
  /\ Received("entries")
  /\ agg' = [agg EXCEPT !.pc = "entries", !.at = Head(toAgg).lo, !.hi = Head(toAgg).hi,
                        !.off = Head(toAgg).off]
  /\ UNCHANGED <<dbVars, acc, pending, month, seen>>
  /\ AggVarsOnly

\* i is the next entry of the batch.
NextEntry(i) ==
  /\ i \in Kept(agg.file, agg.at, agg.hi)
  /\ \A j \in Kept(agg.file, agg.at, agg.hi) : i <= j

EntryMonth(i) == MonthOf[log[agg.file][i]]

\* aggregate_entry; the very first entry also sets current_month.
AggregateEntry(i) ==
  /\ agg.pc = "entries" /\ NextEntry(i)
  /\ month \in {NoMonth, EntryMonth(i)}
  /\ acc' = [acc EXCEPT ![agg.file][i] = @ + 1]
  /\ seen' = Later(seen, log[agg.file][i])
  /\ month' = EntryMonth(i)
  /\ dbMonth' = IF month = NoMonth THEN EntryMonth(i) ELSE dbMonth
  /\ agg' = [agg EXCEPT !.at = i + 1]
  /\ UNCHANGED <<count, stored, complete, dbSeen, lastLog, toAgg, pending>>
  /\ AggVarsOnly

\* Mutant: the month is left to be resumed after the entry that ends it.
MonthBoundaryPastEntry(i) ==
  /\ agg.pc = "entries" /\ NextEntry(i)
  /\ month \notin {NoMonth, EntryMonth(i)}
  /\ Flush(WithPartial(i))
  /\ agg' = [agg EXCEPT !.pc = "ts_month"]
  /\ UNCHANGED <<toAgg, month, seen>>
  /\ AggVarsOnly

\* An entry of another month: flush the old month, to be resumed at the
\* start of this entry.
MonthBoundary(i) ==
  /\ agg.pc = "entries" /\ NextEntry(i)
  /\ month \notin {NoMonth, EntryMonth(i)}
  /\ Flush(WithPartial(i - 1))
  /\ agg' = [agg EXCEPT !.pc = "ts_month"]
  /\ UNCHANGED <<toAgg, month, seen>>
  /\ AggVarsOnly

\* set_last_log_ts, a statement of its own after the flush transaction.
SetLastLogTs ==
  /\ agg.pc \in {"ts_checkpoint", "ts_month"}
  /\ lastLog' = Later(lastLog, seen)
  /\ agg' = [agg EXCEPT !.pc = IF agg.pc = "ts_month" THEN "finalize" ELSE "recv"]
  /\ UNCHANGED <<count, stored, dbMonth, complete, dbSeen, toAgg, acc, pending, month, seen>>
  /\ AggVarsOnly

\* finalize_month, a transaction of its own.
FinalizeMonth ==
  /\ agg.pc = "finalize"
  /\ complete' = complete \cup {month}
  /\ agg' = [agg EXCEPT !.pc = "advance"]
  /\ UNCHANGED <<count, stored, dbMonth, dbSeen, lastLog, toAgg, acc, pending, month, seen>>
  /\ AggVarsOnly

\* set_meta current_month, then clear_for_new_month; the entry that crossed
\* the boundary is aggregated next.
AdvanceMonth(i) ==
  /\ agg.pc = "advance" /\ NextEntry(i)
  /\ dbMonth' = EntryMonth(i)
  /\ month' = EntryMonth(i)
  /\ agg' = [agg EXCEPT !.pc = "entries"]
  /\ UNCHANGED <<count, stored, complete, dbSeen, lastLog, toAgg, acc, pending, seen>>
  /\ AggVarsOnly

BatchDone == agg.pc = "entries" /\ Kept(agg.file, agg.at, agg.hi) = {}

\* checkpoint_due is false.
NoCheckpoint ==
  /\ BatchDone
  /\ agg' = [agg EXCEPT !.pc = "recv", !.at = agg.hi + 1]
  /\ UNCHANGED <<dbVars, toAgg, acc, pending, month, seen>>
  /\ AggVarsOnly

\* checkpoint_due is true: it depends on the clock alone.
Checkpoint ==
  /\ BatchDone
  /\ Flush(WithPartial(agg.off))
  /\ agg' = [agg EXCEPT !.pc = "ts_checkpoint", !.at = agg.hi + 1]
  /\ UNCHANGED <<toAgg, month, seen>>
  /\ AggVarsOnly

AggFileDone ==
  /\ Received("fdone")
  /\ LET m == Head(toAgg)
     IN pending' = [pending EXCEPT ![m.file] =
                      RowOf(m.off, plan[m.file].size, m.completed)]
  /\ agg' = [agg EXCEPT !.active = FALSE]
  /\ UNCHANGED <<dbVars, acc, month, seen>>
  /\ AggVarsOnly

\* Done: join the threads; without a loader error process_globs makes the
\* final flush.  (FileDone has left a pending state, so flush_run has
\* something to write.)
FinalFlush ==
  /\ Received("done") /\ ~loader.failed
  /\ Flush(pending)
  /\ agg' = [agg EXCEPT !.pc = "ts_final"]
  /\ UNCHANGED <<month, seen>>
  /\ AggVarsOnly

EndRun ==
  /\ agg.pc = "ts_final"
  /\ lastLog' = Later(lastLog, seen)
  /\ Stop
  /\ UNCHANGED <<log, count, stored, dbMonth, complete, dbSeen, faults>>

\* Done after a read error: run_pipeline returns the error, nothing more is
\* written.
AbortRun ==
  /\ agg.pc = "recv"
  /\ toAgg # <<>> /\ Head(toAgg).kind = "done" /\ loader.failed
  /\ Stop
  /\ UNCHANGED <<log, dbVars, faults>>

-----------------------------------------------------------------------------
(* The environment. *)

\* The process dies, or a statement fails and its error ends the run: the
\* open transaction is rolled back.
Crash ==
  /\ mode = "running"
  /\ faults < MaxFaults
  /\ faults' = faults + 1
  /\ Stop
  /\ UNCHANGED <<log, dbVars>>

\* The web server appends a line, in the order of its clock.
AppendLine(f, t) ==
  /\ Len(log[f]) < MaxLines
  /\ t = Dropped \/ \A i \in 1..Len(log[f]) : log[f][i] <= t
  /\ log' = [log EXCEPT ![f] = Append(@, t)]
  /\ UNCHANGED <<dbVars, runVars, loadVars, toParser, parser, toAgg, aggVars, faults>>

-----------------------------------------------------------------------------
LoaderStep == LoaderFileStart \/ LoaderLines \/ LoaderFileDone \/ LoaderDone

ParserStep ==
  \/ ParserFileStart \/ ParserTakeLines \/ ParseLine \/ ParseLineFull
  \/ ParserFlushBatch \/ ParserFileDone \/ ParserDone

AggStep ==
  \/ AggFileStart \/ AggEntries
  \/ \E i \in 1..MaxLines : AggregateEntry(i) \/ MonthBoundary(i) \/ AdvanceMonth(i)
  \/ SetLastLogTs \/ FinalizeMonth
  \/ NoCheckpoint \/ Checkpoint
  \/ AggFileDone \/ FinalFlush \/ EndRun \/ AbortRun

Next ==
  \/ StartRun \/ EmptyRun
  \/ LoaderStep \/ LoaderError
  \/ ParserStep
  \/ AggStep
  \/ Crash
  \/ \E a \in Appendable : AppendLine(a[1], a[2])

Spec == Init /\ [][Next]_vars

\* Each thread keeps running: a thread that finds its channel full or empty
\* yields and tries again.  Nothing is assumed about read errors, crashes
\* and the web server.
FairSpec ==
  /\ Spec
  /\ WF_vars(LoaderStep) /\ WF_vars(ParserStep) /\ WF_vars(AggStep)

\* Webstat is run again and again.
RerunSpec == FairSpec /\ WF_vars(StartRun)

-----------------------------------------------------------------------------
(* Properties. *)

LogType == DOMAIN log = File /\ \A f \in File : IsLog(log[f])

CountType(c) == c \in [File -> [1..MaxLines -> Nat]]

DbType ==
  /\ CountType(count)
  /\ stored \in [File -> Row]
  /\ dbMonth \in Nat /\ complete \subseteq Nat /\ dbSeen \in Nat /\ lastLog \in Nat

RunType ==
  /\ mode \in {"idle", "running"}
  /\ plan \in [File -> [offset : Nat, size : Nat]]
  /\ skipped \subseteq File

LoaderType ==
  /\ todo \subseteq File
  /\ loader \in [open : BOOLEAN, file : 0..NFiles, pos : Nat, eof : BOOLEAN,
                 done : BOOLEAN, failed : BOOLEAN]

ParserType ==
  parser \in [open : BOOLEAN, file : 0..NFiles, from : Nat, at : Nat, off : Nat,
              done : BOOLEAN]

ChannelType(ch) == ch \in Seq(Msg) /\ Len(ch) <= ChannelCap

AggPc == {"recv", "entries", "ts_checkpoint", "ts_month", "finalize", "advance", "ts_final"}

AggType ==
  /\ agg \in [pc : AggPc, active : BOOLEAN, file : 0..NFiles, at : Nat, hi : Nat, off : Nat]
  /\ CountType(acc)
  /\ pending \in [File -> Row]
  /\ month \in Nat /\ seen \in Nat

\* The variables hold values of their types and a channel never holds more
\* than its capacity.
TypeOK ==
  /\ LogType /\ DbType /\ RunType
  /\ LoaderType /\ ChannelType(toParser) /\ ParserType /\ ChannelType(toAgg) /\ AggType
  /\ faults \in 0..MaxFaults

\* No line is added to the tables twice, whatever crashes, read errors and
\* repeated runs happen.
AtMostOnce == \A f \in File, i \in 1..MaxLines : count[f][i] <= 1

\* Every entry before the offset a file is resumed from has been counted, so
\* that a run which goes on from there misses nothing.
NothingLost ==
  \A f \in File : \A i \in 1..stored[f].offset :
    log[f][i] # Dropped => count[f][i] >= 1

\* As long as every run got to its end, nothing before a resume offset is
\* missing between two runs, whatever lines the parser dropped.
FaultFreeLosesNothing == faults = 0 /\ mode = "idle" => NothingLost

\* What is waiting in the accumulators belongs to the month flush_run will
\* write it under.
SegmentInMonth ==
  \A f \in File, i \in 1..MaxLines :
    acc[f][i] > 0 => month = MonthOf[log[f][i]]

\* A file the order-based skip leaves out was entirely counted when the run
\* was planned.
SkippedAreDone ==
  \A f \in skipped : \A i \in 1..plan[f].size :
    log[f][i] # Dropped => count[f][i] >= 1

\* Once a month is finalized no commit adds a line to it.
ClosedMonthsStayClosed ==
  [][\A f \in File, i \in 1..MaxLines :
       count'[f][i] # count[f][i] => MonthOf[log[f][i]] \notin complete]_vars

\* A run that has started ends, whatever the capacities of the channels.
RunEnds == (mode = "running") ~> (mode = "idle")

AllCounted ==
  \A f \in File : \A i \in 1..Len(log[f]) : log[f][i] # Dropped => count[f][i] = 1


-----------------------------------------------------------------------------
(* The database as an atomic ledger of lines: threads, channels, batches,  *)
(* runs, crashes and read errors are stuttering steps of it.               *)
L == INSTANCE Ledger WITH offset <- [f \in File |-> stored[f].offset]

\* Each commit of a run is one step of a ledger that never adds a line twice.
ImplementsAtMostOnce == L!AtMostOnceSpec

\* As long as the parser drops no line, so that the entry batches keep step
\* with the line batches, each commit adds every line exactly once.
ImplementsExactlyOnce == L!ExactlyOnceSpec

\* If webstat is run again and again, every entry is finally counted once, as
\* long as the parser drops no line.
EventuallyCounted == <>[](L!NothingDropped => AllCounted)

=============================================================================
