--------------------------- MODULE PipelineProofs ---------------------------
(***************************************************************************)
(* Proofs about Pipeline, for every number of files and lines, every       *)
(* batch size and channel capacity and every number of faults: what a run  *)
(* does not count twice, by IInv, and what it does not lose, by FullInv,   *)
(* which is inductive together with IInv.  For logs that are written one   *)
(* after the other, by OrderInv: no month is written to after it was       *)
(* finalized, and the order-based skip leaves out nothing uncounted.       *)
(***************************************************************************)
EXTENDS PipelineOrder, FiniteSetTheorems, TLAPS

\* Naming the assumptions once for the steps that need types.
USE SizesAssumption, StampsAssumption

-----------------------------------------------------------------------------
(* The initial state. *)

LEMMA InitIInv == Init => IInv
<1> SUFFICES ASSUME Init PROVE IInv
  OBVIOUS
<1>1. LogType
  BY LogsAssumption DEF Init, LogType
<1>2. TypeOK
  BY <1>1 DEF Init, TypeOK, DbType, RunType, LoaderType, ParserType, ChannelType, AggType,
              CountType, AggPc, NoCount, NoRow, Row, NoPlan, NoPending, IdleLoader,
              IdleParser, IdleAgg, NoFile, NoMonth, File
<1>3. QuietWhenIdle
  BY DEF Init, QuietWhenIdle
<1>4. LoaderOK
  BY <1>1 DEF Init, LoaderOK, IdleLoader, NoPlan, LogType, IsLog
<1>5. ParserOK
  BY DEF Init, ParserOK, IdleParser, ParserFree
<1>6. ToParserOK
  BY DEF Init, ToParserOK, CarriesOK, HasDone, InOrder, Behind, LoaderAt, ParserInAt,
         IdleLoader, IdleParser, NoFile
<1>7. ToAggOK
  BY DEF Init, ToAggOK, CarriesOK, HasDone, InOrder, Behind, ParserOutAt, AggAt,
         IdleParser, IdleAgg, NoFile
<1>8. AggOK
  BY DEF Init, AggOK, IdleAgg
<1>9. CountOK
  BY DEF Init, CountOK, NoCount, Once, Touched
<1> QED
  BY <1>2, <1>3, <1>4, <1>5, <1>6, <1>7, <1>8, <1>9 DEF IInv

-----------------------------------------------------------------------------
(* Channels. *)

\* Pushing a message that may follow the sender's position keeps a channel
\* in order, and the sender stands behind the message.
LEMMA PushChannel ==
  ASSUME NEW q, ChannelType(q), HasRoom(q),
         NEW m \in Msg, MsgOK(m), NEW other, m.kind # other,
         CarriesOK(q, other), ~HasDone(q),
         NEW f, NEW h, InOrder(q, f, h),
         NEW sf, NEW sh, Behind(q, sf, sh, f, h), Follows(sf, sh, m)
  PROVE  LET r == Append(q, m)
         IN /\ ChannelType(r) /\ CarriesOK(r, other) /\ InOrder(r, f, h)
            /\ HasDone(r) => m.kind = "done"
            /\ Behind(r, m.file, After(m), f, h)
<1> DEFINE r == Append(q, m)
<1>1. q \in Seq(Msg) /\ r \in Seq(Msg) /\ Len(q) \in Nat /\ Len(r) = Len(q) + 1 /\ r # <<>>
  BY DEF ChannelType
<1>2. \A k \in 1..Len(r) : r[k] = IF k = Len(q) + 1 THEN m ELSE q[k]
  BY <1>1
<1> HIDE DEF r
<1>3. ChannelType(r)
  BY <1>1 DEF ChannelType, HasRoom
<1>4. CarriesOK(r, other) /\ (HasDone(r) => m.kind = "done")
  BY SMTT(30), <1>1, <1>2 DEF CarriesOK, HasDone
<1>5. Behind(r, m.file, After(m), f, h)
  BY <1>1, <1>2 DEF Behind
<1>6. Follows(f, h, r[1])
  <2>1. CASE q = <<>>
    BY <2>1, <1>1, <1>2 DEF Behind
  <2>2. CASE q # <<>>
    BY <2>2, <1>1, <1>2 DEF InOrder
  <2> QED
    BY <2>1, <2>2
<1>7. ASSUME NEW k \in 1..(Len(r) - 1)
      PROVE  r[k].kind # "done" /\ Follows(r[k].file, After(r[k]), r[k + 1])
  <2>1. CASE k < Len(q)
    BY <2>1, <1>1, <1>2 DEF InOrder
  <2>2. CASE k = Len(q)
    BY <2>2, <1>1, <1>2 DEF Behind, HasDone
  <2> QED
    BY <2>1, <2>2, <1>1
<1> QED
  BY <1>3, <1>4, <1>5, <1>6, <1>7 DEF InOrder, r

\* Taking the head of a channel leaves it in order for a receiver that moves
\* to the message it took, and Done is the last message.
LEMMA PopChannel ==
  ASSUME NEW q, ChannelType(q), q # <<>>, NEW other, CarriesOK(q, other),
         NEW f, NEW h, InOrder(q, f, h)
  PROVE  LET m == Head(q)
             r == Tail(q)
         IN /\ m \in Msg /\ MsgOK(m) /\ m.kind # other /\ Follows(f, h, m)
            /\ m.kind = "done" => r = <<>> /\ HasDone(q)
            /\ ChannelType(r) /\ CarriesOK(r, other) /\ InOrder(r, m.file, After(m))
            /\ HasDone(r) => HasDone(q)
            /\ \A sf, sh : Behind(q, sf, sh, f, h) => Behind(r, sf, sh, m.file, After(m))
<1> DEFINE m == Head(q)
           r == Tail(q)
<1>1. /\ q \in Seq(Msg) /\ Len(q) \in Nat /\ Len(q) > 0 /\ m = q[1] /\ m \in Msg
      /\ Len(r) = Len(q) - 1 /\ r \in Seq(Msg)
  <2>1. q \in Seq(Msg) /\ Len(q) \in Nat /\ Len(q) > 0
    BY DEF ChannelType
  <2> QED
    BY <2>1
<1>2. \A k \in 1..Len(r) : r[k] = q[k + 1]
  BY <1>1
<1> HIDE DEF m, r
<1>3. r # <<>> <=> Len(r) > 0
  BY <1>1
<1>4. ChannelType(r) /\ CarriesOK(r, other) /\ (HasDone(r) => HasDone(q))
  BY SMTT(30), <1>1, <1>2 DEF ChannelType, CarriesOK, HasDone
<1>5. MsgOK(m) /\ m.kind # other /\ Follows(f, h, m)
  BY <1>1 DEF CarriesOK, InOrder
<1>6. m.kind = "done" => r = <<>> /\ HasDone(q)
  BY <1>1, <1>3 DEF InOrder, HasDone
<1>7. InOrder(r, m.file, After(m))
  <2>1. r # <<>> => Follows(m.file, After(m), r[1])
    BY <1>1, <1>2, <1>3 DEF InOrder
  <2>2. ASSUME NEW k \in 1..(Len(r) - 1)
        PROVE  r[k].kind # "done" /\ Follows(r[k].file, After(r[k]), r[k + 1])
    <3>1. k + 1 \in 1..(Len(q) - 1) /\ r[k] = q[k + 1] /\ r[k + 1] = q[(k + 1) + 1]
      BY SMTT(30), <1>1, <1>2
    <3> QED
      BY <3>1 DEF InOrder
  <2> QED
    BY <2>1, <2>2 DEF InOrder
<1>8. ASSUME NEW sf, NEW sh, Behind(q, sf, sh, f, h)
      PROVE  Behind(r, sf, sh, m.file, After(m))
  <2>1. CASE r = <<>>
    <3>1. Len(q) = 1 /\ q # <<>>
      BY <2>1, <1>1, <1>3
    <3> QED
      BY <2>1, <3>1, <1>1, <1>8 DEF Behind
  <2>2. CASE r # <<>>
    BY <2>2, <1>1, <1>2, <1>3, <1>8 DEF Behind
  <2> QED
    BY <2>1, <2>2
<1> QED
  BY <1>1, <1>4, <1>5, <1>6, <1>7, <1>8 DEF m, r

-----------------------------------------------------------------------------
(* Loader steps. *)

\* A thread is there only while a run is.
LEMMA Running ==
  ASSUME IInv,
         \/ loader # IdleLoader \/ todo # {} \/ toParser # <<>> \/ parser # IdleParser
         \/ toAgg # <<>> \/ agg # IdleAgg
  PROVE  mode = "running"
BY DEF IInv, TypeOK, RunType, QuietWhenIdle

\* What pushing a message does to the channel of the loader.
LEMMA ToParserPush ==
  ASSUME IInv, NEW m \in Msg, MsgOK(m), m.kind # "entries",
         Follows(loader.file, LoaderAt, m), PushToParser(m), ~loader.done,
         UNCHANGED <<log, plan, parser>>, loader.failed => loader'.failed,
         m.kind = "done" => loader'.done,
         ~loader'.done => loader'.file = m.file /\ LoaderAt' = After(m)
  PROVE  ToParserOK' /\ ChannelType(toParser)'
<1>1. /\ ChannelType(toParser') /\ CarriesOK(toParser', "entries")
      /\ InOrder(toParser', parser.file, ParserInAt)
      /\ HasDone(toParser') => m.kind = "done"
      /\ Behind(toParser', m.file, After(m), parser.file, ParserInAt)
  BY PushChannel DEF IInv, TypeOK, ToParserOK, PushToParser
<1>2. CarriesOK(toParser, "entries")'
  BY <1>1 DEF CarriesOK, MsgOK
<1>3. HasDone(toParser)' => loader'.done
  BY <1>1 DEF HasDone
<1>4. InOrder(toParser, parser.file, ParserInAt)'
  BY <1>1 DEF InOrder, Follows, After, ParserInAt
<1>5. ~loader'.done => Behind(toParser, loader.file, LoaderAt, parser.file, ParserInAt)'
  BY <1>1 DEF Behind, After, ParserInAt
<1>6. ChannelType(toParser)'
  BY <1>1 DEF ChannelType
<1> QED
  BY <1>2, <1>3, <1>4, <1>5, <1>6 DEF ToParserOK

\* The parts of the invariant a loader step leaves alone.
LEMMA LoaderStepFrame ==
  ASSUME IInv, LoaderVarsOnly, mode = "running", ~loader.done,
         loader.failed => loader'.failed, faults' \in 0..MaxFaults,
         LoaderType', LoaderOK', ToParserOK', ChannelType(toParser)'
  PROVE  IInv'
<1>1. UNCHANGED <<log, count, stored, dbMonth, complete, dbSeen, lastLog, mode, plan, skipped,
                  parser, toAgg, agg, acc, pending, month, seen>>
  BY DEF LoaderVarsOnly, dbVars, runVars, aggVars
<1>2. TypeOK'
  BY <1>1 DEF IInv, TypeOK, LogType, DbType, RunType, ParserType, ChannelType, AggType
<1>3. QuietWhenIdle'
  BY <1>1 DEF QuietWhenIdle
<1>4. ParserOK'
  BY <1>1 DEF IInv, ParserOK, ParserFree
<1>5. ToAggOK'
  <2>1. CarriesOK(toAgg, "lines")' /\ (HasDone(toAgg)' => parser'.done)
    BY <1>1 DEF IInv, ToAggOK, CarriesOK, MsgOK, HasDone
  <2>2. InOrder(toAgg, agg.file, AggAt)'
    BY SMTT(30), <1>1 DEF IInv, ToAggOK, InOrder, Follows, After, AggAt
  <2>3. ~parser'.done => Behind(toAgg, parser.file, ParserOutAt, agg.file, AggAt)'
    BY <1>1 DEF IInv, ToAggOK, Behind, After, ParserOutAt, AggAt
  <2> QED
    BY <2>1, <2>2, <2>3 DEF ToAggOK
<1>6. AggOK'
  BY <1>1 DEF IInv, AggOK
<1>7. CountOK'
  BY <1>1 DEF IInv, CountOK, Once, Touched, NextOffset
<1> QED
  BY <1>2, <1>3, <1>4, <1>5, <1>6, <1>7 DEF IInv

\* What the loader reads lies in its file.
LEMMA LoaderFacts ==
  ASSUME IInv
  PROVE  /\ loader.file \in 0..NFiles /\ loader.pos \in Nat /\ todo \subseteq File
         /\ {loader.open, loader.eof, loader.done, loader.failed} \subseteq BOOLEAN
         /\ \A f \in File : /\ Len(log[f]) \in Nat
                            /\ plan[f].offset \in Nat /\ plan[f].size \in Nat
                            /\ plan[f].offset <= Len(log[f])
         /\ loader.open => loader.file \in File /\ loader.pos <= Len(log[loader.file])
BY DEF IInv, TypeOK, LogType, IsLog, RunType, LoaderType, LoaderOK

LEMMA LoaderFileStartInv == IInv /\ LoaderFileStart => IInv'
<1> SUFFICES ASSUME IInv, LoaderFileStart PROVE IInv'
  OBVIOUS
<1>1. PICK f \in todo :
        /\ \A g \in todo : f <= g
        /\ PushToParser(FileStart(f, plan[f].offset))
        /\ todo' = todo \ {f}
        /\ loader' = [loader EXCEPT !.open = TRUE, !.file = f, !.pos = plan[f].offset,
                                    !.eof = FALSE]
  BY DEF LoaderFileStart
<1>2. ~loader.open /\ ~loader.done /\ LoaderVarsOnly /\ UNCHANGED faults
  BY DEF LoaderFileStart
<1>3. UNCHANGED <<log, plan, parser>>
  BY <1>2 DEF LoaderVarsOnly, runVars
<1>4. f \in File /\ f \in 1..NFiles /\ mode = "running"
  BY LoaderFacts, Running DEF File
<1> DEFINE m == FileStart(f, plan[f].offset)
<1>5. /\ m \in Msg /\ MsgOK(m) /\ m.kind = "start" /\ m.file = f
      /\ m.lo = m.hi + 1 /\ m.hi = plan[f].offset /\ m.off = m.hi
  BY <1>4, LoaderFacts DEF FileStart, MsgOf, Msg, MsgOK
<1>6. /\ loader'.open /\ loader'.file = f /\ loader'.pos = plan[f].offset
      /\ loader'.done = loader.done /\ loader'.failed = loader.failed
      /\ LoaderType'
  <2>1. loader \in [open : BOOLEAN, file : 0..NFiles, pos : Nat, eof : BOOLEAN,
                    done : BOOLEAN, failed : BOOLEAN]
    BY DEF IInv, TypeOK, LoaderType
  <2>2. plan[f].offset \in Nat /\ f \in 0..NFiles /\ todo' \subseteq File
    BY <1>1, <1>4, LoaderFacts
  <2> QED
    BY <1>1, <2>1, <2>2 DEF LoaderType
<1>7. LoaderOK'
  <2>1. \A g \in todo' : f < g
    BY <1>1, LoaderFacts DEF File
  <2> QED
    BY <2>1, <1>2, <1>3, <1>4, <1>6, LoaderFacts DEF LoaderOK
<1> HIDE DEF m
<1>8. ToParserOK' /\ ChannelType(toParser)'
  <2>1. Follows(loader.file, LoaderAt, m)
    BY <1>2, <1>4, <1>5 DEF Follows, LoaderAt, IInv, LoaderOK
  <2>2. LoaderAt' = After(m)
    BY <1>5, <1>6 DEF LoaderAt, After
  <2>3. PushToParser(m)
    BY <1>1 DEF m
  <2> QED
    BY <2>1, <2>2, <2>3, <1>2, <1>3, <1>5, <1>6, ToParserPush
<1> QED
  BY <1>2, <1>4, <1>6, <1>7, <1>8, LoaderStepFrame DEF IInv, TypeOK

LEMMA LoaderLinesInv == IInv /\ LoaderLines => IInv'
<1> SUFFICES ASSUME IInv, LoaderLines PROVE IInv'
  OBVIOUS
<1> DEFINE left == Len(log[loader.file]) - loader.pos
           end  == IF left >= LoaderBatch THEN loader.pos + LoaderBatch
                                          ELSE Len(log[loader.file])
           eof  == left < LoaderBatch
           m    == Lines(loader.file, loader.pos + 1, end)
<1>1. /\ loader.open /\ ~loader.done /\ loader.file \in File /\ loader.pos \in Nat
      /\ loader.pos < Len(log[loader.file]) /\ Len(log[loader.file]) \in Nat
      /\ mode = "running"
  BY LoaderFacts, Running DEF LoaderLines, IInv, LoaderOK, IdleLoader
<1>2. end \in Nat /\ loader.pos < end /\ end <= Len(log[loader.file])
  BY <1>1
<1>3. /\ m \in Msg /\ MsgOK(m) /\ m.kind = "lines" /\ m.hi = end /\ m.file = loader.file
      /\ m.lo = loader.pos + 1
  BY <1>1, <1>2 DEF Lines, MsgOf, Msg, MsgOK, File
<1>4. /\ PushToParser(m) /\ LoaderVarsOnly /\ UNCHANGED <<log, plan, parser, todo, faults>>
      /\ loader' = [loader EXCEPT !.pos = end, !.eof = eof]
  BY DEF LoaderLines, LoaderVarsOnly, runVars
<1>5. eof \in BOOLEAN
  OBVIOUS
<1> HIDE DEF left, end, eof, m
<1>6. /\ loader'.open /\ loader'.file = loader.file /\ loader'.pos = end
      /\ loader'.done = loader.done /\ loader'.failed = loader.failed
      /\ LoaderType'
  <2>1. loader \in [open : BOOLEAN, file : 0..NFiles, pos : Nat, eof : BOOLEAN,
                    done : BOOLEAN, failed : BOOLEAN]
    BY DEF IInv, TypeOK, LoaderType
  <2>2. todo' \subseteq File
    BY <1>4, LoaderFacts
  <2> QED
    BY <1>1, <1>2, <1>4, <1>5, <2>1, <2>2 DEF LoaderType
<1>7. LoaderOK'
  BY <1>1, <1>2, <1>4, <1>6 DEF IInv, LoaderOK
<1>8. ToParserOK' /\ ChannelType(toParser)'
  <2>1. Follows(loader.file, LoaderAt, m)
    BY <1>1, <1>3 DEF Follows, LoaderAt, Shut
  <2>2. LoaderAt' = After(m)
    BY <1>3, <1>6 DEF LoaderAt, After
  <2> QED
    BY <2>1, <2>2, <1>1, <1>3, <1>4, <1>6, ToParserPush
<1> QED
  BY <1>1, <1>4, <1>6, <1>7, <1>8, LoaderStepFrame DEF IInv, TypeOK

LEMMA LoaderFileDoneInv == IInv /\ LoaderFileDone => IInv'
<1> SUFFICES ASSUME IInv, LoaderFileDone PROVE IInv'
  OBVIOUS
<1> DEFINE comp == loader.pos >= plan[loader.file].size
           m    == FileDone(loader.file, loader.pos, comp)
<1>1. /\ loader.open /\ ~loader.done /\ loader.file \in File /\ loader.pos \in Nat
      /\ loader.pos <= Len(log[loader.file]) /\ mode = "running"
  BY LoaderFacts, Running DEF LoaderFileDone, IInv, LoaderOK, IdleLoader
<1>2. comp \in BOOLEAN
  OBVIOUS
<1>3. /\ PushToParser(m) /\ LoaderVarsOnly /\ UNCHANGED <<log, plan, parser, todo, faults>>
      /\ loader' = [loader EXCEPT !.open = FALSE]
  BY DEF LoaderFileDone, LoaderVarsOnly, runVars
<1> HIDE DEF comp
<1>4. /\ m \in Msg /\ MsgOK(m) /\ m.kind = "fdone" /\ m.file = loader.file
      /\ m.lo = m.off + 1 /\ m.hi = m.off /\ loader.pos < m.lo
  <2>1. m = [kind |-> "fdone", file |-> loader.file, lo |-> loader.pos + 1,
             hi |-> loader.pos, off |-> loader.pos, completed |-> comp]
    BY DEF FileDone, MsgOf
  <2> HIDE DEF m
  <2> QED
    BY <1>1, <1>2, <2>1, LoaderFacts DEF Msg, MsgOK, File
<1> HIDE DEF m
<1>5. /\ ~loader'.open /\ loader'.file = loader.file
      /\ loader'.done = loader.done /\ loader'.failed = loader.failed
      /\ LoaderType'
  <2>1. loader \in [open : BOOLEAN, file : 0..NFiles, pos : Nat, eof : BOOLEAN,
                    done : BOOLEAN, failed : BOOLEAN]
    BY DEF IInv, TypeOK, LoaderType
  <2>2. todo' \subseteq File
    BY <1>3, LoaderFacts
  <2> QED
    BY <1>3, <2>1, <2>2 DEF LoaderType
<1>6. LoaderOK'
  BY <1>1, <1>3, <1>5 DEF IInv, LoaderOK
<1>7. ToParserOK' /\ ChannelType(toParser)'
  <2>1. Follows(loader.file, LoaderAt, m)
    BY <1>1, <1>4 DEF Follows, LoaderAt, Shut
  <2>2. LoaderAt' = After(m)
    BY <1>4, <1>5 DEF LoaderAt, After
  <2> QED
    BY <2>1, <2>2, <1>1, <1>3, <1>4, <1>5, ToParserPush
<1> QED
  BY <1>1, <1>3, <1>5, <1>6, <1>7, LoaderStepFrame DEF IInv, TypeOK

LEMMA LoaderDoneInv == IInv /\ LoaderDone => IInv'
<1> SUFFICES ASSUME IInv, LoaderDone PROVE IInv'
  OBVIOUS
<1>1. /\ PushToParser(Done) /\ LoaderVarsOnly /\ UNCHANGED <<log, plan, parser, todo, faults>>
      /\ ~loader.done /\ ~loader.open /\ mode = "running"
      /\ loader' = [loader EXCEPT !.done = TRUE]
  BY DEF LoaderDone, LoaderVarsOnly, runVars
<1>2. Done \in Msg /\ MsgOK(Done) /\ Done.kind = "done"
  BY DEF Done, MsgOf, Msg, MsgOK, NoFile
<1>3. /\ ~loader'.open /\ loader'.file = loader.file /\ loader'.done
      /\ loader'.failed = loader.failed /\ LoaderType'
  BY <1>1 DEF IInv, TypeOK, LoaderType
<1>4. LoaderOK'
  BY <1>1, <1>3 DEF IInv, LoaderOK
<1>5. ToParserOK' /\ ChannelType(toParser)'
  <2>1. Follows(loader.file, LoaderAt, Done)
    BY <1>1, <1>2 DEF Follows, LoaderAt
  <2> QED
    BY <2>1, <1>1, <1>2, <1>3, ToParserPush
<1> QED
  BY <1>1, <1>3, <1>4, <1>5, LoaderStepFrame DEF IInv, TypeOK

\* The Done of a read error may follow an open file: from then on the loader
\* has failed.
LEMMA LoaderErrorInv == IInv /\ LoaderError => IInv'
<1> SUFFICES ASSUME IInv, LoaderError PROVE IInv'
  OBVIOUS
<1>1. /\ HasRoom(toParser) /\ toParser' = Append(toParser, Done)
      /\ LoaderVarsOnly /\ UNCHANGED <<log, plan, parser, todo>>
      /\ ~loader.done /\ mode = "running" /\ faults' \in 0..MaxFaults
      /\ loader' = [loader EXCEPT !.open = FALSE, !.done = TRUE, !.failed = TRUE]
  BY Running DEF LoaderError, PushToParser, LoaderVarsOnly, runVars, IdleLoader, IInv, TypeOK
<1>2. Done \in Msg /\ MsgOK(Done) /\ Done.kind = "done"
  BY DEF Done, MsgOf, Msg, MsgOK, NoFile
<1>3. /\ ~loader'.open /\ loader'.file = loader.file /\ loader'.done /\ loader'.failed
      /\ LoaderType'
  BY <1>1 DEF IInv, TypeOK, LoaderType
<1>4. LoaderOK'
  BY <1>1, <1>3 DEF IInv, LoaderOK
<1>5. ToParserOK' /\ ChannelType(toParser)'
  <2>1. /\ toParser \in Seq(Msg) /\ Len(toParser) \in Nat
        /\ toParser' \in Seq(Msg) /\ Len(toParser') = Len(toParser) + 1
        /\ Len(toParser) < ChannelCap
    BY <1>1, <1>2 DEF IInv, TypeOK, ChannelType, HasRoom
  <2>2. \A k \in 1..Len(toParser') :
          toParser'[k] = IF k = Len(toParser) + 1 THEN Done ELSE toParser[k]
    BY <1>1, <2>1
  <2>3. ChannelType(toParser)'
    BY <2>1 DEF ChannelType
  <2>4. CarriesOK(toParser, "entries")'
    BY <1>1, <1>2, <2>1, <2>2 DEF IInv, ToParserOK, CarriesOK, MsgOK
  <2>5. ~HasDone(toParser)
    BY <1>1 DEF IInv, ToParserOK
  <2>6. toParser' # <<>> => Follows(parser.file, ParserInAt, toParser[1])'
    <3>1. CASE toParser = <<>>
      BY <3>1, <1>2, <1>3, <2>1, <2>2 DEF Follows
    <3>2. CASE toParser # <<>>
      BY <3>2, <1>1, <1>3, <2>1, <2>2
         DEF IInv, ToParserOK, InOrder, Follows, ParserInAt, HasDone
    <3> QED
      BY <3>1, <3>2
  <2>7. ASSUME NEW k \in 1..(Len(toParser') - 1)
        PROVE  /\ toParser'[k].kind # "done"
               /\ Follows(toParser[k].file, After(toParser[k]), toParser[k + 1])'
    <3>1. toParser'[k] = toParser[k] /\ toParser[k].kind # "done"
      BY <2>1, <2>2, <2>5 DEF HasDone
    <3>2. CASE k = Len(toParser)
      BY <3>1, <3>2, <1>2, <1>3, <2>1, <2>2 DEF Follows
    <3>3. CASE k < Len(toParser)
      <4>1. /\ toParser'[k + 1] = toParser[k + 1]
            /\ Follows(toParser[k].file, After(toParser[k]), toParser[k + 1])
        BY <3>3, <2>1, <2>2 DEF IInv, ToParserOK, InOrder
      <4> QED
        BY <4>1, <3>1, <1>1, <1>3 DEF Follows, After
    <3> QED
      BY <3>1, <3>2, <3>3, <2>1
  <2> QED
    BY <1>3, <2>3, <2>4, <2>6, <2>7 DEF ToParserOK, InOrder
<1> QED
  BY <1>1, <1>3, <1>4, <1>5, LoaderStepFrame

-----------------------------------------------------------------------------
(* Parser steps. *)

LEMMA ParserFacts ==
  ASSUME IInv
  PROVE  /\ parser.file \in 0..NFiles /\ parser.from \in Nat /\ parser.at \in Nat
         /\ parser.off \in Nat /\ parser.open \in BOOLEAN /\ parser.done \in BOOLEAN
         /\ 1 <= parser.from /\ parser.from <= parser.at /\ parser.at <= parser.off + 1
         /\ parser.open => parser.file \in File /\ parser.off <= Len(log[parser.file])
         /\ ~parser.open => ParserFree /\ parser.from = parser.at
         /\ parser.done => toParser = <<>> /\ ParserFree
BY DEF IInv, TypeOK, ParserType, ParserOK

\* The next message of the loader.
LEMMA ToParserHead ==
  ASSUME IInv, toParser # <<>>
  PROVE  LET m == Head(toParser)
         IN /\ m \in Msg /\ MsgOK(m) /\ m.kind # "entries"
            /\ Follows(parser.file, ParserInAt, m)
            /\ m.kind = "done" => Tail(toParser) = <<>> /\ loader.done
            /\ ~parser.done /\ mode = "running"
<1>1. ~parser.done /\ mode = "running"
  BY Running DEF IInv, ParserOK
<1> QED
  BY <1>1, PopChannel DEF IInv, TypeOK, ToParserOK

LEMMA ToParserPop ==
  ASSUME IInv, toParser # <<>>, toParser' = Tail(toParser),
         UNCHANGED <<log, plan, loader>>,
         Head(toParser).kind # "done"
           => parser'.file = Head(toParser).file /\ ParserInAt' = After(Head(toParser))
  PROVE  ToParserOK' /\ ChannelType(toParser)'
<1> DEFINE m == Head(toParser)
<1>1. /\ m.kind = "done" => toParser' = <<>> /\ loader.done
      /\ ChannelType(toParser') /\ CarriesOK(toParser', "entries")
      /\ InOrder(toParser', m.file, After(m))
      /\ HasDone(toParser') => loader.done
      /\ ~loader.done => Behind(toParser', loader.file, LoaderAt, m.file, After(m))
  BY PopChannel DEF IInv, TypeOK, ToParserOK
<1> HIDE DEF m
<1>2. ChannelType(toParser)' /\ CarriesOK(toParser, "entries")'
  BY <1>1 DEF ChannelType, CarriesOK, MsgOK
<1>3. HasDone(toParser)' => loader'.done
  BY <1>1 DEF HasDone
<1>4. CASE m.kind = "done"
  <2>1. toParser' = <<>> /\ Len(toParser') = 0 /\ loader'.done
    BY <1>1, <1>4
  <2> QED
    BY <2>1, <1>2 DEF ToParserOK, InOrder
<1>5. CASE m.kind # "done"
  <2>1. parser'.file = m.file /\ ParserInAt' = After(m)
    BY <1>5 DEF m
  <2>2. InOrder(toParser, parser.file, ParserInAt)'
    BY <2>1, <1>1 DEF InOrder, Follows, After
  <2>3. ~loader'.done => Behind(toParser, loader.file, LoaderAt, parser.file, ParserInAt)'
    BY <2>1, <1>1 DEF Behind, After, LoaderAt
  <2> QED
    BY <2>2, <2>3, <1>2, <1>3 DEF ToParserOK
<1> QED
  BY <1>4, <1>5, <1>2

\* What pushing a message does to the channel of the parser.
LEMMA ToAggPush ==
  ASSUME IInv, NEW m \in Msg, MsgOK(m), m.kind # "lines",
         Follows(parser.file, ParserOutAt, m), PushToAgg(m), ~parser.done,
         UNCHANGED <<log, plan, loader, agg>>,
         m.kind = "done" => parser'.done,
         ~parser'.done => parser'.file = m.file /\ ParserOutAt' = After(m)
  PROVE  ToAggOK' /\ ChannelType(toAgg)'
<1>1. /\ ChannelType(toAgg') /\ CarriesOK(toAgg', "lines")
      /\ InOrder(toAgg', agg.file, AggAt)
      /\ HasDone(toAgg') => m.kind = "done"
      /\ Behind(toAgg', m.file, After(m), agg.file, AggAt)
  BY PushChannel DEF IInv, TypeOK, ToAggOK, PushToAgg
<1>2. CarriesOK(toAgg, "lines")'
  BY <1>1 DEF CarriesOK, MsgOK
<1>3. HasDone(toAgg)' => parser'.done
  BY <1>1 DEF HasDone
<1>4. InOrder(toAgg, agg.file, AggAt)'
  BY <1>1 DEF InOrder, Follows, After, AggAt
<1>5. ~parser'.done => Behind(toAgg, parser.file, ParserOutAt, agg.file, AggAt)'
  BY <1>1 DEF Behind, After, AggAt
<1>6. ChannelType(toAgg)'
  BY <1>1 DEF ChannelType
<1> QED
  BY <1>2, <1>3, <1>4, <1>5, <1>6 DEF ToAggOK

\* The channels a parser step leaves alone.
LEMMA ToParserKeep ==
  ASSUME IInv, UNCHANGED <<log, plan, loader, toParser>>,
         parser'.file = parser.file, ParserInAt' = ParserInAt
  PROVE  ToParserOK' /\ ChannelType(toParser)'
<1>1. CarriesOK(toParser, "entries")' /\ (HasDone(toParser)' => loader'.done)
  BY DEF IInv, ToParserOK, CarriesOK, MsgOK, HasDone
<1>2. InOrder(toParser, parser.file, ParserInAt)'
  BY DEF IInv, ToParserOK, InOrder, Follows, After
<1>3. ~loader'.done => Behind(toParser, loader.file, LoaderAt, parser.file, ParserInAt)'
  BY DEF IInv, ToParserOK, Behind, After, LoaderAt
<1> QED
  BY <1>1, <1>2, <1>3 DEF IInv, TypeOK, ChannelType, ToParserOK

LEMMA ToAggKeep ==
  ASSUME IInv, UNCHANGED <<log, plan, loader, toAgg>>,
         parser'.file = parser.file, ParserOutAt' = ParserOutAt, parser'.done = parser.done,
         agg'.file = agg.file, AggAt' = AggAt
  PROVE  ToAggOK' /\ ChannelType(toAgg)'
<1>1. CarriesOK(toAgg, "lines")' /\ (HasDone(toAgg)' => parser'.done)
  BY DEF IInv, ToAggOK, CarriesOK, MsgOK, HasDone
<1>2. InOrder(toAgg, agg.file, AggAt)'
  BY DEF IInv, ToAggOK, InOrder, Follows, After
<1>3. ~parser'.done => Behind(toAgg, parser.file, ParserOutAt, agg.file, AggAt)'
  BY DEF IInv, ToAggOK, Behind, After
<1> QED
  BY <1>1, <1>2, <1>3 DEF IInv, TypeOK, ChannelType, ToAggOK

LEMMA ParserStepFrame ==
  ASSUME IInv, ParserVarsOnly, mode = "running", ParserType', ParserOK',
         ToParserOK', ChannelType(toParser)', ToAggOK', ChannelType(toAgg)'
  PROVE  IInv'
<1>1. UNCHANGED <<log, count, stored, dbMonth, complete, dbSeen, lastLog, mode, plan, skipped,
                  todo, loader, agg, acc, pending, month, seen, faults>>
  BY DEF ParserVarsOnly, dbVars, runVars, loadVars, aggVars
<1>2. TypeOK'
  BY <1>1 DEF IInv, TypeOK, LogType, DbType, RunType, LoaderType, ChannelType, AggType
<1>3. QuietWhenIdle'
  BY <1>1 DEF QuietWhenIdle
<1>4. LoaderOK'
  BY <1>1 DEF IInv, LoaderOK
<1>5. AggOK'
  BY <1>1 DEF IInv, AggOK
<1>6. CountOK'
  BY <1>1 DEF IInv, CountOK, Once, Touched, NextOffset
<1> QED
  BY <1>2, <1>3, <1>4, <1>5, <1>6 DEF IInv

LEMMA ParserFileStartInv == IInv /\ ParserFileStart => IInv'
<1> SUFFICES ASSUME IInv, ParserFileStart PROVE IInv'
  OBVIOUS
<1> DEFINE m == Head(toParser)
<1>1. /\ ParserFree /\ toParser # <<>> /\ m.kind = "start" /\ PushToAgg(m)
      /\ toParser' = Tail(toParser) /\ ParserVarsOnly
      /\ parser' = [parser EXCEPT !.open = TRUE, !.file = m.file, !.from = m.lo,
                                  !.at = m.lo, !.off = m.off]
      /\ UNCHANGED <<log, plan, loader, agg>>
  BY DEF ParserFileStart, ParserVarsOnly, runVars, loadVars, aggVars
<1>2. /\ m \in Msg /\ MsgOK(m) /\ Follows(parser.file, ParserInAt, m)
      /\ ~parser.done /\ mode = "running"
  BY <1>1, ToParserHead
<1> HIDE DEF m
<1>3. /\ m.file \in File /\ m.lo = m.hi + 1 /\ m.hi = plan[m.file].offset /\ m.off = m.hi
      /\ m.lo \in Nat /\ m.hi \in Nat /\ m.off \in Nat /\ m.file \in 0..NFiles
      /\ m.off <= Len(log[m.file])
      /\ parser.file < m.file /\ ~parser.open
  BY <1>1, <1>2, ParserFacts DEF MsgOK, Follows, Msg, ParserInAt, Shut
<1>4. /\ parser'.open /\ parser'.file = m.file /\ parser'.from = m.lo /\ parser'.at = m.lo
      /\ parser'.off = m.off /\ parser'.done = parser.done
      /\ ParserType'
  BY <1>1, <1>3 DEF IInv, TypeOK, ParserType
<1>5. ParserOK'
  BY <1>1, <1>2, <1>3, <1>4 DEF ParserOK
<1>6. ToParserOK' /\ ChannelType(toParser)'
  <2>1. ParserInAt' = After(m)
    BY <1>1, <1>3, <1>4 DEF ParserInAt, After
  <2> QED
    BY <2>1, <1>1, <1>4, ToParserPop DEF m
<1>7. ToAggOK' /\ ChannelType(toAgg)'
  <2>1. ParserOutAt' = After(m)
    BY <1>1, <1>3, <1>4 DEF ParserOutAt, After
  <2>2. Follows(parser.file, ParserOutAt, m)
    BY <1>1, <1>3 DEF Follows, ParserOutAt
  <2> QED
    BY <2>1, <2>2, <1>1, <1>2, <1>4, ToAggPush
<1> QED
  BY <1>1, <1>2, <1>4, <1>5, <1>6, <1>7, ParserStepFrame

LEMMA ParserTakeLinesInv == IInv /\ ParserTakeLines => IInv'
<1> SUFFICES ASSUME IInv, ParserTakeLines PROVE IInv'
  OBVIOUS
<1> DEFINE m == Head(toParser)
<1>1. /\ ParserFree /\ toParser # <<>> /\ m.kind = "lines"
      /\ toParser' = Tail(toParser) /\ ParserVarsOnly
      /\ parser' = [parser EXCEPT !.at = m.lo, !.off = m.off]
      /\ UNCHANGED <<log, plan, loader, agg, toAgg>>
  BY DEF ParserTakeLines, ParserVarsOnly, runVars, loadVars, aggVars
<1>2. /\ m \in Msg /\ MsgOK(m) /\ Follows(parser.file, ParserInAt, m)
      /\ ~parser.done /\ mode = "running"
  BY <1>1, ToParserHead
<1> HIDE DEF m
<1>3. /\ m.file \in File /\ 1 <= m.lo /\ m.lo <= m.hi + 1 /\ m.hi = m.off
      /\ m.lo \in Nat /\ m.hi \in Nat /\ m.off \in Nat /\ m.file = parser.file
      /\ m.off <= Len(log[m.file])
      /\ parser.open /\ parser.off < m.lo
  BY <1>1, <1>2, ParserFacts DEF MsgOK, Follows, Msg, ParserInAt, Shut
<1>4. /\ parser'.open /\ parser'.file = m.file /\ parser'.from = parser.from
      /\ parser'.at = m.lo /\ parser'.off = m.off /\ parser'.done = parser.done
      /\ ParserType'
  BY <1>1, <1>3 DEF IInv, TypeOK, ParserType
<1>5. ParserOK'
  BY SMTT(30), <1>1, <1>2, <1>3, <1>4, ParserFacts DEF ParserOK, ParserFree
<1>6. ToParserOK' /\ ChannelType(toParser)'
  <2>1. ParserInAt' = After(m)
    BY <1>1, <1>3, <1>4 DEF ParserInAt, After
  <2> QED
    BY <2>1, <1>1, <1>4, ToParserPop DEF m
<1>7. ToAggOK' /\ ChannelType(toAgg)'
  BY <1>1, <1>3, <1>4, ToAggKeep DEF ParserOutAt, AggAt
<1> QED
  BY <1>1, <1>2, <1>4, <1>5, <1>6, <1>7, ParserStepFrame

LEMMA ParseLineInv == IInv /\ ParseLine => IInv'
<1> SUFFICES ASSUME IInv, ParseLine PROVE IInv'
  OBVIOUS
<1>1. /\ ~ParserFree /\ ParserVarsOnly /\ parser' = [parser EXCEPT !.at = @ + 1]
      /\ UNCHANGED <<log, plan, loader, agg, toAgg, toParser>>
  BY DEF ParseLine, ParserVarsOnly, runVars, loadVars, aggVars
<1>2. parser.open /\ ~parser.done /\ mode = "running"
  BY <1>1, ParserFacts, Running DEF IdleParser
<1>3. /\ parser'.open = parser.open /\ parser'.file = parser.file
      /\ parser'.from = parser.from /\ parser'.at = parser.at + 1
      /\ parser'.off = parser.off /\ parser'.done = parser.done
      /\ ParserType'
  <2>1. parser \in [open : BOOLEAN, file : 0..NFiles, from : Nat, at : Nat, off : Nat,
                    done : BOOLEAN]
    BY DEF IInv, TypeOK, ParserType
  <2>2. parser.at + 1 \in Nat
    BY ParserFacts
  <2> QED
    BY <1>1, <2>1, <2>2 DEF ParserType
<1>4. ParserOK'
  BY <1>1, <1>2, <1>3, ParserFacts DEF ParserOK, ParserFree
<1>5. ToParserOK' /\ ChannelType(toParser)'
  BY <1>1, <1>3, ToParserKeep DEF ParserInAt
<1>6. ToAggOK' /\ ChannelType(toAgg)'
  BY <1>1, <1>3, ToAggKeep DEF ParserOutAt, AggAt
<1> QED
  BY <1>1, <1>2, <1>3, <1>4, <1>5, <1>6, ParserStepFrame

\* Pushing the entry batch that ends with line `last`, at or right before
\* the line at hand.
LEMMA PushEntries ==
  ASSUME IInv, NEW last \in Nat, parser.open, ~parser.done,
         parser.from <= last + 1, last <= parser.off,
         PushToAgg(Entries(parser.file, parser.from, last, parser.off)),
         UNCHANGED <<log, plan, loader, agg>>,
         parser'.open, parser'.file = parser.file, parser'.from = last + 1
  PROVE  ToAggOK' /\ ChannelType(toAgg)'
<1> DEFINE m == Entries(parser.file, parser.from, last, parser.off)
<1>1. /\ m \in Msg /\ MsgOK(m) /\ m.kind = "entries" /\ m.file = parser.file
      /\ m.lo = parser.from /\ m.hi = last
  BY ParserFacts DEF Entries, MsgOf, Msg, MsgOK
<1>2. PushToAgg(m)
  OBVIOUS
<1> HIDE DEF m
<1>3. Follows(parser.file, ParserOutAt, m)
  BY <1>1, ParserFacts DEF Follows, ParserOutAt, Shut
<1>4. ParserOutAt' = After(m)
  BY <1>1 DEF ParserOutAt, After
<1> QED
  BY <1>1, <1>2, <1>3, <1>4, ToAggPush

LEMMA ParseLineFullInv == IInv /\ ParseLineFull => IInv'
<1> SUFFICES ASSUME IInv, ParseLineFull PROVE IInv'
  OBVIOUS
<1>1. /\ ~ParserFree /\ ParserVarsOnly
      /\ PushToAgg(Entries(parser.file, parser.from, parser.at, parser.off))
      /\ parser' = [parser EXCEPT !.at = @ + 1, !.from = parser.at + 1]
      /\ UNCHANGED <<log, plan, loader, agg, toParser>>
  BY DEF ParseLineFull, ParserVarsOnly, runVars, loadVars, aggVars
<1>2. parser.open /\ ~parser.done /\ mode = "running" /\ parser.at <= parser.off
  BY <1>1, ParserFacts, Running DEF IdleParser, ParserFree
<1>3. /\ parser'.open = parser.open /\ parser'.file = parser.file
      /\ parser'.from = parser.at + 1 /\ parser'.at = parser.at + 1
      /\ parser'.off = parser.off /\ parser'.done = parser.done
      /\ ParserType'
  <2>1. parser \in [open : BOOLEAN, file : 0..NFiles, from : Nat, at : Nat, off : Nat,
                    done : BOOLEAN]
    BY DEF IInv, TypeOK, ParserType
  <2>2. parser.at + 1 \in Nat
    BY ParserFacts
  <2> QED
    BY <1>1, <2>1, <2>2 DEF ParserType
<1>4. ParserOK'
  BY <1>1, <1>2, <1>3, ParserFacts DEF ParserOK
<1>5. ToParserOK' /\ ChannelType(toParser)'
  BY <1>1, <1>3, ToParserKeep DEF ParserInAt
<1>6. ToAggOK' /\ ChannelType(toAgg)'
  BY <1>1, <1>2, <1>3, ParserFacts, PushEntries
<1> QED
  BY <1>1, <1>2, <1>3, <1>4, <1>5, <1>6, ParserStepFrame

LEMMA ParserFlushBatchInv == IInv /\ ParserFlushBatch => IInv'
<1> SUFFICES ASSUME IInv, ParserFlushBatch PROVE IInv'
  OBVIOUS
<1> DEFINE last == parser.at - 1
<1>1. /\ AtEnd /\ ~EntryBatchEmpty /\ ParserVarsOnly
      /\ PushToAgg(Entries(parser.file, parser.from, last, parser.off))
      /\ parser' = [parser EXCEPT !.from = parser.at]
      /\ UNCHANGED <<log, plan, loader, agg, toParser>>
  BY DEF ParserFlushBatch, ParserVarsOnly, runVars, loadVars, aggVars
<1>2. /\ last \in Nat /\ parser.from <= last /\ last + 1 = parser.at /\ last <= parser.off
      /\ parser.open
  <2>1. PICK i \in parser.from..last : TRUE
    BY <1>1 DEF EntryBatchEmpty, Kept
  <2> QED
    BY SMTT(30), <1>1, <2>1, ParserFacts DEF AtEnd, ParserFree
<1>3. ~parser.done /\ mode = "running"
  BY <1>1, ParserFacts, Running DEF AtEnd
<1> HIDE DEF last
<1>4. /\ parser'.open = parser.open /\ parser'.file = parser.file
      /\ parser'.from = parser.at /\ parser'.at = parser.at
      /\ parser'.off = parser.off /\ parser'.done = parser.done
      /\ ParserType'
  BY <1>1, ParserFacts DEF IInv, TypeOK, ParserType
<1>5. ParserOK'
  BY <1>1, <1>2, <1>3, <1>4, ParserFacts DEF ParserOK
<1>6. ToParserOK' /\ ChannelType(toParser)'
  BY <1>1, <1>4, ToParserKeep DEF ParserInAt
<1>7. ToAggOK' /\ ChannelType(toAgg)'
  BY <1>1, <1>2, <1>3, <1>4, ParserFacts, PushEntries
<1> QED
  BY <1>1, <1>3, <1>4, <1>5, <1>6, <1>7, ParserStepFrame

LEMMA ParserFileDoneInv == IInv /\ ParserFileDone => IInv'
<1> SUFFICES ASSUME IInv, ParserFileDone PROVE IInv'
  OBVIOUS
<1> DEFINE m == Head(toParser)
<1>1. /\ toParser # <<>> /\ m.kind = "fdone" /\ PushToAgg(m) /\ ParserFree
      /\ toParser' = Tail(toParser) /\ ParserVarsOnly
      /\ parser' = [parser EXCEPT !.open = FALSE, !.from = m.lo, !.at = m.lo, !.off = m.off]
      /\ UNCHANGED <<log, plan, loader, agg>>
  BY DEF ParserFileDone, AtEnd, ParserVarsOnly, runVars, loadVars, aggVars
<1>2. /\ m \in Msg /\ MsgOK(m) /\ Follows(parser.file, ParserInAt, m)
      /\ ~parser.done /\ mode = "running"
  BY <1>1, ToParserHead
<1> HIDE DEF m
<1>3. /\ m.file \in File /\ m.lo = m.off + 1 /\ m.hi = m.off /\ 1 <= m.lo
      /\ m.lo \in Nat /\ m.hi \in Nat /\ m.off \in Nat /\ m.file = parser.file
      /\ parser.open /\ parser.off < m.lo
  BY <1>1, <1>2, ParserFacts DEF MsgOK, Follows, Msg, ParserInAt, Shut
<1>4. /\ ~parser'.open /\ parser'.file = m.file /\ parser'.from = m.lo
      /\ parser'.at = m.lo /\ parser'.off = m.off /\ parser'.done = parser.done
      /\ ParserType'
  BY <1>1, <1>3 DEF IInv, TypeOK, ParserType
<1>5. ParserOK'
  BY <1>1, <1>2, <1>3, <1>4, ParserFacts DEF ParserOK, ParserFree
<1>6. ToParserOK' /\ ChannelType(toParser)'
  <2>1. ParserInAt' = After(m)
    BY <1>1, <1>4 DEF ParserInAt, After
  <2> QED
    BY <2>1, <1>1, <1>4, ToParserPop DEF m
<1>7. ToAggOK' /\ ChannelType(toAgg)'
  <2>1. ParserOutAt' = After(m)
    BY <1>1, <1>4 DEF ParserOutAt, After
  <2>2. Follows(parser.file, ParserOutAt, m)
    BY SMTT(30), <1>1, <1>3, ParserFacts DEF Follows, ParserOutAt, ParserFree, Shut
  <2> QED
    BY <2>1, <2>2, <1>1, <1>2, <1>4, ToAggPush
<1> QED
  BY <1>1, <1>2, <1>4, <1>5, <1>6, <1>7, ParserStepFrame

LEMMA ParserDoneInv == IInv /\ ParserDone => IInv'
<1> SUFFICES ASSUME IInv, ParserDone PROVE IInv'
  OBVIOUS
<1> DEFINE m == Head(toParser)
<1>1. /\ toParser # <<>> /\ m.kind = "done" /\ PushToAgg(m) /\ ParserFree
      /\ toParser' = Tail(toParser) /\ ParserVarsOnly
      /\ parser' = [parser EXCEPT !.done = TRUE]
      /\ UNCHANGED <<log, plan, loader, agg>>
  BY DEF ParserDone, AtEnd, ParserVarsOnly, runVars, loadVars, aggVars
<1>2. /\ m \in Msg /\ MsgOK(m) /\ Follows(parser.file, ParserInAt, m)
      /\ ~parser.done /\ mode = "running"
      /\ Tail(toParser) = <<>> /\ loader.done
  BY <1>1, ToParserHead
<1> HIDE DEF m
<1>3. /\ parser'.open = parser.open /\ parser'.file = parser.file
      /\ parser'.from = parser.from /\ parser'.at = parser.at
      /\ parser'.off = parser.off /\ parser'.done
      /\ ParserType'
  BY <1>1 DEF IInv, TypeOK, ParserType
<1>4. ParserOK'
  BY <1>1, <1>2, <1>3, ParserFacts DEF ParserOK, ParserFree
<1>5. ToParserOK' /\ ChannelType(toParser)'
  BY <1>1, ToParserPop DEF m
<1>6. ToAggOK' /\ ChannelType(toAgg)'
  <2>1. Follows(parser.file, ParserOutAt, m)
    BY <1>1, <1>2, ParserFacts DEF Follows, ParserInAt, ParserOutAt, Shut
  <2> QED
    BY <2>1, <1>1, <1>2, <1>3, ToAggPush
<1> QED
  BY <1>1, <1>2, <1>3, <1>4, <1>5, <1>6, ParserStepFrame

-----------------------------------------------------------------------------
(* Aggregator steps. *)

LEMMA AggFacts ==
  ASSUME IInv
  PROVE  /\ agg \in [pc : AggPc, active : BOOLEAN, file : 0..NFiles, at : Nat, hi : Nat,
                     off : Nat]
         /\ agg.active => /\ agg.file \in File
                          /\ 1 <= agg.at /\ agg.at <= agg.hi + 1
                          /\ agg.hi <= agg.off /\ agg.off <= Len(log[agg.file])
         /\ agg.pc \in {"entries", "ts_month", "finalize", "advance"} => agg.active
         /\ agg.pc = "ts_final" => ~agg.active
         /\ pending \in [File -> Row] /\ stored \in [File -> Row]
         /\ month \in Nat /\ seen \in Nat /\ dbSeen \in Nat /\ lastLog \in Nat /\ dbMonth \in Nat
BY DEF IInv, TypeOK, AggType, DbType, AggOK

\* What CountOK says of one line.
LEMMA LineFacts ==
  ASSUME IInv, NEW f \in File, NEW i \in 1..MaxLines
  PROVE  /\ count[f][i] \in Nat /\ acc[f][i] \in Nat /\ count[f][i] + acc[f][i] <= 1
         /\ Touched(f, i) => i <= Len(log[f]) /\ log[f][i] # Dropped
         /\ count[f][i] > 0 => i <= stored[f].offset
         /\ Touched(f, i) => IF agg.active /\ f = agg.file
                             THEN i < agg.at
                             ELSE i <= NextOffset(f)
         /\ agg.file < f /\ mode = "running" => /\ acc[f][i] = 0
                                                /\ count[f][i] > 0 => i <= plan[f].offset
BY DEF IInv, TypeOK, DbType, AggType, CountType, CountOK, Once

\* The next message of the parser.
LEMMA ToAggHead ==
  ASSUME IInv, toAgg # <<>>
  PROVE  LET m == Head(toAgg)
         IN /\ m \in Msg /\ MsgOK(m) /\ m.kind # "lines"
            /\ Follows(agg.file, AggAt, m)
            /\ m.kind = "done" => Tail(toAgg) = <<>> /\ parser.done
            /\ mode = "running"
<1>1. mode = "running"
  BY Running
<1> QED
  BY <1>1, PopChannel DEF IInv, TypeOK, ToAggOK

\* The message that ends a run which met no read error comes when no file
\* is being worked on.
LEMMA DoneWhenShut ==
  ASSUME IInv, toAgg # <<>>, Head(toAgg).kind = "done", ~loader.failed
  PROVE  ~agg.active
<1> DEFINE m == Head(toAgg)
<1>1. m.kind = "done" /\ Follows(agg.file, AggAt, m)
  BY ToAggHead
<1> HIDE DEF m
<1>2. AggAt = Shut
  BY <1>1 DEF Follows
<1>3. agg.hi \in Nat
  BY AggFacts
<1> QED
  BY <1>2, <1>3 DEF AggAt, Shut

LEMMA ToAggPop ==
  ASSUME IInv, toAgg # <<>>, toAgg' = Tail(toAgg),
         UNCHANGED <<log, plan, loader, parser>>,
         Head(toAgg).kind # "done"
           => agg'.file = Head(toAgg).file /\ AggAt' = After(Head(toAgg))
  PROVE  ToAggOK' /\ ChannelType(toAgg)'
<1> DEFINE m == Head(toAgg)
<1>1. /\ m.kind = "done" => toAgg' = <<>> /\ parser.done
      /\ ChannelType(toAgg') /\ CarriesOK(toAgg', "lines")
      /\ InOrder(toAgg', m.file, After(m))
      /\ HasDone(toAgg') => parser.done
      /\ ~parser.done => Behind(toAgg', parser.file, ParserOutAt, m.file, After(m))
  BY PopChannel DEF IInv, TypeOK, ToAggOK
<1> HIDE DEF m
<1>2. ChannelType(toAgg)' /\ CarriesOK(toAgg, "lines")'
  BY <1>1 DEF ChannelType, CarriesOK, MsgOK
<1>3. HasDone(toAgg)' => parser'.done
  BY <1>1 DEF HasDone
<1>4. CASE m.kind = "done"
  <2>1. toAgg' = <<>> /\ Len(toAgg') = 0 /\ parser'.done
    BY <1>1, <1>4
  <2> QED
    BY <2>1, <1>2 DEF ToAggOK, InOrder
<1>5. CASE m.kind # "done"
  <2>1. agg'.file = m.file /\ AggAt' = After(m)
    BY <1>5 DEF m
  <2>2. InOrder(toAgg, agg.file, AggAt)'
    BY <2>1, <1>1 DEF InOrder, Follows, After
  <2>3. ~parser'.done => Behind(toAgg, parser.file, ParserOutAt, agg.file, AggAt)'
    BY <2>1, <1>1 DEF Behind, After, ParserOutAt
  <2> QED
    BY <2>2, <2>3, <1>2, <1>3 DEF ToAggOK
<1> QED
  BY <1>4, <1>5, <1>2

\* What an aggregator step leaves alone.
LEMMA AggUnchanged ==
  ASSUME AggVarsOnly
  PROVE  UNCHANGED <<log, mode, plan, skipped, todo, loader, toParser, parser, faults>>
BY DEF AggVarsOnly, runVars, loadVars

LEMMA AggStepFrame ==
  ASSUME IInv, AggVarsOnly, mode = "running",
         DbType', AggType', AggOK', CountOK', ToAggOK', ChannelType(toAgg)'
  PROVE  IInv'
<1>1. UNCHANGED <<log, mode, plan, skipped, todo, loader, toParser, parser, faults>>
  BY AggUnchanged
<1>2. TypeOK'
  BY <1>1 DEF IInv, TypeOK, LogType, RunType, LoaderType, ParserType, ChannelType
<1>3. QuietWhenIdle'
  BY <1>1 DEF QuietWhenIdle
<1>4. LoaderOK'
  BY <1>1 DEF IInv, LoaderOK
<1>5. ParserOK'
  BY <1>1 DEF IInv, ParserOK, ParserFree
<1>6. ToParserOK'
  BY <1>1, ToParserKeep DEF ParserInAt
<1> QED
  BY <1>2, <1>3, <1>4, <1>5, <1>6 DEF IInv

\* Database::flush, for resume rows that cover every line touched so far.
LEMMA FlushInv ==
  ASSUME IInv, mode = "running", AggVarsOnly, NEW pend \in [File -> Row], Flush(pend),
         \A f \in File, i \in 1..MaxLines :
           Touched(f, i) => i <= IF pend[f].known THEN pend[f].offset ELSE stored[f].offset,
         agg'.active = agg.active, agg'.file = agg.file,
         agg.active => agg'.at \in Nat /\ agg.at <= agg'.at
  PROVE  /\ DbType' /\ CountOK' /\ CountType(acc)' /\ pending' \in [File -> Row]
<1>1. /\ count' = [f \in File |-> [i \in 1..MaxLines |-> count[f][i] + acc[f][i]]]
      /\ stored' = [f \in File |-> IF pend[f].known THEN pend[f] ELSE stored[f]]
      /\ dbSeen' = Later(dbSeen, seen)
      /\ acc' = NoCount /\ pending' = NoPending
      /\ UNCHANGED <<dbMonth, complete, lastLog>>
  BY DEF Flush
<1>2. UNCHANGED <<log, mode, plan>>
  BY AggUnchanged
<1>3. CountType(count') /\ stored' \in [File -> Row] /\ dbSeen' \in Nat
  <2>1. \A f \in File, i \in 1..MaxLines : count[f][i] + acc[f][i] \in Nat
    BY LineFacts
  <2>2. CountType(count')
    BY <1>1, <2>1 DEF CountType
  <2> QED
    BY <1>1, <2>2, AggFacts DEF Later
<1>4. DbType'
  BY <1>1, <1>3, AggFacts DEF DbType, CountType, IInv, TypeOK
<1>5. CountType(acc)' /\ pending' \in [File -> Row]
  BY <1>1 DEF CountType, NoCount, NoPending, NoRow, Row
<1>6. ASSUME NEW f \in File, NEW i \in 1..MaxLines
      PROVE  /\ Once(f, i)'
             /\ Touched(f, i)' => i <= Len(log'[f]) /\ log'[f][i] # Dropped
             /\ count'[f][i] > 0 => i <= stored'[f].offset
             /\ Touched(f, i)' => IF agg'.active /\ f = agg'.file
                                  THEN i < agg'.at
                                  ELSE i <= NextOffset(f)'
             /\ agg'.file < f /\ mode' = "running"
                  => /\ acc'[f][i] = 0
                     /\ count'[f][i] > 0 => i <= plan'[f].offset
  <2>1. /\ count'[f][i] = count[f][i] + acc[f][i] /\ acc'[f][i] = 0
        /\ stored'[f] = IF pend[f].known THEN pend[f] ELSE stored[f]
        /\ ~pending'[f].known
    BY <1>1 DEF NoCount, NoPending, NoRow
  <2>2. count[f][i] \in Nat /\ acc[f][i] \in Nat
    BY LineFacts
  <2>3. Touched(f, i)' <=> Touched(f, i)
    BY <2>1, <2>2 DEF Touched
  <2>4. NextOffset(f)' = IF pend[f].known THEN pend[f].offset ELSE stored[f].offset
    BY <2>1 DEF NextOffset
  <2>5. Once(f, i)'
    BY <2>1, <2>2, LineFacts DEF Once
  <2>6. Touched(f, i) => i <= stored'[f].offset /\ i <= NextOffset(f)'
    BY <2>1, <2>4
  <2>7. count'[f][i] > 0 => i <= stored'[f].offset
    BY <2>1, <2>2, <2>6 DEF Touched
  <2>8. Touched(f, i) /\ agg.active /\ f = agg.file => i < agg'.at
    BY LineFacts, AggFacts
  <2>9. agg.file < f /\ mode = "running"
          => acc[f][i] = 0 /\ (count[f][i] > 0 => i <= plan[f].offset)
    BY LineFacts
  <2>10. Touched(f, i) => i <= Len(log[f]) /\ log[f][i] # Dropped
    BY LineFacts
  <2> QED
    BY <1>2, <2>1, <2>2, <2>3, <2>5, <2>6, <2>7, <2>8, <2>9, <2>10
<1>7. CountOK'
  BY <1>6 DEF CountOK
<1> QED
  BY <1>4, <1>5, <1>7

\* An aggregator step that writes nothing, counts nothing and leaves the
\* pending states alone.
LEMMA CountKeep ==
  ASSUME IInv, UNCHANGED <<log, count, stored, mode, plan, acc, pending>>,
         agg'.active = agg.active, agg'.file = agg.file,
         agg.active => agg'.at \in Nat /\ agg.at <= agg'.at
  PROVE  CountOK'
<1>1. ASSUME NEW f \in File, NEW i \in 1..MaxLines
      PROVE  /\ Once(f, i)'
             /\ Touched(f, i)' => i <= Len(log'[f]) /\ log'[f][i] # Dropped
             /\ count'[f][i] > 0 => i <= stored'[f].offset
             /\ Touched(f, i)' => IF agg'.active /\ f = agg'.file
                                  THEN i < agg'.at
                                  ELSE i <= NextOffset(f)'
             /\ agg'.file < f /\ mode' = "running"
                  => /\ acc'[f][i] = 0
                     /\ count'[f][i] > 0 => i <= plan'[f].offset
  BY SMTT(30), LineFacts, AggFacts DEF Once, Touched, NextOffset
<1> QED
  BY <1>1 DEF CountOK

LEMMA AggFileStartInv == IInv /\ AggFileStart => IInv'
<1> SUFFICES ASSUME IInv, AggFileStart PROVE IInv'
  OBVIOUS
<1> DEFINE m == Head(toAgg)
<1>1. /\ agg.pc = "recv" /\ toAgg # <<>> /\ m.kind = "start" /\ toAgg' = Tail(toAgg)
      /\ agg' = [agg EXCEPT !.active = TRUE, !.file = m.file, !.at = m.lo, !.hi = m.hi,
                            !.off = m.off]
      /\ UNCHANGED <<dbVars, acc, pending, month, seen>> /\ AggVarsOnly
  BY DEF AggFileStart, Received
<1>2. /\ UNCHANGED <<log, mode, plan, loader, parser>>
      /\ UNCHANGED <<count, stored, dbMonth, complete, dbSeen, lastLog>>
  BY <1>1, AggUnchanged DEF dbVars
<1>3. m \in Msg /\ MsgOK(m) /\ Follows(agg.file, AggAt, m) /\ mode = "running"
  BY <1>1, ToAggHead
<1> HIDE DEF m
<1>4. /\ m.file \in File /\ m.lo = m.hi + 1 /\ m.hi = plan[m.file].offset /\ m.off = m.hi
      /\ m.lo \in Nat /\ m.hi \in Nat /\ m.off \in Nat /\ m.file \in 0..NFiles
      /\ m.off <= Len(log[m.file])
      /\ agg.file < m.file /\ ~agg.active
  BY <1>1, <1>3, AggFacts DEF MsgOK, Follows, Msg, AggAt, Shut
<1>5. /\ agg'.active /\ agg'.file = m.file /\ agg'.at = m.lo /\ agg'.hi = m.hi
      /\ agg'.off = m.off /\ agg'.pc = "recv"
      /\ agg' \in [pc : AggPc, active : BOOLEAN, file : 0..NFiles, at : Nat, hi : Nat,
                   off : Nat]
  BY <1>1, <1>4, AggFacts
<1>6. AggType' /\ DbType'
  BY <1>1, <1>2, <1>5 DEF IInv, TypeOK, AggType, DbType, CountType
<1>7. AggOK'
  BY <1>2, <1>4, <1>5 DEF AggOK
<1>8. ToAggOK' /\ ChannelType(toAgg)'
  <2>1. AggAt' = After(m)
    BY <1>1, <1>5 DEF AggAt, After
  <2> QED
    BY <2>1, <1>1, <1>2, <1>5, ToAggPop DEF m
<1>9. CountOK'
  <2>1. ASSUME NEW f \in File, NEW i \in 1..MaxLines
        PROVE  /\ Once(f, i)'
               /\ Touched(f, i)' => i <= Len(log'[f]) /\ log'[f][i] # Dropped
               /\ count'[f][i] > 0 => i <= stored'[f].offset
               /\ Touched(f, i)' => IF agg'.active /\ f = agg'.file
                                    THEN i < agg'.at
                                    ELSE i <= NextOffset(f)'
               /\ agg'.file < f /\ mode' = "running"
                    => /\ acc'[f][i] = 0
                       /\ count'[f][i] > 0 => i <= plan'[f].offset
    <3>1. /\ count'[f][i] = count[f][i] /\ acc'[f][i] = acc[f][i] /\ stored' = stored
          /\ (Once(f, i)' <=> Once(f, i)) /\ (Touched(f, i)' <=> Touched(f, i))
          /\ NextOffset(f)' = NextOffset(f)
      BY <1>1, <1>2 DEF Once, Touched, NextOffset
    <3>2. CASE f = m.file
      <4>1. acc[f][i] = 0 /\ (count[f][i] > 0 => i <= plan[f].offset)
        BY <3>2, <1>3, <1>4, LineFacts
      <4>2. Touched(f, i) => i < agg'.at
        BY <4>1, <3>2, <1>4, <1>5, LineFacts DEF Touched
      <4> QED
        BY <4>2, <3>1, <3>2, <1>2, <1>4, <1>5, LineFacts DEF Once, File
    <3>3. CASE f # m.file
      <4>1. m.file < f => agg.file < f
        BY <1>4, AggFacts DEF File
      <4> QED
        BY <4>1, <3>1, <3>3, <1>2, <1>3, <1>4, <1>5, LineFacts DEF Once
    <3> QED
      BY <3>2, <3>3
  <2> QED
    BY <2>1 DEF CountOK
<1> QED
  BY <1>1, <1>3, <1>6, <1>7, <1>8, <1>9, AggStepFrame

LEMMA AggEntriesInv == IInv /\ AggEntries => IInv'
<1> SUFFICES ASSUME IInv, AggEntries PROVE IInv'
  OBVIOUS
<1> DEFINE m == Head(toAgg)
<1>1. /\ agg.pc = "recv" /\ toAgg # <<>> /\ m.kind = "entries" /\ toAgg' = Tail(toAgg)
      /\ agg' = [agg EXCEPT !.pc = "entries", !.at = m.lo, !.hi = m.hi, !.off = m.off]
      /\ UNCHANGED <<dbVars, acc, pending, month, seen>> /\ AggVarsOnly
  BY DEF AggEntries, Received
<1>2. /\ UNCHANGED <<log, mode, plan, loader, parser>>
      /\ UNCHANGED <<count, stored, dbMonth, complete, dbSeen, lastLog>>
  BY <1>1, AggUnchanged DEF dbVars
<1>3. m \in Msg /\ MsgOK(m) /\ Follows(agg.file, AggAt, m) /\ mode = "running"
  BY <1>1, ToAggHead
<1> HIDE DEF m
<1>4. /\ m.file = agg.file /\ 1 <= m.lo /\ m.lo <= m.hi + 1 /\ m.hi <= m.off
      /\ m.lo \in Nat /\ m.hi \in Nat /\ m.off \in Nat
      /\ m.off <= Len(log[m.file])
      /\ agg.active /\ agg.hi < m.lo /\ agg.at <= m.lo
  <2>1. agg.active /\ m.file = agg.file /\ agg.hi < m.lo
    BY <1>1, <1>3 DEF Follows, AggAt
  <2>2. /\ 1 <= m.lo /\ m.lo <= m.hi + 1 /\ m.hi <= m.off
        /\ m.lo \in Nat /\ m.hi \in Nat /\ m.off \in Nat
        /\ m.off <= Len(log[m.file])
    BY <1>1, <1>3 DEF MsgOK, Msg
  <2>3. agg.at \in Nat /\ agg.hi \in Nat /\ agg.at <= agg.hi + 1
    BY <2>1, AggFacts
  <2> QED
    BY <2>1, <2>2, <2>3
<1>5. /\ agg'.active = agg.active /\ agg'.file = agg.file /\ agg'.at = m.lo /\ agg'.hi = m.hi
      /\ agg'.off = m.off /\ agg'.pc = "entries"
      /\ agg' \in [pc : AggPc, active : BOOLEAN, file : 0..NFiles, at : Nat, hi : Nat,
                   off : Nat]
  BY <1>1, <1>4, AggFacts DEF AggPc
<1>6. AggType' /\ DbType'
  BY <1>1, <1>2, <1>5 DEF IInv, TypeOK, AggType, DbType, CountType
<1>7. AggOK'
  BY <1>2, <1>4, <1>5, AggFacts DEF AggOK
<1>8. ToAggOK' /\ ChannelType(toAgg)'
  <2>1. AggAt' = After(m)
    BY <1>1, <1>4, <1>5 DEF AggAt, After
  <2> QED
    BY <2>1, <1>1, <1>2, <1>4, <1>5, ToAggPop DEF m
<1>9. CountOK'
  BY <1>1, <1>2, <1>4, <1>5, CountKeep
<1> QED
  BY <1>1, <1>3, <1>6, <1>7, <1>8, <1>9, AggStepFrame

\* Steps between two messages keep the aggregator's position in the stream.
LEMMA AggBetween ==
  ASSUME IInv, AggVarsOnly, toAgg' = toAgg,
         agg'.file = agg.file, agg'.active = agg.active, agg'.hi = agg.hi
  PROVE  ToAggOK' /\ ChannelType(toAgg)'
<1>1. UNCHANGED <<log, plan, loader, toAgg, parser>>
  BY AggUnchanged
<1> QED
  BY <1>1, ToAggKeep DEF ParserOutAt, AggAt

\* The entry at hand is a line of the open file, not yet touched.
LEMMA NextEntryFacts ==
  ASSUME IInv, agg.active, NEW i \in 1..MaxLines, i \in Kept(agg.file, agg.at, agg.hi)
  PROVE  /\ i \in Nat /\ agg.at <= i /\ i <= agg.hi
         /\ i <= Len(log[agg.file]) /\ log[agg.file][i] # Dropped
         /\ log[agg.file][i] \in Nat /\ EntryMonth(i) \in Nat
         /\ ~Touched(agg.file, i)
         /\ count[agg.file][i] = 0 /\ acc[agg.file][i] = 0
         /\ mode = "running"
<1>1. i \in Nat /\ agg.at <= i /\ i <= agg.hi /\ log[agg.file][i] # Dropped
  BY DEF Kept
<1>2. i <= Len(log[agg.file]) /\ agg.file \in File /\ log[agg.file] \in Seq(Stamps \cup {Dropped})
  BY SMTT(30), <1>1, AggFacts DEF IInv, TypeOK, LogType, IsLog
<1>3. log[agg.file][i] \in Stamps
  <2>1. log[agg.file][i] \in Stamps \cup {Dropped}
    BY <1>1, <1>2
  <2> QED
    BY <2>1, <1>1
<1>4. ~Touched(agg.file, i)
  BY <1>1, <1>2, LineFacts, AggFacts
<1>5. count[agg.file][i] = 0 /\ acc[agg.file][i] = 0
  BY <1>2, <1>4, LineFacts DEF Touched
<1>6. mode = "running"
  BY Running DEF IdleAgg
<1> QED
  BY <1>1, <1>2, <1>3, <1>4, <1>5, <1>6 DEF EntryMonth

LEMMA AggregateEntryInv ==
  ASSUME IInv, NEW i \in 1..MaxLines, AggregateEntry(i)
  PROVE  IInv'
<1>1. /\ agg.pc = "entries" /\ i \in Kept(agg.file, agg.at, agg.hi)
      /\ acc' = [acc EXCEPT ![agg.file][i] = @ + 1]
      /\ seen' = Later(seen, log[agg.file][i])
      /\ month' = EntryMonth(i)
      /\ dbMonth' = IF month = NoMonth THEN EntryMonth(i) ELSE dbMonth
      /\ agg' = [agg EXCEPT !.at = i + 1]
      /\ UNCHANGED <<count, stored, complete, dbSeen, lastLog, toAgg, pending>>
      /\ AggVarsOnly
  BY DEF AggregateEntry, NextEntry
<1>2. UNCHANGED <<log, mode, plan>>
  BY <1>1, AggUnchanged
<1>3. /\ agg.active /\ agg.file \in File
      /\ agg.at <= i /\ i <= agg.hi /\ EntryMonth(i) \in Nat /\ log[agg.file][i] \in Nat
      /\ i <= Len(log[agg.file]) /\ log[agg.file][i] # Dropped
      /\ count[agg.file][i] = 0 /\ acc[agg.file][i] = 0 /\ mode = "running"
  BY <1>1, AggFacts, NextEntryFacts
<1>4. /\ agg'.active = agg.active /\ agg'.file = agg.file /\ agg'.at = i + 1
      /\ agg'.hi = agg.hi /\ agg'.off = agg.off /\ agg'.pc = agg.pc
      /\ agg' \in [pc : AggPc, active : BOOLEAN, file : 0..NFiles, at : Nat, hi : Nat,
                   off : Nat]
  <2>1. agg \in [pc : AggPc, active : BOOLEAN, file : 0..NFiles, at : Nat, hi : Nat,
                 off : Nat]
    BY AggFacts
  <2>2. i + 1 \in Nat
    OBVIOUS
  <2> QED
    BY <1>1, <2>1, <2>2
<1>5. \A f \in File, j \in 1..MaxLines :
        acc'[f][j] = IF f = agg.file /\ j = i THEN 1 ELSE acc[f][j]
  <2>1. CountType(acc)
    BY DEF IInv, TypeOK, AggType
  <2> QED
    BY SMTT(30), <2>1, <1>1, <1>3 DEF CountType
<1>6. CountType(acc)'
  <2>1. CountType(acc)
    BY DEF IInv, TypeOK, AggType
  <2>2. acc[agg.file][i] + 1 \in Nat
    BY <1>3
  <2> QED
    BY <2>1, <2>2, <1>1, <1>3 DEF CountType
<1>7. AggType' /\ DbType'
  <2>1. dbMonth' \in Nat /\ month' \in Nat /\ seen' \in Nat
    BY <1>1, <1>3, AggFacts DEF Later
  <2> QED
    BY <2>1, <1>1, <1>4, <1>6 DEF IInv, TypeOK, AggType, DbType, CountType
<1>8. AggOK'
  BY <1>2, <1>3, <1>4, AggFacts DEF AggOK
<1>9. ToAggOK' /\ ChannelType(toAgg)'
  BY <1>1, <1>4, AggBetween
<1>10. CountOK'
  <2>1. ASSUME NEW f \in File, NEW j \in 1..MaxLines
        PROVE  /\ Once(f, j)'
               /\ Touched(f, j)' => j <= Len(log'[f]) /\ log'[f][j] # Dropped
               /\ count'[f][j] > 0 => j <= stored'[f].offset
               /\ Touched(f, j)' => IF agg'.active /\ f = agg'.file
                                    THEN j < agg'.at
                                    ELSE j <= NextOffset(f)'
               /\ agg'.file < f /\ mode' = "running"
                    => /\ acc'[f][j] = 0
                       /\ count'[f][j] > 0 => j <= plan'[f].offset
    <3>1. CASE f = agg.file /\ j = i
      <4>1. count'[f][j] = 0 /\ acc'[f][j] = 1
        BY <3>1, <1>1, <1>3, <1>5
      <4>2. ~(agg'.file < f)
        BY <3>1, <1>3, <1>4 DEF File
      <4> QED
        BY <4>1, <4>2, <3>1, <1>2, <1>3, <1>4 DEF Once
    <3>2. CASE ~(f = agg.file /\ j = i)
      <4>1. /\ count'[f][j] = count[f][j] /\ acc'[f][j] = acc[f][j]
            /\ (Touched(f, j)' <=> Touched(f, j)) /\ (Once(f, j)' <=> Once(f, j))
            /\ NextOffset(f)' = NextOffset(f) /\ stored' = stored
        BY <3>2, <1>1, <1>5 DEF Touched, Once, NextOffset
      <4>2. Touched(f, j) /\ agg.active /\ f = agg.file => j < agg'.at
        <5>1. agg.at \in Nat /\ i + 1 \in Nat /\ agg.at <= i
          BY <1>3, AggFacts
        <5>2. Touched(f, j) /\ agg.active /\ f = agg.file => j < agg.at
          BY LineFacts
        <5> QED
          BY <5>1, <5>2, <1>4
      <4> QED
        BY <4>1, <4>2, <1>2, <1>4, LineFacts DEF Once
    <3> QED
      BY <3>1, <3>2
  <2> QED
    BY <2>1 DEF CountOK
<1> QED
  BY <1>1, <1>3, <1>7, <1>8, <1>9, <1>10, AggStepFrame

\* A step that only moves the aggregator to another control point, between
\* two statements on the database.
LEMMA AggControl ==
  ASSUME IInv, AggVarsOnly, NEW p \in AggPc, agg' = [agg EXCEPT !.pc = p],
         mode = "running", toAgg' = toAgg,
         p \in {"entries", "ts_month", "finalize", "advance"} => agg.active,
         p # "ts_final",
         UNCHANGED <<count, stored, dbSeen, acc, pending, seen>>,
         dbMonth' \in Nat, complete' \subseteq Nat, lastLog' \in Nat, month' \in Nat
  PROVE  IInv'
<1>1. /\ agg' \in [pc : AggPc, active : BOOLEAN, file : 0..NFiles, at : Nat, hi : Nat,
                   off : Nat]
      /\ agg'.active = agg.active /\ agg'.file = agg.file /\ agg'.at = agg.at
      /\ agg'.hi = agg.hi /\ agg'.off = agg.off /\ agg'.pc = p
  BY AggFacts
<1>2. UNCHANGED <<log, mode, plan>>
  BY AggUnchanged
<1>3. AggType' /\ DbType'
  BY <1>1 DEF IInv, TypeOK, AggType, DbType, CountType
<1>4. AggOK'
  BY <1>1, <1>2, AggFacts DEF AggOK
<1>5. ToAggOK' /\ ChannelType(toAgg)'
  BY <1>1, AggBetween
<1>6. CountOK'
  BY <1>1, <1>2, AggFacts, CountKeep
<1> QED
  BY <1>3, <1>4, <1>5, <1>6, AggStepFrame

LEMMA SetLastLogTsInv == IInv /\ SetLastLogTs => IInv'
<1> SUFFICES ASSUME IInv, SetLastLogTs PROVE IInv'
  OBVIOUS
<1> DEFINE p == IF agg.pc = "ts_month" THEN "finalize" ELSE "recv"
<1>1. /\ agg.pc \in {"ts_checkpoint", "ts_month"} /\ agg' = [agg EXCEPT !.pc = p]
      /\ lastLog' = Later(lastLog, seen)
      /\ UNCHANGED <<count, stored, dbMonth, complete, dbSeen, toAgg, acc, pending, month, seen>>
      /\ AggVarsOnly
  BY DEF SetLastLogTs
<1>2. p \in AggPc /\ p # "ts_final" /\ (p # "recv" => agg.active)
  BY AggFacts DEF AggPc
<1>3. lastLog' \in Nat /\ dbMonth' \in Nat /\ month' \in Nat /\ complete' \subseteq Nat
  BY <1>1, AggFacts DEF Later, IInv, TypeOK, DbType
<1>4. mode = "running"
  BY <1>1, Running DEF IdleAgg
<1> HIDE DEF p
<1> QED
  BY <1>1, <1>2, <1>3, <1>4, AggControl

LEMMA FinalizeMonthInv == IInv /\ FinalizeMonth => IInv'
<1> SUFFICES ASSUME IInv, FinalizeMonth PROVE IInv'
  OBVIOUS
<1>1. /\ agg.pc = "finalize" /\ agg' = [agg EXCEPT !.pc = "advance"]
      /\ complete' = complete \cup {month}
      /\ UNCHANGED <<count, stored, dbMonth, dbSeen, lastLog, toAgg, acc, pending, month, seen>>
      /\ AggVarsOnly
  BY DEF FinalizeMonth
<1>2. mode = "running" /\ agg.active
  BY <1>1, Running, AggFacts DEF IdleAgg
<1>3. lastLog' \in Nat /\ dbMonth' \in Nat /\ month' \in Nat /\ complete' \subseteq Nat
  BY <1>1, AggFacts DEF IInv, TypeOK, DbType
<1> QED
  BY <1>1, <1>2, <1>3, AggControl DEF AggPc

LEMMA AdvanceMonthInv ==
  ASSUME IInv, NEW i \in 1..MaxLines, AdvanceMonth(i)
  PROVE  IInv'
<1>1. /\ agg.pc = "advance" /\ agg' = [agg EXCEPT !.pc = "entries"]
      /\ i \in Kept(agg.file, agg.at, agg.hi)
      /\ dbMonth' = EntryMonth(i) /\ month' = EntryMonth(i)
      /\ UNCHANGED <<count, stored, complete, dbSeen, lastLog, toAgg, acc, pending, seen>>
      /\ AggVarsOnly
  BY DEF AdvanceMonth, NextEntry
<1>2. agg.active
  BY <1>1, AggFacts
<1>3. mode = "running" /\ EntryMonth(i) \in Nat
  BY <1>1, <1>2, NextEntryFacts
<1>4. lastLog' \in Nat /\ complete' \subseteq Nat
  BY <1>1, AggFacts DEF IInv, TypeOK, DbType
<1> QED
  BY <1>1, <1>2, <1>3, <1>4, AggControl DEF AggPc

LEMMA NoCheckpointInv == IInv /\ NoCheckpoint => IInv'
<1> SUFFICES ASSUME IInv, NoCheckpoint PROVE IInv'
  OBVIOUS
<1>1. /\ agg.pc = "entries" /\ agg' = [agg EXCEPT !.pc = "recv", !.at = agg.hi + 1]
      /\ UNCHANGED <<count, stored, dbMonth, complete, dbSeen, lastLog>>
      /\ UNCHANGED <<toAgg, acc, pending, month, seen>> /\ AggVarsOnly
  BY DEF NoCheckpoint, BatchDone, dbVars
<1>2. mode = "running" /\ agg.active /\ agg.hi + 1 \in Nat /\ agg.at <= agg.hi + 1
  BY <1>1, Running, AggFacts DEF IdleAgg
<1>3. /\ agg' \in [pc : AggPc, active : BOOLEAN, file : 0..NFiles, at : Nat, hi : Nat,
                   off : Nat]
      /\ agg'.active = agg.active /\ agg'.file = agg.file /\ agg'.at = agg.hi + 1
      /\ agg'.hi = agg.hi /\ agg'.off = agg.off /\ agg'.pc = "recv"
  BY <1>1, <1>2, AggFacts DEF AggPc
<1>4. UNCHANGED <<log, mode, plan>>
  BY <1>1, AggUnchanged
<1>5. AggType' /\ DbType'
  BY <1>1, <1>3 DEF IInv, TypeOK, AggType, DbType, CountType
<1>6. AggOK'
  BY <1>2, <1>3, <1>4, AggFacts DEF AggOK
<1>7. ToAggOK' /\ ChannelType(toAgg)'
  BY <1>1, <1>3, AggBetween
<1>8. CountOK'
  BY <1>1, <1>2, <1>3, <1>4, CountKeep
<1> QED
  BY <1>1, <1>2, <1>5, <1>6, <1>7, <1>8, AggStepFrame

AggRecord ==
  agg \in [pc : AggPc, active : BOOLEAN, file : 0..NFiles, at : Nat, hi : Nat, off : Nat]

\* A flush with a resume row for the open file at an offset no touched line
\* of it reaches.
LEMMA PartialFlushInv ==
  ASSUME IInv, mode = "running", AggVarsOnly, agg.active, NEW off \in Nat,
         Flush(WithPartial(off)), toAgg' = toAgg, UNCHANGED <<month, seen>>,
         \A i \in 1..MaxLines : Touched(agg.file, i) => i <= off,
         AggRecord',
         agg'.active = agg.active, agg'.file = agg.file, agg'.hi = agg.hi, agg'.off = agg.off,
         agg.at <= agg'.at, agg'.at <= agg.hi + 1, agg'.pc # "ts_final"
  PROVE  IInv'
<1>1. agg'.at \in Nat
  BY DEF AggRecord
<1>2. UNCHANGED <<log, mode, plan>>
  BY AggUnchanged
<1> DEFINE pend == WithPartial(off)
<1>3. /\ pend \in [File -> Row]
      /\ \A f \in File : pend[f] = IF f = agg.file THEN RowOf(off, plan[f].size, FALSE)
                                                   ELSE pending[f]
  <2>1. agg.file \in File /\ plan[agg.file].size \in Nat /\ pending \in [File -> Row]
    BY AggFacts, LoaderFacts
  <2> QED
    BY <2>1 DEF WithPartial, RowOf, Row
<1>4. Flush(pend)
  OBVIOUS
<1> HIDE DEF pend
<1>5. ASSUME NEW f \in File, NEW i \in 1..MaxLines, Touched(f, i)
      PROVE  i <= IF pend[f].known THEN pend[f].offset ELSE stored[f].offset
  <2>1. CASE f = agg.file
    BY <2>1, <1>3, <1>5 DEF RowOf
  <2>2. CASE f # agg.file
    BY <2>2, <1>3, <1>5, LineFacts DEF NextOffset
  <2> QED
    BY <2>1, <2>2
<1>6. DbType' /\ CountOK' /\ CountType(acc)' /\ pending' \in [File -> Row]
  BY <1>1, <1>3, <1>4, <1>5, FlushInv
<1>7. AggType'
  BY <1>6, AggFacts DEF AggType, AggRecord
<1>8. AggOK'
  BY <1>1, <1>2, AggFacts DEF AggOK
<1>9. ToAggOK' /\ ChannelType(toAgg)'
  BY <1>1, AggBetween
<1> QED
  BY <1>6, <1>7, <1>8, <1>9, AggStepFrame

LEMMA MonthBoundaryInv ==
  ASSUME IInv, NEW i \in 1..MaxLines, MonthBoundary(i)
  PROVE  IInv'
<1>1. /\ agg.pc = "entries" /\ i \in Kept(agg.file, agg.at, agg.hi)
      /\ Flush(WithPartial(i - 1)) /\ agg' = [agg EXCEPT !.pc = "ts_month"]
      /\ toAgg' = toAgg /\ UNCHANGED <<month, seen>> /\ AggVarsOnly
  BY DEF MonthBoundary, NextEntry
<1>2. /\ agg.active /\ mode = "running" /\ i - 1 \in Nat /\ agg.at <= i
      /\ agg.at \in Nat /\ agg.at <= agg.hi + 1
  <2>1. agg.active /\ agg.at \in Nat /\ agg.at <= agg.hi + 1
    BY <1>1, AggFacts
  <2>2. i \in Nat /\ agg.at <= i /\ mode = "running"
    BY <1>1, <2>1, NextEntryFacts
  <2>3. 1 <= agg.at
    BY <2>1, AggFacts
  <2>4. i - 1 \in Nat
    BY <2>1, <2>2, <2>3
  <2> QED
    BY <2>1, <2>2, <2>4
<1>3. \A j \in 1..MaxLines : Touched(agg.file, j) => j <= i - 1
  BY SMTT(30), <1>2, LineFacts, AggFacts
<1>4. /\ AggRecord'
      /\ agg'.active = agg.active /\ agg'.file = agg.file /\ agg'.at = agg.at
      /\ agg'.hi = agg.hi /\ agg'.off = agg.off /\ agg'.pc = "ts_month"
  BY <1>1, AggFacts DEF AggPc, AggRecord
<1>5. agg.at <= agg'.at /\ agg'.at <= agg.hi + 1 /\ agg'.pc # "ts_final"
  BY <1>2, <1>4
<1> DEFINE off == i - 1
<1>6. off \in Nat /\ Flush(WithPartial(off))
  BY <1>1, <1>2
<1>7. \A j \in 1..MaxLines : Touched(agg.file, j) => j <= off
  BY <1>3
<1> HIDE DEF off
<1> QED
  BY <1>1, <1>2, <1>4, <1>5, <1>6, <1>7, PartialFlushInv

LEMMA CheckpointInv == IInv /\ Checkpoint => IInv'
<1> SUFFICES ASSUME IInv, Checkpoint PROVE IInv'
  OBVIOUS
<1>1. /\ agg.pc = "entries" /\ Flush(WithPartial(agg.off))
      /\ agg' = [agg EXCEPT !.pc = "ts_checkpoint", !.at = agg.hi + 1]
      /\ toAgg' = toAgg /\ UNCHANGED <<month, seen>> /\ AggVarsOnly
  BY DEF Checkpoint, BatchDone
<1>2. /\ agg.active /\ mode = "running" /\ agg.off \in Nat /\ agg.hi + 1 \in Nat
      /\ agg.at <= agg.hi + 1 /\ agg.hi <= agg.off /\ agg.at \in Nat /\ agg.hi \in Nat
  BY <1>1, Running, AggFacts DEF IdleAgg
<1>3. \A j \in 1..MaxLines : Touched(agg.file, j) => j <= agg.off
  <2> SUFFICES ASSUME NEW j \in 1..MaxLines, Touched(agg.file, j) PROVE j <= agg.off
    OBVIOUS
  <2>1. j < agg.at
    BY <1>2, LineFacts, AggFacts
  <2> QED
    BY <2>1, <1>2
<1>4. /\ AggRecord'
      /\ agg'.active = agg.active /\ agg'.file = agg.file /\ agg'.at = agg.hi + 1
      /\ agg'.hi = agg.hi /\ agg'.off = agg.off /\ agg'.pc = "ts_checkpoint"
  BY <1>1, <1>2, AggFacts DEF AggPc, AggRecord
<1>5. agg.at <= agg'.at /\ agg'.at <= agg.hi + 1 /\ agg'.pc # "ts_final"
  BY <1>2, <1>4
<1> QED
  BY <1>1, <1>2, <1>3, <1>4, <1>5, PartialFlushInv

LEMMA AggFileDoneInv == IInv /\ AggFileDone => IInv'
<1> SUFFICES ASSUME IInv, AggFileDone PROVE IInv'
  OBVIOUS
<1> DEFINE m == Head(toAgg)
<1>1. /\ agg.pc = "recv" /\ toAgg # <<>> /\ m.kind = "fdone" /\ toAgg' = Tail(toAgg)
      /\ pending' = [pending EXCEPT ![m.file] = RowOf(m.off, plan[m.file].size, m.completed)]
      /\ agg' = [agg EXCEPT !.active = FALSE]
      /\ UNCHANGED <<dbVars, acc, month, seen>> /\ AggVarsOnly
  BY DEF AggFileDone, Received
<1>2. /\ UNCHANGED <<log, mode, plan, loader, parser>>
      /\ UNCHANGED <<count, stored, dbMonth, complete, dbSeen, lastLog>>
  BY <1>1, AggUnchanged DEF dbVars
<1>3. m \in Msg /\ MsgOK(m) /\ Follows(agg.file, AggAt, m) /\ mode = "running"
  BY <1>1, ToAggHead
<1> HIDE DEF m
<1>4. /\ m.file = agg.file /\ m.lo = m.off + 1 /\ agg.active /\ agg.hi < m.lo
  BY <1>1, <1>3 DEF Follows, AggAt
<1>5. /\ m.off \in Nat /\ m.file \in File /\ m.completed \in BOOLEAN
      /\ agg.at \in Nat /\ agg.hi \in Nat /\ agg.at <= agg.hi + 1
      /\ plan[m.file].size \in Nat
  BY <1>1, <1>3, <1>4, AggFacts, LoaderFacts DEF MsgOK, Msg
<1>6. /\ ~agg'.active /\ agg'.file = agg.file /\ agg'.pc = "recv"
      /\ agg' \in [pc : AggPc, active : BOOLEAN, file : 0..NFiles, at : Nat, hi : Nat,
                   off : Nat]
  BY <1>1, AggFacts
<1>7. /\ pending' \in [File -> Row]
      /\ \A f \in File : pending'[f] = IF f = m.file
                                       THEN RowOf(m.off, plan[m.file].size, m.completed)
                                       ELSE pending[f]
  BY <1>1, <1>5, AggFacts DEF Row, RowOf
<1>8. AggType' /\ DbType'
  BY <1>1, <1>2, <1>6, <1>7 DEF IInv, TypeOK, AggType, DbType, CountType
<1>9. AggOK'
  BY <1>6 DEF AggOK
<1>10. ToAggOK' /\ ChannelType(toAgg)'
  <2>1. AggAt' = After(m)
    BY <1>1, <1>6 DEF AggAt, After
  <2> QED
    BY <2>1, <1>1, <1>2, <1>4, <1>6, ToAggPop DEF m
<1>11. CountOK'
  <2>1. ASSUME NEW f \in File, NEW i \in 1..MaxLines
        PROVE  /\ Once(f, i)'
               /\ Touched(f, i)' => i <= Len(log'[f]) /\ log'[f][i] # Dropped
               /\ count'[f][i] > 0 => i <= stored'[f].offset
               /\ Touched(f, i)' => IF agg'.active /\ f = agg'.file
                                    THEN i < agg'.at
                                    ELSE i <= NextOffset(f)'
               /\ agg'.file < f /\ mode' = "running"
                    => /\ acc'[f][i] = 0
                       /\ count'[f][i] > 0 => i <= plan'[f].offset
    <3>1. /\ count'[f][i] = count[f][i] /\ acc'[f][i] = acc[f][i] /\ stored' = stored
          /\ (Once(f, i)' <=> Once(f, i)) /\ (Touched(f, i)' <=> Touched(f, i))
      BY <1>1, <1>2 DEF Once, Touched
    <3>2. Touched(f, i) => i <= NextOffset(f)'
      <4>1. CASE f = m.file
        <5>1. NextOffset(f)' = m.off
          BY <4>1, <1>7 DEF NextOffset, RowOf
        <5>2. Touched(f, i) => i < agg.at
          BY <4>1, <1>4, LineFacts
        <5> QED
          BY <5>1, <5>2, <1>4, <1>5
      <4>2. CASE f # m.file
        <5>1. NextOffset(f)' = NextOffset(f)
          BY <4>2, <1>7, <1>2 DEF NextOffset
        <5> QED
          BY <5>1, <4>2, <1>4, LineFacts
      <4> QED
        BY <4>1, <4>2
    <3> QED
      BY <3>1, <3>2, <1>2, <1>6, LineFacts DEF Once
  <2> QED
    BY <2>1 DEF CountOK
<1> QED
  BY <1>1, <1>3, <1>8, <1>9, <1>10, <1>11, AggStepFrame

LEMMA FinalFlushInv == IInv /\ FinalFlush => IInv'
<1> SUFFICES ASSUME IInv, FinalFlush PROVE IInv'
  OBVIOUS
<1> DEFINE m == Head(toAgg)
<1>1. /\ agg.pc = "recv" /\ toAgg # <<>> /\ m.kind = "done" /\ toAgg' = Tail(toAgg)
      /\ ~loader.failed /\ Flush(pending) /\ agg' = [agg EXCEPT !.pc = "ts_final"]
      /\ UNCHANGED <<month, seen>> /\ AggVarsOnly
  BY DEF FinalFlush, Received
<1>2. UNCHANGED <<log, mode, plan, loader, parser>>
  BY <1>1, AggUnchanged
<1>3. Follows(agg.file, AggAt, m) /\ mode = "running"
  BY <1>1, ToAggHead
<1> HIDE DEF m
<1>4. ~agg.active
  BY <1>1, DoneWhenShut DEF m
<1>5. /\ agg'.active = agg.active /\ agg'.file = agg.file /\ agg'.pc = "ts_final"
      /\ agg' \in [pc : AggPc, active : BOOLEAN, file : 0..NFiles, at : Nat, hi : Nat,
                   off : Nat]
  BY <1>1, AggFacts DEF AggPc
<1>6. \A f \in File, i \in 1..MaxLines :
        Touched(f, i) => i <= IF pending[f].known THEN pending[f].offset ELSE stored[f].offset
  BY <1>4, LineFacts DEF NextOffset
<1>7. DbType' /\ CountOK' /\ CountType(acc)' /\ pending' \in [File -> Row]
  BY <1>1, <1>3, <1>4, <1>5, <1>6, AggFacts, FlushInv
<1>8. AggType'
  BY <1>1, <1>5, <1>7, AggFacts DEF AggType
<1>9. AggOK'
  BY <1>4, <1>5 DEF AggOK
<1>10. ToAggOK' /\ ChannelType(toAgg)'
  BY <1>1, <1>2, ToAggPop DEF m
<1> QED
  BY <1>1, <1>3, <1>7, <1>8, <1>9, <1>10, AggStepFrame

-----------------------------------------------------------------------------
(* The end of a run, however it comes, the start of one, and the web       *)
(* server.                                                                 *)

\* Only the database is left: what is committed lies before its offset.
LEMMA StopInv ==
  ASSUME IInv, Stop, UNCHANGED <<log, count, stored, dbMonth, complete, dbSeen>>,
         lastLog' \in Nat, faults' \in 0..MaxFaults
  PROVE  IInv'
<1>1. /\ mode' = "idle" /\ plan' = NoPlan /\ skipped' = {}
      /\ todo' = {} /\ loader' = IdleLoader
      /\ toParser' = <<>> /\ parser' = IdleParser /\ toAgg' = <<>>
      /\ agg' = IdleAgg /\ acc' = NoCount /\ pending' = NoPending
      /\ month' = NoMonth /\ seen' = 0
  BY DEF Stop
<1>2. LogType' /\ DbType'
  BY DEF IInv, TypeOK, LogType, DbType, CountType
<1>3. RunType' /\ LoaderType' /\ ParserType' /\ ChannelType(toParser)' /\ ChannelType(toAgg)'
  BY <1>1 DEF RunType, LoaderType, ParserType, ChannelType, NoPlan, IdleLoader, IdleParser,
              NoFile
<1>4. AggType'
  BY <1>1 DEF AggType, AggPc, CountType, NoCount, NoPending, NoRow, Row, IdleAgg, NoFile, NoMonth
<1>5. QuietWhenIdle'
  BY <1>1 DEF QuietWhenIdle
<1>6. LoaderOK'
  BY <1>1, <1>2 DEF LoaderOK, IdleLoader, NoPlan, LogType, IsLog
<1>7. ParserOK'
  BY <1>1 DEF ParserOK, IdleParser, ParserFree
<1>8. ToParserOK' /\ ToAggOK'
  BY <1>1 DEF ToParserOK, ToAggOK, CarriesOK, HasDone, InOrder, Behind, LoaderAt, ParserInAt,
              ParserOutAt, AggAt, IdleLoader, IdleParser, IdleAgg, NoFile
<1>9. AggOK'
  BY <1>1 DEF AggOK, IdleAgg
<1>10. CountOK'
  <2>1. ASSUME NEW f \in File, NEW i \in 1..MaxLines
        PROVE  /\ acc'[f][i] = 0 /\ count'[f][i] = count[f][i] /\ count[f][i] \in Nat
               /\ count[f][i] <= 1
               /\ count[f][i] > 0 => Touched(f, i)
               /\ NextOffset(f)' = stored[f].offset
    BY <1>1, LineFacts DEF NoCount, NoPending, NoRow, NextOffset, Touched
  <2>2. ASSUME NEW f \in File, NEW i \in 1..MaxLines
        PROVE  /\ Once(f, i)'
               /\ Touched(f, i)' => count[f][i] > 0
    BY <2>1 DEF Once, Touched
  <2>3. ~agg'.active /\ mode' # "running"
    BY <1>1 DEF IdleAgg
  <2> QED
    BY <2>1, <2>2, <2>3, LineFacts DEF CountOK
<1> QED
  BY <1>2, <1>3, <1>4, <1>5, <1>6, <1>7, <1>8, <1>9, <1>10 DEF IInv, TypeOK

LEMMA EndRunInv == IInv /\ (EndRun \/ AbortRun \/ Crash) => IInv'
<1> SUFFICES ASSUME IInv, EndRun \/ AbortRun \/ Crash PROVE IInv'
  OBVIOUS
<1>1. Stop /\ UNCHANGED <<log, count, stored, dbMonth, complete, dbSeen>>
  BY DEF EndRun, AbortRun, Crash, dbVars
<1>2. lastLog' \in Nat
  BY AggFacts DEF EndRun, AbortRun, Crash, dbVars, Later
<1>3. faults' \in 0..MaxFaults
  BY DEF EndRun, AbortRun, Crash, IInv, TypeOK
<1> QED
  BY <1>1, <1>2, <1>3, StopInv

LEMMA StartRunInv == IInv /\ StartRun => IInv'
<1> SUFFICES ASSUME IInv, StartRun PROVE IInv'
  OBVIOUS
<1>1. /\ mode = "idle" /\ mode' = "running"
      /\ plan' = [f \in File |-> [offset |-> ResumeOffset(f), size |-> Len(log[f])]]
      /\ skipped' = OrderSkip /\ todo' = Pending \ OrderSkip
      /\ month' = dbMonth /\ seen' = dbSeen
      /\ UNCHANGED <<log, loader, toParser, parser, toAgg, agg, acc, pending, faults>>
      /\ UNCHANGED <<count, stored, dbMonth, complete, dbSeen, lastLog>>
  BY DEF StartRun, dbVars
<1>2. /\ loader = IdleLoader /\ toParser = <<>> /\ parser = IdleParser
      /\ toAgg = <<>> /\ agg = IdleAgg /\ acc = NoCount /\ pending = NoPending
  BY <1>1 DEF IInv, QuietWhenIdle
<1>3. \A f \in File : /\ ResumeOffset(f) \in Nat /\ Len(log[f]) \in Nat
                      /\ ResumeOffset(f) <= Len(log[f])
                      /\ ResumeOffset(f) = stored[f].offset \/ ResumeOffset(f) = Len(log[f])
  <2>1. \A f \in File : stored[f].offset \in Nat /\ Len(log[f]) \in Nat
    BY AggFacts, LoaderFacts DEF Row
  <2> QED
    BY <2>1 DEF ResumeOffset
<1>4. RunType' /\ todo' \subseteq File
  BY <1>1, <1>3 DEF RunType, OrderSkip, Pending
<1>5. TypeOK'
  BY <1>1, <1>4, AggFacts DEF IInv, TypeOK, LogType, DbType, LoaderType, ParserType, ChannelType,
                              AggType, CountType
<1>6. QuietWhenIdle'
  BY <1>1 DEF QuietWhenIdle
<1>7. LoaderOK'
  BY <1>1, <1>2, <1>3, <1>4 DEF LoaderOK, IdleLoader, NoFile, File
<1>8. ParserOK'
  BY <1>1, <1>2 DEF ParserOK, IdleParser, ParserFree
<1>9. ToParserOK' /\ ToAggOK'
  BY <1>1, <1>2 DEF ToParserOK, ToAggOK, CarriesOK, HasDone, InOrder, Behind, LoaderAt,
                    ParserInAt, ParserOutAt, AggAt, IdleLoader, IdleParser, IdleAgg, NoFile
<1>10. AggOK'
  BY <1>1, <1>2 DEF AggOK, IdleAgg
<1>11. CountOK'
  <2>1. ASSUME NEW f \in File, NEW i \in 1..MaxLines
        PROVE  /\ Once(f, i)'
               /\ Touched(f, i)' => i <= Len(log'[f]) /\ log'[f][i] # Dropped
               /\ count'[f][i] > 0 => i <= stored'[f].offset
               /\ Touched(f, i)' => IF agg'.active /\ f = agg'.file
                                    THEN i < agg'.at
                                    ELSE i <= NextOffset(f)'
               /\ agg'.file < f /\ mode' = "running"
                    => /\ acc'[f][i] = 0
                       /\ count'[f][i] > 0 => i <= plan'[f].offset
    <3>1. /\ count'[f][i] = count[f][i] /\ acc'[f][i] = 0 /\ acc[f][i] = 0
          /\ stored' = stored /\ log' = log /\ ~agg.active /\ ~agg'.active
          /\ (Once(f, i)' <=> Once(f, i)) /\ (Touched(f, i)' <=> Touched(f, i))
          /\ NextOffset(f)' = NextOffset(f)
      BY <1>1, <1>2 DEF Once, Touched, NextOffset, IdleAgg, NoCount
    <3>2. count[f][i] > 0 => i <= ResumeOffset(f)
      BY <3>1, <1>3, LineFacts DEF Touched
    <3>3. plan'[f].offset = ResumeOffset(f)
      BY <1>1
    <3> QED
      BY <3>1, <3>2, <3>3, LineFacts DEF Once
  <2> QED
    BY <2>1 DEF CountOK
<1> QED
  BY <1>5, <1>6, <1>7, <1>8, <1>9, <1>10, <1>11 DEF IInv

LEMMA AppendLineInv ==
  ASSUME IInv, NEW f \in File, NEW t \in Stamps \cup {Dropped}, AppendLine(f, t)
  PROVE  IInv'
<1>1. /\ Len(log[f]) < MaxLines
      /\ log' = [log EXCEPT ![f] = Append(@, t)]
      /\ UNCHANGED <<count, stored, dbMonth, complete, dbSeen, lastLog, mode, plan, skipped,
                     todo, loader, toParser, parser, toAgg, agg, acc, pending, month, seen,
                     faults>>
  BY DEF AppendLine, dbVars, runVars, loadVars, aggVars
<1>2. \A g \in File : log[g] \in Seq(Stamps \cup {Dropped}) /\ Len(log[g]) \in Nat
                      /\ Len(log[g]) <= MaxLines
  BY DEF IInv, TypeOK, LogType, IsLog
<1>3. DOMAIN log = File
  BY DEF IInv, TypeOK, LogType
<1>4. /\ Append(log[f], t) \in Seq(Stamps \cup {Dropped})
      /\ Len(Append(log[f], t)) = Len(log[f]) + 1
      /\ \A i \in 1..Len(log[f]) : Append(log[f], t)[i] = log[f][i]
  BY <1>2
<1>5. \A g \in File : /\ log'[g] = IF g = f THEN Append(log[f], t) ELSE log[g]
                      /\ Len(log'[g]) \in Nat /\ Len(log[g]) <= Len(log'[g])
                      /\ \A i \in 1..Len(log[g]) : log'[g][i] = log[g][i]
  BY <1>1, <1>2, <1>3, <1>4
<1>6. LogType'
  <2>1. DOMAIN log' = File
    BY <1>1, <1>3
  <2>2. \A g \in File : IsLog(log'[g])
    BY <1>1, <1>2, <1>4, <1>5 DEF IsLog
  <2> QED
    BY <2>1, <2>2 DEF LogType, IsLog
<1>7. TypeOK'
  BY <1>1, <1>6 DEF IInv, TypeOK, DbType, RunType, LoaderType, ParserType, ChannelType, AggType,
                    CountType
<1>8. QuietWhenIdle'
  BY <1>1 DEF IInv, QuietWhenIdle
<1>9. LoaderOK'
  <2>1. \A g \in File : plan'[g].offset <= Len(log'[g])
    BY <1>1, <1>2, <1>5, LoaderFacts
  <2>2. loader.open => loader.pos <= Len(log'[loader.file])
    BY <1>2, <1>5, LoaderFacts
  <2> QED
    BY <2>1, <2>2, <1>1 DEF IInv, LoaderOK
<1>10. ParserOK'
  <2>1. parser.open => parser.off <= Len(log'[parser.file])
    BY <1>2, <1>5, ParserFacts
  <2> QED
    BY <2>1, <1>1 DEF IInv, ParserOK, ParserFree
<1>11. ASSUME NEW m \in Msg, MsgOK(m) PROVE MsgOK(m)'
  BY <1>2, <1>5, <1>11 DEF MsgOK, Msg
<1>12. ToParserOK'
  <2>1. CarriesOK(toParser, "entries")'
    <3>1. \A k \in 1..Len(toParser) : toParser[k] \in Msg
      BY DEF IInv, TypeOK, ChannelType
    <3> QED
      BY <3>1, <1>1, <1>11 DEF IInv, ToParserOK, CarriesOK
  <2>2. HasDone(toParser)' => loader'.done
    BY <1>1 DEF IInv, ToParserOK, HasDone
  <2>3. InOrder(toParser, parser.file, ParserInAt)'
    BY <1>1 DEF IInv, ToParserOK, InOrder, Follows, After, ParserInAt
  <2>4. ~loader'.done => Behind(toParser, loader.file, LoaderAt, parser.file, ParserInAt)'
    BY <1>1 DEF IInv, ToParserOK, Behind, After, LoaderAt, ParserInAt
  <2> QED
    BY <2>1, <2>2, <2>3, <2>4 DEF ToParserOK
<1>13. ToAggOK'
  <2>1. CarriesOK(toAgg, "lines")'
    <3>1. \A k \in 1..Len(toAgg) : toAgg[k] \in Msg
      BY DEF IInv, TypeOK, ChannelType
    <3> QED
      BY <3>1, <1>1, <1>11 DEF IInv, ToAggOK, CarriesOK
  <2>2. HasDone(toAgg)' => parser'.done
    BY <1>1 DEF IInv, ToAggOK, HasDone
  <2>3. InOrder(toAgg, agg.file, AggAt)'
    BY <1>1 DEF IInv, ToAggOK, InOrder, Follows, After, AggAt
  <2>4. ~parser'.done => Behind(toAgg, parser.file, ParserOutAt, agg.file, AggAt)'
    BY <1>1 DEF IInv, ToAggOK, Behind, After, ParserOutAt, AggAt
  <2> QED
    BY <2>1, <2>2, <2>3, <2>4 DEF ToAggOK
<1>14. AggOK'
  <2>1. agg.active => agg.off <= Len(log'[agg.file])
    BY <1>2, <1>5, AggFacts
  <2> QED
    BY SMTT(30), <2>1, <1>1 DEF IInv, AggOK
<1>15. CountOK'
  <2>1. ASSUME NEW g \in File, NEW i \in 1..MaxLines, i <= Len(log[g]), log[g][i] # Dropped
        PROVE  i <= Len(log'[g]) /\ log'[g][i] # Dropped
    BY <2>1, <1>2, <1>5
  <2> QED
    BY <2>1, <1>1 DEF IInv, CountOK, Once, Touched, NextOffset
<1> QED
  BY <1>7, <1>8, <1>9, <1>10, <1>12, <1>13, <1>14, <1>15 DEF IInv

-----------------------------------------------------------------------------
(* The theorems. *)

LEMMA StutterInv ==
  ASSUME IInv, UNCHANGED vars
  PROVE  IInv'
<1>1. UNCHANGED <<log, count, stored, dbMonth, complete, dbSeen, lastLog, mode, plan, skipped,
                  todo, loader, toParser, parser, toAgg, agg, acc, pending, month, seen, faults>>
  BY DEF vars, dbVars, runVars, loadVars, aggVars
<1>2. TypeOK'
  BY <1>1 DEF IInv, TypeOK, LogType, DbType, CountType, RunType, LoaderType, ParserType,
              ChannelType, AggType
<1>3. QuietWhenIdle' /\ LoaderOK' /\ ParserOK' /\ AggOK'
  BY <1>1 DEF IInv, QuietWhenIdle, LoaderOK, ParserOK, ParserFree, AggOK
<1>4. ToParserOK' /\ ToAggOK'
  BY <1>1, ToParserKeep, ToAggKeep DEF ParserInAt, ParserOutAt, AggAt
<1>5. CountOK'
  BY <1>1, AggFacts, CountKeep
<1> QED
  BY <1>2, <1>3, <1>4, <1>5 DEF IInv

LEMMA NextIInv == IInv /\ [Next]_vars => IInv'
<1> SUFFICES ASSUME IInv, [Next]_vars PROVE IInv'
  OBVIOUS
<1>1. CASE UNCHANGED vars
  BY <1>1, StutterInv
<1>2. CASE StartRun
  BY <1>2, StartRunInv
<1>3. CASE EmptyRun
  BY <1>1, <1>3 DEF EmptyRun
<1>4. CASE LoaderStep
  BY <1>4, LoaderFileStartInv, LoaderLinesInv, LoaderFileDoneInv, LoaderDoneInv DEF LoaderStep
<1>5. CASE LoaderError
  BY <1>5, LoaderErrorInv
<1>6. CASE ParserStep
  BY <1>6, ParserFileStartInv, ParserTakeLinesInv, ParseLineInv, ParseLineFullInv,
     ParserFlushBatchInv, ParserFileDoneInv, ParserDoneInv DEF ParserStep
<1>7. CASE AggStep
  BY <1>7, AggFileStartInv, AggEntriesInv, AggregateEntryInv, MonthBoundaryInv, AdvanceMonthInv,
     SetLastLogTsInv, FinalizeMonthInv, NoCheckpointInv, CheckpointInv, AggFileDoneInv,
     FinalFlushInv, EndRunInv DEF AggStep
<1>8. CASE Crash
  BY <1>8, EndRunInv
<1>9. CASE \E a \in Appendable : AppendLine(a[1], a[2])
  BY <1>9, AppendLineInv
<1> QED
  BY <1>1, <1>2, <1>3, <1>4, <1>5, <1>6, <1>7, <1>8, <1>9 DEF Next

\* The invariant holds in every reachable state: in particular the two
\* channels always carry one stream of lines in order, and what is counted
\* lies before the offset the next commit stores.
THEOREM Invariant == Spec => []IInv
<1> QED
  BY InitIInv, NextIInv, PTL DEF Spec

\* The variables hold values of their types; the two channels never hold
\* more than CHANNEL_CAPACITY messages.
THEOREM TypeCorrect == Spec => []TypeOK
<1>1. IInv => TypeOK
  BY DEF IInv
<1> QED
  BY <1>1, Invariant, PTL

\* No line of a log file is ever added to the tables twice, for any number
\* of files, any batch sizes, any capacity of the channels, any crashes and
\* read errors and any number of runs.
THEOREM CountedAtMostOnce == Spec => []AtMostOnce
<1>1. IInv => AtMostOnce
  <2> SUFFICES ASSUME IInv, NEW f \in File, NEW i \in 1..MaxLines PROVE count[f][i] <= 1
    BY DEF AtMostOnce
  <2> QED
    BY LineFacts
<1> QED
  BY <1>1, Invariant, PTL

\* A step either appends a line to a file or leaves the files alone and
\* commits, of each line, nothing or what the accumulators held.
LEMMA StepCounts ==
  ASSUME IInv, [Next]_vars
  PROVE  \/ \E a \in Appendable : AppendLine(a[1], a[2])
         \/ /\ log' = log
            /\ \A f \in File, i \in 1..MaxLines :
                 count'[f][i] = count[f][i] \/ count'[f][i] = count[f][i] + acc[f][i]
<1>1. CASE UNCHANGED vars
  BY <1>1 DEF vars, dbVars
<1>2. CASE StartRun \/ EmptyRun
  BY <1>2 DEF StartRun, EmptyRun, vars, dbVars
<1>3. CASE LoaderStep \/ LoaderError
  BY <1>3 DEF LoaderStep, LoaderError, LoaderFileStart, LoaderLines, LoaderFileDone, LoaderDone,
              LoaderVarsOnly, dbVars
<1>4. CASE ParserStep
  BY <1>4 DEF ParserStep, ParserFileStart, ParserTakeLines, ParseLine, ParseLineFull,
              ParserFlushBatch, ParserFileDone, ParserDone, ParserVarsOnly, dbVars
<1>5. CASE AggStep
  <2>1. ASSUME NEW pend, Flush(pend), AggVarsOnly
        PROVE  /\ log' = log
               /\ \A f \in File, i \in 1..MaxLines : count'[f][i] = count[f][i] + acc[f][i]
    BY <2>1 DEF Flush, AggVarsOnly
  <2>2. CASE \E i \in 1..MaxLines : MonthBoundary(i)
    BY <2>1, <2>2 DEF MonthBoundary
  <2>3. CASE Checkpoint \/ FinalFlush
    BY <2>1, <2>3 DEF Checkpoint, FinalFlush
  <2>4. CASE AggFileStart \/ AggEntries \/ NoCheckpoint \/ AggFileDone
    BY <2>4 DEF AggFileStart, AggEntries, NoCheckpoint, AggFileDone, AggVarsOnly, dbVars
  <2>5. CASE SetLastLogTs \/ FinalizeMonth
    BY <2>5 DEF SetLastLogTs, FinalizeMonth, AggVarsOnly
  <2>6. CASE \E i \in 1..MaxLines : AggregateEntry(i) \/ AdvanceMonth(i)
    BY <2>6 DEF AggregateEntry, AdvanceMonth, AggVarsOnly
  <2>7. CASE EndRun \/ AbortRun
    BY <2>7 DEF EndRun, AbortRun, dbVars
  <2> QED
    BY <1>5, <2>2, <2>3, <2>4, <2>5, <2>6, <2>7 DEF AggStep
<1>6. CASE Crash
  BY <1>6 DEF Crash, dbVars
<1> QED
  BY <1>1, <1>2, <1>3, <1>4, <1>5, <1>6 DEF Next

LEMMA StepRefines == IInv /\ IInv' /\ [Next]_vars => L!Grow \/ L!CommitLines
<1> SUFFICES ASSUME IInv, IInv', [Next]_vars PROVE L!Grow \/ L!CommitLines
  OBVIOUS
<1>1. CASE \E a \in Appendable : AppendLine(a[1], a[2])
  <2>1. PICK a \in Appendable : AppendLine(a[1], a[2])
    BY <1>1
  <2>2. /\ log' = [log EXCEPT ![a[1]] = Append(@, a[2])]
        /\ count' = count /\ stored' = stored
    BY <2>1 DEF AppendLine, dbVars
  <2>3. \A f \in File : log[f] \in Seq(Stamps \cup {Dropped})
    BY DEF IInv, TypeOK, LogType, IsLog
  <2>4. DOMAIN log = File
    BY DEF IInv, TypeOK, LogType
  <2>5. ASSUME NEW f \in File, NEW i \in 1..Len(log[f])
        PROVE  i \in 1..Len(log'[f]) /\ log'[f][i] = log[f][i]
    <3>1. CASE f = a[1]
      BY <3>1, <2>2, <2>3, <2>4
    <3>2. CASE f # a[1]
      BY <3>2, <2>2, <2>4
    <3> QED
      BY <3>1, <3>2
  <2> QED
    BY <2>2, <2>5 DEF L!Grow
<1>2. CASE /\ log' = log
           /\ \A f \in File, i \in 1..MaxLines :
                count'[f][i] = count[f][i] \/ count'[f][i] = count[f][i] + acc[f][i]
  <2>1. ASSUME NEW f \in File, NEW i \in 1..MaxLines
        PROVE  \/ count'[f][i] = count[f][i]
               \/ /\ count[f][i] = 0 /\ count'[f][i] = 1
                  /\ i <= Len(log[f]) /\ log[f][i] # Dropped
    BY <1>2, LineFacts DEF Touched
  <2>2. ASSUME NEW f \in File, NEW i \in 1..MaxLines, count'[f][i] > 0
        PROVE  i <= [g \in File |-> stored'[g].offset][f]
    BY <2>2 DEF IInv, CountOK
  <2> QED
    BY <1>2, <2>1, <2>2 DEF L!CommitLines
<1> QED
  BY <1>1, <1>2, StepCounts

\* Each commit of a run is one step of the ledger of the module Ledger, which
\* never adds a line twice and never leaves an added line behind an offset;
\* everything else a run does is a stuttering step of it.
THEOREM RunsImplementLedger == Spec => ImplementsAtMostOnce
<1>1. Init => L!Init
  BY DEF Init, L!Init, NoCount, NoRow
<1>2. IInv /\ IInv' /\ [Next]_vars => [L!Grow \/ L!CommitLines]_(L!vars)
  BY StepRefines
<1> QED
  BY <1>1, <1>2, Invariant, PTL DEF Spec, ImplementsAtMostOnce, L!AtMostOnceSpec

-----------------------------------------------------------------------------
(* Channels without gaps. *)

LEMMA EmptyLen == \A q : q = <<>> => Len(q) = 0
OBVIOUS

\* Pushing a message that follows the sender's position without a gap.
LEMMA PushGapless ==
  ASSUME NEW q, ChannelType(q), NEW m \in Msg, NEW f, NEW h, Gapless(q, h),
         NEW sf, NEW sh, Behind(q, sf, sh, f, h), NoGap(sh, m)
  PROVE  Gapless(Append(q, m), h)
<1> DEFINE r == Append(q, m)
<1>1. q \in Seq(Msg) /\ r \in Seq(Msg) /\ Len(q) \in Nat /\ Len(r) = Len(q) + 1 /\ r # <<>>
  BY DEF ChannelType
<1>2. \A k \in 1..Len(r) : r[k] = IF k = Len(q) + 1 THEN m ELSE q[k]
  BY <1>1
<1> HIDE DEF r
<1>3. NoGap(h, r[1])
  <2>1. CASE q = <<>>
    BY <2>1, <1>1, <1>2 DEF Behind
  <2>2. CASE q # <<>>
    BY <2>2, <1>1, <1>2 DEF Gapless
  <2> QED
    BY <2>1, <2>2
<1>4. ASSUME NEW k \in 1..(Len(r) - 1)
      PROVE  NoGap(After(r[k]), r[k + 1])
  <2>1. CASE k < Len(q)
    <3>1. k \in 1..(Len(q) - 1) /\ r[k] = q[k] /\ r[k + 1] = q[k + 1]
      BY <2>1, <1>1, <1>2
    <3> QED
      BY <3>1 DEF Gapless
  <2>2. CASE k = Len(q)
    <3>1. r[k] = q[Len(q)] /\ r[k + 1] = m /\ q # <<>>
      BY <2>2, <1>1, <1>2
    <3> QED
      BY <3>1 DEF Behind
  <2> QED
    BY <2>1, <2>2, <1>1
<1> QED
  BY <1>3, <1>4 DEF Gapless, r

\* Taking the head of a channel.
LEMMA PopGapless ==
  ASSUME NEW q, ChannelType(q), q # <<>>, NEW h, Gapless(q, h)
  PROVE  NoGap(h, Head(q)) /\ Gapless(Tail(q), After(Head(q)))
<1> DEFINE m == Head(q)
           r == Tail(q)
<1>1. /\ q \in Seq(Msg) /\ Len(q) \in Nat /\ Len(q) > 0 /\ m = q[1]
      /\ Len(r) = Len(q) - 1 /\ r \in Seq(Msg)
  <2>1. q \in Seq(Msg) /\ Len(q) \in Nat /\ Len(q) > 0
    BY DEF ChannelType
  <2> QED
    BY <2>1
<1>2. \A k \in 1..Len(r) : r[k] = q[k + 1]
  BY <1>1
<1> HIDE DEF m, r
<1>3. NoGap(h, m)
  BY <1>1 DEF Gapless
<1>4. r # <<>> => NoGap(After(m), r[1])
  <2> SUFFICES ASSUME r # <<>> PROVE NoGap(After(m), r[1])
    OBVIOUS
  <2>1. Len(r) > 0
    BY <1>1
  <2>2. r[1] = q[1 + 1] /\ 1 \in 1..(Len(q) - 1)
    BY <2>1, <1>1, <1>2
  <2> QED
    BY <2>2, <1>1 DEF Gapless
<1>5. ASSUME NEW k \in 1..(Len(r) - 1) PROVE NoGap(After(r[k]), r[k + 1])
  <2>1. k \in 1..Len(r) /\ k + 1 \in 1..Len(r) /\ k + 1 \in 1..(Len(q) - 1)
    <3>1. Len(r) \in Nat /\ Len(r) = Len(q) - 1
      BY <1>1
    <3> QED
      BY <3>1
  <2>2. r[k] = q[k + 1] /\ r[k + 1] = q[(k + 1) + 1]
    BY <1>2, <2>1
  <2> QED
    BY <1>1, <2>1, <2>2 DEF Gapless
<1> QED
  BY <1>3, <1>4, <1>5 DEF Gapless, m, r

\* What a gap is depends on the files only.
LEMMA NoGapSame == log' = log => \A h, m : NoGap(h, m)' <=> NoGap(h, m)
BY DEF NoGap, Kept

\* An empty channel has no gap, and one that nobody touches keeps none.
LEMMA EmptyGapless == \A h : Gapless(<<>>, h)
BY DEF Gapless

LEMMA ToParserGapKeep ==
  ASSUME GapInv, UNCHANGED <<log, toParser>>, ParserInAt' = ParserInAt
  PROVE  Gapless(toParser, ParserInAt)'
BY NoGapSame DEF GapInv, Gapless, After

LEMMA ToAggGapKeep ==
  ASSUME GapInv, UNCHANGED <<log, toAgg>>, AggAt' = AggAt
  PROVE  Gapless(toAgg, AggAt)'
BY NoGapSame DEF GapInv, Gapless, After

LEMMA ToParserPushGap ==
  ASSUME IInv, GapInv, NEW m \in Msg, PushToParser(m), ~loader.done, NoGap(LoaderAt, m),
         UNCHANGED <<log, parser>>
  PROVE  Gapless(toParser, ParserInAt)'
<1>1. Gapless(toParser', ParserInAt)
  BY PushGapless DEF IInv, TypeOK, ToParserOK, GapInv, PushToParser
<1>2. ParserInAt' = ParserInAt
  BY DEF ParserInAt
<1>3. (toParser' # <<>> => NoGap(ParserInAt, toParser'[1])) /\ \A h, n : NoGap(h, n)' <=> NoGap(h, n)
  BY <1>1, NoGapSame DEF Gapless
<1>4. \A k \in 1..(Len(toParser') - 1) : NoGap(After(toParser'[k]), toParser'[k + 1])
  BY <1>1 DEF Gapless
<1> QED
  BY <1>2, <1>3, <1>4 DEF Gapless, After

LEMMA ToParserPopGap ==
  ASSUME IInv, GapInv, toParser # <<>>, toParser' = Tail(toParser), log' = log,
         Head(toParser).kind # "done" => ParserInAt' = After(Head(toParser))
  PROVE  Gapless(toParser, ParserInAt)' /\ NoGap(ParserInAt, Head(toParser))
<1>1. NoGap(ParserInAt, Head(toParser)) /\ Gapless(toParser', After(Head(toParser)))
  BY PopGapless DEF IInv, TypeOK, GapInv
<1>2. CASE Head(toParser).kind = "done"
  <2>1. toParser' = <<>> /\ Len(toParser') = 0
    BY <1>2, ToParserHead
  <2> QED
    BY <1>1, <2>1 DEF Gapless
<1>3. CASE Head(toParser).kind # "done"
  BY <1>1, <1>3, NoGapSame DEF Gapless, After
<1> QED
  BY <1>2, <1>3

LEMMA ToAggPushGap ==
  ASSUME IInv, GapInv, NEW m \in Msg, PushToAgg(m), ~parser.done, NoGap(ParserOutAt, m),
         UNCHANGED <<log, agg>>
  PROVE  Gapless(toAgg, AggAt)'
<1>1. Gapless(toAgg', AggAt)
  BY PushGapless DEF IInv, TypeOK, ToAggOK, GapInv, PushToAgg
<1>2. AggAt' = AggAt
  BY DEF AggAt
<1>3. (toAgg' # <<>> => NoGap(AggAt, toAgg'[1])) /\ \A h, n : NoGap(h, n)' <=> NoGap(h, n)
  BY <1>1, NoGapSame DEF Gapless
<1>4. \A k \in 1..(Len(toAgg') - 1) : NoGap(After(toAgg'[k]), toAgg'[k + 1])
  BY <1>1 DEF Gapless
<1> QED
  BY <1>2, <1>3, <1>4 DEF Gapless, After

LEMMA ToAggPopGap ==
  ASSUME IInv, GapInv, toAgg # <<>>, toAgg' = Tail(toAgg), log' = log,
         Head(toAgg).kind # "done" => AggAt' = After(Head(toAgg))
  PROVE  Gapless(toAgg, AggAt)' /\ NoGap(AggAt, Head(toAgg))
<1>1. NoGap(AggAt, Head(toAgg)) /\ Gapless(toAgg', After(Head(toAgg)))
  BY PopGapless DEF IInv, TypeOK, GapInv
<1>2. CASE Head(toAgg).kind = "done"
  <2>1. toAgg' = <<>> /\ Len(toAgg') = 0
    BY <1>2, ToAggHead
  <2> QED
    BY <1>1, <2>1 DEF Gapless
<1>3. CASE Head(toAgg).kind # "done"
  <2>1. /\ toAgg' # <<>> => NoGap(AggAt', toAgg'[1])
        /\ \A h, n : NoGap(h, n)' <=> NoGap(h, n)
    BY <1>1, <1>3, NoGapSame DEF Gapless
  <2>2. \A k \in 1..(Len(toAgg') - 1) : NoGap(After(toAgg'[k]), toAgg'[k + 1])
    BY <1>1 DEF Gapless
  <2> QED
    BY <1>1, <2>1, <2>2 DEF Gapless, After
<1> QED
  BY <1>2, <1>3

-----------------------------------------------------------------------------
(* No step leaves an entry out of the stream. *)

\* Steps of the loader: each batch starts where the last one ended.
LEMMA LoaderGap ==
  ASSUME IInv, GapInv, LoaderStep \/ LoaderError
  PROVE  GapInv'
<1>1. UNCHANGED <<log, parser, toAgg, agg>>
  BY DEF LoaderStep, LoaderError, LoaderFileStart, LoaderLines, LoaderFileDone, LoaderDone,
         LoaderVarsOnly, aggVars
<1>2. Gapless(toAgg, AggAt)'
  BY <1>1, ToAggGapKeep DEF AggAt
<1>3. \E m \in Msg : PushToParser(m) /\ ~loader.done /\ NoGap(LoaderAt, m)
  <2>1. CASE LoaderFileStart
    <3>1. PICK f \in todo : PushToParser(FileStart(f, plan[f].offset))
      BY <2>1 DEF LoaderFileStart
    <3>2. FileStart(f, plan[f].offset) \in Msg
      BY LoaderFacts DEF FileStart, MsgOf, Msg, File
    <3> QED
      BY <2>1, <3>1, <3>2 DEF LoaderFileStart, NoGap, FileStart, MsgOf
  <2>2. CASE LoaderLines
    <3>1. PICK end \in Nat : PushToParser(Lines(loader.file, loader.pos + 1, end))
      BY <2>2, LoaderFacts DEF LoaderLines
    <3>2. loader.open /\ ~loader.done /\ loader.pos \in Nat /\ loader.file \in 0..NFiles
      BY <2>2, LoaderFacts DEF LoaderLines, IInv, LoaderOK
    <3>3. Lines(loader.file, loader.pos + 1, end) \in Msg
      BY <3>2 DEF Lines, MsgOf, Msg
    <3>4. NoGap(LoaderAt, Lines(loader.file, loader.pos + 1, end))
      BY <3>2 DEF NoGap, LoaderAt, Lines, MsgOf, Kept
    <3> QED
      BY <3>1, <3>2, <3>3, <3>4
  <2>3. CASE LoaderFileDone
    <3> DEFINE c == loader.pos >= plan[loader.file].size
    <3>1. PushToParser(FileDone(loader.file, loader.pos, c)) /\ c \in BOOLEAN
      BY <2>3 DEF LoaderFileDone
    <3> HIDE DEF c
    <3>2. loader.open /\ ~loader.done /\ loader.pos \in Nat /\ loader.file \in 0..NFiles
      BY <2>3, LoaderFacts DEF LoaderFileDone, IInv, LoaderOK
    <3>3. FileDone(loader.file, loader.pos, c) \in Msg
      BY <3>1, <3>2 DEF FileDone, MsgOf, Msg
    <3>4. NoGap(LoaderAt, FileDone(loader.file, loader.pos, c))
      BY <3>2 DEF NoGap, LoaderAt, FileDone, MsgOf, Kept
    <3> QED
      BY <3>1, <3>2, <3>3, <3>4
  <2>4. CASE LoaderDone \/ LoaderError
    <3>1. PushToParser(Done) /\ ~loader.done
      BY <2>4 DEF LoaderDone, LoaderError
    <3>2. Done \in Msg /\ NoGap(LoaderAt, Done)
      BY DEF Done, MsgOf, Msg, NoGap, NoFile
    <3> QED
      BY <3>1, <3>2
  <2> QED
    BY <2>1, <2>2, <2>3, <2>4 DEF LoaderStep
<1>4. Gapless(toParser, ParserInAt)'
  BY <1>1, <1>3, ToParserPushGap
<1> QED
  BY <1>2, <1>4 DEF GapInv

\* Steps of the parser: the entry batch starts right behind the last one and
\* ends with the line at hand, and a file is not closed before the partial
\* batch has gone.
LEMMA ParserGap ==
  ASSUME IInv, GapInv, ParserStep
  PROVE  GapInv'
<1>0. UNCHANGED <<log, agg>> /\ AggAt' = AggAt
  BY DEF ParserStep, ParserFileStart, ParserTakeLines, ParseLine, ParseLineFull,
         ParserFlushBatch, ParserFileDone, ParserDone, ParserVarsOnly, aggVars, AggAt
<1>1. CASE ParserFileStart
  <2> DEFINE m == Head(toParser)
  <2>1. toParser # <<>> /\ m.kind = "start" /\ PushToAgg(m) /\ toParser' = Tail(toParser)
    BY <1>1 DEF ParserFileStart
  <2>2. m \in Msg /\ MsgOK(m) /\ Follows(parser.file, ParserInAt, m) /\ ~parser.done
    BY <2>1, ToParserHead
  <2>3. parser'.open /\ parser'.off = m.off
    BY <1>1 DEF ParserFileStart, IInv, TypeOK, ParserType
  <2> HIDE DEF m
  <2>4. ParserInAt' = After(m)
    BY <2>1, <2>2, <2>3 DEF Follows, ParserInAt, After
  <2>5. NoGap(ParserOutAt, m)
    BY <2>1 DEF NoGap
  <2>6. Gapless(toParser, ParserInAt)'
    BY <1>0, <2>1, <2>4, ToParserPopGap DEF m
  <2> QED
    BY <1>0, <2>1, <2>2, <2>5, <2>6, ToAggPushGap DEF GapInv
<1>2. CASE ParserTakeLines
  <2> DEFINE m == Head(toParser)
  <2>1. /\ toParser # <<>> /\ m.kind = "lines" /\ toParser' = Tail(toParser)
        /\ UNCHANGED toAgg
    BY <1>2 DEF ParserTakeLines
  <2>2. m \in Msg /\ MsgOK(m) /\ Follows(parser.file, ParserInAt, m)
    BY <2>1, ToParserHead
  <2>3. parser'.open = parser.open /\ parser'.off = m.off
    BY <1>2 DEF ParserTakeLines, IInv, TypeOK, ParserType
  <2> HIDE DEF m
  <2>4. ParserInAt' = After(m)
    BY <2>1, <2>2, <2>3, ParserFacts DEF MsgOK, Follows, ParserInAt, After, Shut
  <2>5. Gapless(toParser, ParserInAt)'
    BY <1>0, <2>1, <2>4, ToParserPopGap DEF m
  <2> QED
    BY <1>0, <2>1, <2>5, ToAggGapKeep DEF GapInv
<1>3. CASE ParseLine
  <2>1. UNCHANGED <<toParser, toAgg>> /\ ParserInAt' = ParserInAt
    BY <1>3 DEF ParseLine, ParserInAt, IInv, TypeOK, ParserType
  <2> QED
    BY <1>0, <2>1, ToParserGapKeep, ToAggGapKeep DEF GapInv
<1>4. CASE ParseLineFull \/ ParserFlushBatch
  <2>1. UNCHANGED toParser /\ ParserInAt' = ParserInAt
    BY <1>4 DEF ParseLineFull, ParserFlushBatch, ParserInAt, IInv, TypeOK, ParserType
  <2>2. PICK last \in Nat : PushToAgg(Entries(parser.file, parser.from, last, parser.off))
    <3>1. parser.at \in Nat /\ parser.at - 1 \in Nat
      BY ParserFacts
    <3> QED
      BY <1>4, <3>1 DEF ParseLineFull, ParserFlushBatch
  <2>3. parser.open /\ ~parser.done
    <3>1. CASE ParseLineFull
      BY <3>1, ParserFacts DEF ParseLineFull
    <3>2. CASE ParserFlushBatch
      <4>1. PICK i \in parser.from..(parser.at - 1) : TRUE
        BY <3>2 DEF ParserFlushBatch, EntryBatchEmpty, Kept
      <4>2. toParser # <<>>
        BY <3>2 DEF ParserFlushBatch, AtEnd
      <4>3. ~parser.done
        BY <4>2, ToParserHead
      <4>4. parser.from # parser.at
        BY <4>1, ParserFacts
      <4> QED
        BY <4>3, <4>4, ParserFacts
    <3> QED
      BY <1>4, <3>1, <3>2
  <2>4. Entries(parser.file, parser.from, last, parser.off) \in Msg
    BY ParserFacts DEF Entries, MsgOf, Msg
  <2>5. NoGap(ParserOutAt, Entries(parser.file, parser.from, last, parser.off))
    BY <2>3, ParserFacts DEF NoGap, ParserOutAt, Entries, MsgOf, Kept
  <2> QED
    BY <1>0, <2>1, <2>2, <2>3, <2>4, <2>5, ToParserGapKeep, ToAggPushGap DEF GapInv
<1>5. CASE ParserFileDone
  <2> DEFINE m == Head(toParser)
  <2>1. /\ toParser # <<>> /\ m.kind = "fdone" /\ PushToAgg(m) /\ toParser' = Tail(toParser)
        /\ ParserFree /\ EntryBatchEmpty
    BY <1>5 DEF ParserFileDone, AtEnd
  <2>2. m \in Msg /\ MsgOK(m) /\ Follows(parser.file, ParserInAt, m) /\ ~parser.done
    BY <2>1, ToParserHead
  <2>3. ~parser'.open
    BY <1>5 DEF ParserFileDone, IInv, TypeOK, ParserType
  <2> HIDE DEF m
  <2>4. ParserInAt' = After(m)
    BY <2>1, <2>3 DEF ParserInAt, After
  <2>5. Gapless(toParser, ParserInAt)' /\ NoGap(ParserInAt, m)
    BY <1>0, <2>1, <2>4, ToParserPopGap DEF m
  <2>6. NoGap(ParserOutAt, m)
    <3>1. parser.open /\ m.file = parser.file
      BY <2>1, <2>2 DEF Follows, ParserInAt, Shut
    <3>2. Kept(m.file, parser.off + 1, m.lo - 1) = {} /\ m.lo \in Nat
      BY <2>1, <2>2, <2>5, <3>1 DEF NoGap, ParserInAt, Msg
    <3>3. Kept(parser.file, parser.from, parser.at - 1) = {} /\ parser.at = parser.off + 1
      BY <2>1, ParserFacts DEF EntryBatchEmpty, ParserFree
    <3>4. Kept(m.file, parser.from, m.lo - 1) = {}
      BY <3>1, <3>2, <3>3, ParserFacts DEF Kept
    <3>5. ParserOutAt + 1 = parser.from
      BY <3>1, ParserFacts DEF ParserOutAt
    <3> QED
      BY <3>4, <3>5 DEF NoGap
  <2> QED
    BY <1>0, <2>1, <2>2, <2>5, <2>6, ToAggPushGap DEF GapInv
<1>6. CASE ParserDone
  <2> DEFINE m == Head(toParser)
  <2>1. toParser # <<>> /\ m.kind = "done" /\ PushToAgg(m) /\ toParser' = Tail(toParser)
    BY <1>6 DEF ParserDone, AtEnd
  <2>2. m \in Msg /\ ~parser.done
    BY <2>1, ToParserHead
  <2> HIDE DEF m
  <2>3. NoGap(ParserOutAt, m)
    BY <2>1 DEF NoGap
  <2>4. Gapless(toParser, ParserInAt)'
    BY <1>0, <2>1, ToParserPopGap DEF m
  <2> QED
    BY <1>0, <2>1, <2>2, <2>3, <2>4, ToAggPushGap DEF GapInv
<1> QED
  BY <1>1, <1>2, <1>3, <1>4, <1>5, <1>6 DEF ParserStep

\* What the aggregator takes from its channel follows what it has.
LEMMA AggGap ==
  ASSUME IInv, GapInv, AggVarsOnly,
         \/ UNCHANGED toAgg /\ AggAt' = AggAt
         \/ /\ toAgg # <<>> /\ toAgg' = Tail(toAgg)
            /\ Head(toAgg).kind # "done" => AggAt' = After(Head(toAgg))
  PROVE  GapInv'
<1>1. UNCHANGED <<log, toParser>> /\ ParserInAt' = ParserInAt
  BY DEF AggVarsOnly, ParserInAt
<1> QED
  BY <1>1, ToParserGapKeep, ToAggGapKeep, ToAggPopGap DEF GapInv

\* No file, no channel, no gap.
LEMMA QuietGap == toParser' = <<>> /\ toAgg' = <<>> => GapInv'
<1> SUFFICES ASSUME toParser' = <<>>, toAgg' = <<>> PROVE GapInv'
  OBVIOUS
<1>1. Len(toParser') = 0 /\ Len(toAgg') = 0
  OBVIOUS
<1> QED
  BY <1>1 DEF GapInv, Gapless

LEMMA AggStepGap ==
  ASSUME IInv, GapInv, AggStep
  PROVE  GapInv'
<1> DEFINE m == Head(toAgg)
<1>0. agg \in [pc : AggPc, active : BOOLEAN, file : 0..NFiles, at : Nat, hi : Nat, off : Nat]
  BY AggFacts
<1>1. CASE AggFileStart \/ AggEntries
  <2>1. /\ toAgg # <<>> /\ m.kind \in {"start", "entries"} /\ toAgg' = Tail(toAgg) /\ AggVarsOnly
        /\ agg'.hi = m.hi /\ (agg'.active <=> agg.active \/ m.kind = "start")
    BY <1>0, <1>1 DEF AggFileStart, AggEntries, Received
  <2>2. Follows(agg.file, AggAt, m)
    BY <2>1, ToAggHead
  <2> HIDE DEF m
  <2>3. AggAt' = After(m)
    BY <2>1, <2>2 DEF Follows, AggAt, After
  <2> QED
    BY <2>1, <2>3, AggGap DEF m
<1>2. CASE AggFileDone
  <2>1. /\ toAgg # <<>> /\ m.kind = "fdone" /\ toAgg' = Tail(toAgg) /\ AggVarsOnly
        /\ ~agg'.active
    BY <1>0, <1>2 DEF AggFileDone, Received
  <2>2. AggAt' = After(m)
    BY <2>1 DEF AggAt, After
  <2> QED
    BY <2>1, <2>2, AggGap
<1>3. CASE FinalFlush
  BY <1>3, AggGap DEF FinalFlush, Received
<1>4. CASE \E i \in 1..MaxLines : AggregateEntry(i) \/ MonthBoundary(i) \/ AdvanceMonth(i)
  <2>1. AggVarsOnly /\ UNCHANGED toAgg /\ agg'.active = agg.active /\ agg'.hi = agg.hi
    BY <1>0, <1>4 DEF AggregateEntry, MonthBoundary, AdvanceMonth
  <2> QED
    BY <2>1, AggGap DEF AggAt
<1>5. CASE SetLastLogTs \/ FinalizeMonth \/ NoCheckpoint \/ Checkpoint
  <2>1. AggVarsOnly /\ UNCHANGED toAgg /\ agg'.active = agg.active /\ agg'.hi = agg.hi
    BY <1>0, <1>5 DEF SetLastLogTs, FinalizeMonth, NoCheckpoint, Checkpoint
  <2> QED
    BY <2>1, AggGap DEF AggAt
<1>6. CASE EndRun \/ AbortRun
  BY <1>6, QuietGap DEF EndRun, AbortRun, Stop
<1> QED
  BY <1>1, <1>2, <1>3, <1>4, <1>5, <1>6 DEF AggStep

\* A file that grows keeps the lines it has.
LEMMA AppendedLine ==
  ASSUME IInv, NEW f \in File, NEW t \in Stamps \cup {Dropped}, AppendLine(f, t)
  PROVE  /\ \A g \in File : /\ Len(log[g]) \in Nat /\ Len(log'[g]) \in Nat
                            /\ Len(log[g]) <= Len(log'[g])
                            /\ \A i \in 1..Len(log[g]) : log'[g][i] = log[g][i]
         /\ UNCHANGED <<count, stored, dbMonth, complete, dbSeen, lastLog, mode, plan, skipped,
                        todo, loader, toParser, parser, toAgg, agg, acc, pending, month, seen,
                        faults>>
<1>1. log' = [log EXCEPT ![f] = Append(@, t)]
  BY DEF AppendLine
<1>2. \A g \in File : log[g] \in Seq(Stamps \cup {Dropped})
  BY DEF IInv, TypeOK, LogType, IsLog
<1>3. DOMAIN log = File
  BY DEF IInv, TypeOK, LogType
<1>4. /\ Append(log[f], t) \in Seq(Stamps \cup {Dropped})
      /\ Len(log[f]) \in Nat /\ Len(Append(log[f], t)) = Len(log[f]) + 1
      /\ \A i \in 1..Len(log[f]) : Append(log[f], t)[i] = log[f][i]
  BY <1>2
<1>5. ASSUME NEW g \in File
      PROVE  /\ Len(log[g]) \in Nat /\ Len(log'[g]) \in Nat
             /\ Len(log[g]) <= Len(log'[g])
             /\ \A i \in 1..Len(log[g]) : log'[g][i] = log[g][i]
  <2>1. CASE g = f
    <3>1. log'[g] = Append(log[f], t)
      BY <1>1, <1>3, <2>1
    <3> QED
      BY <1>4, <2>1, <3>1
  <2>2. CASE g # f
    <3>1. log'[g] = log[g]
      BY <1>1, <1>3, <2>2
    <3> QED
      BY <1>2, <3>1
  <2> QED
    BY <2>1, <2>2
<1>6. UNCHANGED <<count, stored, dbMonth, complete, dbSeen, lastLog, mode, plan, skipped,
                  todo, loader, toParser, parser, toAgg, agg, acc, pending, month, seen, faults>>
  BY DEF AppendLine, dbVars, runVars, loadVars, aggVars
<1> QED
  BY <1>5, <1>6

\* A line past what the messages speak of opens no gap in front of them.
LEMMA AppendGap ==
  ASSUME IInv, GapInv, NEW f \in File, NEW t \in Stamps \cup {Dropped}, AppendLine(f, t)
  PROVE  GapInv'
\* NoGap(h, m)' of a position and a message that do not change.
<1> DEFINE NoGapNow(h, m) ==
             m.kind \in {"lines", "entries", "fdone"} =>
               {i \in (h + 1)..(m.lo - 1) : log'[m.file][i] # Dropped} = {}
<1>1. ASSUME NEW m \in Msg, MsgOK(m), NEW h, NoGap(h, m),
             m.kind \in {"lines", "entries", "fdone"} => h \in Nat
      PROVE  NoGapNow(h, m)
  <2> SUFFICES ASSUME m.kind \in {"lines", "entries", "fdone"}
               PROVE  \A i \in (h + 1)..(m.lo - 1) : log'[m.file][i] = Dropped
    OBVIOUS
  <2>1. /\ m.file \in File /\ m.lo \in Nat /\ m.hi \in Nat /\ m.off \in Nat
        /\ m.lo <= Len(log[m.file]) + 1 /\ Len(log[m.file]) \in Nat
    BY <1>1, LoaderFacts DEF MsgOK, Msg
  <2>2. \A i \in (h + 1)..(m.lo - 1) : i \in 1..Len(log[m.file]) /\ log[m.file][i] = Dropped
    BY <1>1, <2>1 DEF NoGap, Kept
  <2> QED
    BY <2>1, <2>2, AppendedLine
<1> HIDE DEF NoGapNow
<1>2. ASSUME NEW q, ChannelType(q), NEW other, CarriesOK(q, other), NEW g, NEW h,
             InOrder(q, g, h), h \in Nat \cup {Shut}, Gapless(q, h)
      PROVE  /\ q # <<>> => NoGapNow(h, q[1])
             /\ \A k \in 1..(Len(q) - 1) : NoGapNow(After(q[k]), q[k + 1])
  <2>1. q \in Seq(Msg) /\ Len(q) \in Nat /\ (q # <<>> => Len(q) > 0)
    BY <1>2 DEF ChannelType
  <2>2. ASSUME NEW k \in 1..Len(q)
        PROVE  q[k] \in Msg /\ MsgOK(q[k]) /\ After(q[k]) \in Nat \cup {Shut}
    <3>1. q[k] \in Msg /\ MsgOK(q[k])
      BY <1>2, <2>1 DEF CarriesOK
    <3>2. q[k].hi \in Nat
      BY <3>1 DEF Msg
    <3> QED
      BY <3>1, <3>2 DEF After
  <2>3. ASSUME q # <<>> PROVE NoGapNow(h, q[1])
    <3>1. Follows(g, h, q[1]) /\ NoGap(h, q[1])
      BY <1>2, <2>3 DEF InOrder, Gapless
    <3>2. q[1].kind \in {"lines", "entries", "fdone"} => h \in Nat
      BY <1>2, <3>1 DEF Follows
    <3> QED
      BY <1>1, <2>1, <2>2, <2>3, <3>1, <3>2
  <2>4. ASSUME NEW k \in 1..(Len(q) - 1) PROVE NoGapNow(After(q[k]), q[k + 1])
    <3>1. Follows(q[k].file, After(q[k]), q[k + 1]) /\ NoGap(After(q[k]), q[k + 1])
      BY <1>2 DEF InOrder, Gapless
    <3>2. k \in 1..Len(q) /\ k + 1 \in 1..Len(q)
      BY <2>1
    <3>3. q[k + 1].kind \in {"lines", "entries", "fdone"} => After(q[k]) \in Nat
      BY <2>2, <3>1, <3>2 DEF Follows
    <3> DEFINE h1 == After(q[k])
               m1 == q[k + 1]
    <3>4. m1 \in Msg /\ MsgOK(m1) /\ NoGap(h1, m1)
      BY <2>2, <3>1, <3>2
    <3> HIDE DEF h1, m1
    <3>5. NoGapNow(h1, m1)
      BY <1>1, <3>3, <3>4 DEF h1, m1
    <3> QED
      BY <3>5 DEF h1, m1
  <2> QED
    BY <2>3, <2>4
<1>3. UNCHANGED <<toParser, parser, toAgg, agg>>
  BY AppendedLine
<1>4. Gapless(toParser, ParserInAt)'
  <2>1. ParserInAt \in Nat \cup {Shut}
    BY ParserFacts DEF ParserInAt
  <2>2. /\ toParser # <<>> => NoGapNow(ParserInAt, toParser[1])
        /\ \A k \in 1..(Len(toParser) - 1) : NoGapNow(After(toParser[k]), toParser[k + 1])
    BY <1>2, <2>1 DEF IInv, TypeOK, ToParserOK, GapInv
  <2> QED
    BY <1>3, <2>2 DEF Gapless, NoGap, NoGapNow, Kept, ParserInAt, After
<1>5. Gapless(toAgg, AggAt)'
  <2>1. AggAt \in Nat \cup {Shut}
    BY AggFacts DEF AggAt
  <2>2. /\ toAgg # <<>> => NoGapNow(AggAt, toAgg[1])
        /\ \A k \in 1..(Len(toAgg) - 1) : NoGapNow(After(toAgg[k]), toAgg[k + 1])
    BY <1>2, <2>1 DEF IInv, TypeOK, ToAggOK, GapInv
  <2> QED
    BY <1>3, <2>2 DEF Gapless, NoGap, NoGapNow, Kept, AggAt, After
<1> QED
  BY <1>4, <1>5 DEF GapInv

LEMMA NextGap ==
  ASSUME IInv, GapInv, [Next]_vars
  PROVE  GapInv'
<1>1. CASE UNCHANGED vars \/ EmptyRun
  <2>1. UNCHANGED <<log, toParser, parser, toAgg, agg>>
    BY <1>1 DEF EmptyRun, vars, aggVars
  <2> QED
    BY <2>1, ToParserGapKeep, ToAggGapKeep DEF GapInv, ParserInAt, AggAt
<1>2. CASE StartRun
  BY <1>2, ToParserGapKeep, ToAggGapKeep DEF StartRun, GapInv, ParserInAt, AggAt
<1>3. CASE Crash
  BY <1>3, QuietGap DEF Crash, Stop
<1>4. CASE \E a \in Appendable : AppendLine(a[1], a[2])
  BY <1>4, AppendGap
<1> QED
  BY <1>1, <1>2, <1>3, <1>4, LoaderGap, ParserGap, AggStepGap DEF Next

-----------------------------------------------------------------------------
(* What lies behind the aggregator.                                        *)

\* A step keeps offsets and months in order, counts what it passes, and never
\* goes back.
Advances ==
  /\ OffsetsOK' /\ SegmentInv'
  /\ CoverInv => CoverInv'
  /\ \A f \in File : Reached(f) <= Reached(f)'

LEMMA ReachedFacts ==
  ASSUME IInv, OffsetsOK, NEW f \in File
  PROVE  /\ Reached(f) \in Nat /\ Reached(f) <= Len(log[f])
         /\ NextOffset(f) \in Nat /\ NextOffset(f) <= Len(log[f])
         /\ stored[f].offset \in Nat /\ stored[f].offset <= Len(log[f])
         /\ Len(log[f]) \in Nat /\ Len(log[f]) <= MaxLines
<1>1. stored[f].offset \in Nat /\ pending[f].offset \in Nat
  BY AggFacts DEF Row
<1>2. NextOffset(f) \in Nat /\ NextOffset(f) <= Len(log[f]) /\ stored[f].offset <= Len(log[f])
  BY <1>1 DEF OffsetsOK, NextOffset
<1>3. Len(log[f]) \in Nat /\ Len(log[f]) <= MaxLines
  BY DEF IInv, TypeOK, LogType, IsLog
<1>4. agg.active => /\ agg.at \in Nat /\ agg.hi \in Nat /\ agg.off \in Nat /\ 1 <= agg.at
                    /\ agg.at <= agg.hi + 1 /\ agg.hi <= agg.off
                    /\ agg.off <= Len(log[agg.file])
  BY AggFacts
<1>5. Reached(f) \in Nat /\ Reached(f) <= Len(log[f])
  BY <1>2, <1>3, <1>4 DEF Reached
<1> QED
  BY <1>1, <1>2, <1>3, <1>5

\* The same of the next state.
WithinFiles ==
  \A f \in File : /\ Reached(f) \in Nat /\ Reached(f) <= Len(log[f])
                  /\ stored[f].offset \in Nat
                  /\ Len(log[f]) \in Nat /\ Len(log[f]) <= MaxLines

LEMMA ReachedBefore == IInv /\ OffsetsOK => WithinFiles
BY ReachedFacts DEF WithinFiles

LEMMA ReachedAfter == IInv' /\ OffsetsOK' => WithinFiles'
BY ReachedBefore, PTL

\* What a step passes over has been counted.
LEMMA CoverStep ==
  ASSUME IInv, OffsetsOK, log' = log, CoverInv,
         \A f \in File, i \in 1..MaxLines : Touched(f, i) => Touched(f, i)',
         NEW g \in File,
         \A f \in File : f # g => Reached(f)' = Reached(f),
         Reached(g)' \in Nat, Reached(g)' <= Len(log[g]),
         \A i \in 1..MaxLines :
           Reached(g) < i /\ i <= Reached(g)' /\ log[g][i] # Dropped => Touched(g, i)'
  PROVE  CoverInv'
<1>1. ASSUME NEW f \in File, NEW i \in 1..Reached(f)', log[f][i] # Dropped
      PROVE  Touched(f, i)'
  <2>1. CASE f # g
    <3>1. Touched(f, i) /\ i \in 1..MaxLines
      BY <1>1, <2>1, ReachedFacts DEF CoverInv
    <3> QED
      BY <3>1
  <2>2. CASE f = g
    <3>1. i \in 1..MaxLines /\ i \in Nat /\ Reached(g) \in Nat
      BY <1>1, <2>2, ReachedFacts
    <3>2. CASE i <= Reached(g)
      BY <1>1, <2>2, <3>1, <3>2 DEF CoverInv
    <3>3. CASE Reached(g) < i
      BY <1>1, <2>2, <3>1, <3>3
    <3> QED
      BY <3>1, <3>2, <3>3
  <2> QED
    BY <2>1, <2>2
<1> QED
  BY <1>1 DEF CoverInv

\* Steps of the loader and the parser do not concern the aggregator.
LEMMA AdvanceFrame ==
  ASSUME IInv, OffsetsOK, SegmentInv,
         UNCHANGED <<log, count, stored, mode, plan, agg, acc, pending, month>>,
         loader'.failed => faults' > 0
  PROVE  Advances
<1>1. OffsetsOK'
  BY DEF OffsetsOK
<1>2. SegmentInv'
  BY DEF SegmentInv, SegmentInMonth
<1>3. \A f \in File : Reached(f)' = Reached(f)
  BY DEF Reached, NextOffset
<1>4. CoverInv => CoverInv'
  BY <1>3 DEF CoverInv, Touched
<1> QED
  BY <1>1, <1>2, <1>3, <1>4, ReachedFacts DEF Advances

LEMMA ThreadsAdvance ==
  ASSUME IInv, OffsetsOK, SegmentInv, LoaderStep \/ LoaderError \/ ParserStep
  PROVE  Advances
<1>1. CASE LoaderStep \/ LoaderError
  <2>1. LoaderVarsOnly
    BY <1>1 DEF LoaderStep, LoaderError, LoaderFileStart, LoaderLines, LoaderFileDone, LoaderDone
  <2>2. loader \in [open : BOOLEAN, file : 0..NFiles, pos : Nat, eof : BOOLEAN,
                    done : BOOLEAN, failed : BOOLEAN] /\ faults \in Nat
    BY DEF IInv, TypeOK, LoaderType
  <2>3. loader'.failed => faults' > 0
    <3>1. CASE LoaderStep
      <4>1. faults' = faults /\ loader'.failed = loader.failed
        BY <2>2, <3>1 DEF LoaderStep, LoaderFileStart, LoaderLines, LoaderFileDone, LoaderDone
      <4> QED
        BY <4>1 DEF OffsetsOK
    <3>2. CASE LoaderError
      BY <2>2, <3>2 DEF LoaderError
    <3> QED
      BY <1>1, <3>1, <3>2
  <2> QED
    BY <2>1, <2>3, AdvanceFrame DEF LoaderVarsOnly, dbVars, runVars, aggVars
<1>2. CASE ParserStep
  <2>1. ParserVarsOnly
    BY <1>2 DEF ParserStep, ParserFileStart, ParserTakeLines, ParseLine, ParseLineFull,
                ParserFlushBatch, ParserFileDone, ParserDone
  <2> QED
    BY <2>1, AdvanceFrame DEF ParserVarsOnly, dbVars, runVars, loadVars, aggVars, OffsetsOK
<1> QED
  BY <1>1, <1>2

LEMMA AggFileStartAdvances ==
  ASSUME IInv, OffsetsOK, SegmentInv, AggFileStart
  PROVE  Advances
<1> DEFINE m == Head(toAgg)
<1>1. /\ agg.pc = "recv" /\ toAgg # <<>> /\ m.kind = "start"
      /\ agg' = [agg EXCEPT !.active = TRUE, !.file = m.file, !.at = m.lo, !.hi = m.hi,
                            !.off = m.off]
      /\ UNCHANGED <<acc, pending, month, count, stored>> /\ AggVarsOnly
  BY DEF AggFileStart, Received, dbVars
<1>2. UNCHANGED <<log, mode, plan, loader, faults>>
  BY <1>1, AggUnchanged
<1>3. m \in Msg /\ MsgOK(m) /\ Follows(agg.file, AggAt, m) /\ mode = "running"
  BY <1>1, ToAggHead
<1> HIDE DEF m
<1>4. /\ m.file \in File /\ m.lo = m.hi + 1 /\ m.hi = plan[m.file].offset /\ m.hi \in Nat
      /\ agg.file < m.file /\ ~agg.active
  BY <1>1, <1>3, AggFacts DEF MsgOK, Follows, Msg, AggAt, Shut
<1>5. /\ agg'.active /\ agg'.file = m.file /\ agg'.at = m.lo /\ agg'.hi = m.hi
      /\ agg'.pc = "recv"
  BY <1>1, AggFacts
<1>6. m.hi = stored[m.file].offset /\ ~pending[m.file].known
  BY <1>3, <1>4 DEF OffsetsOK
<1>7. OffsetsOK'
  <2>1. \A f \in File : agg'.file < f => agg.file < f
    BY <1>4, <1>5, AggFacts DEF File
  <2> QED
    BY <1>1, <1>2, <1>4, <1>5, <2>1 DEF OffsetsOK
<1>8. SegmentInv'
  BY <1>1, <1>2, <1>5 DEF SegmentInv, SegmentInMonth
<1>9. ASSUME NEW f \in File PROVE Reached(f)' = Reached(f)
  <2>1. Reached(f) = NextOffset(f) /\ NextOffset(f)' = NextOffset(f)
    BY <1>1, <1>4 DEF Reached, NextOffset
  <2>2. CASE f = m.file
    BY <2>1, <2>2, <1>4, <1>5, <1>6 DEF Reached, NextOffset
  <2>3. CASE f # m.file
    BY <2>1, <2>3, <1>5 DEF Reached
  <2> QED
    BY <2>2, <2>3
<1>10. CoverInv => CoverInv'
  BY <1>1, <1>2, <1>9 DEF CoverInv, Touched
<1> QED
  BY <1>7, <1>8, <1>9, <1>10, ReachedFacts DEF Advances

\* The new batch follows the last one without a gap.
LEMMA AggEntriesAdvances ==
  ASSUME IInv, GapInv, OffsetsOK, SegmentInv, AggEntries
  PROVE  Advances
<1> DEFINE m == Head(toAgg)
<1>1. /\ agg.pc = "recv" /\ toAgg # <<>> /\ m.kind = "entries"
      /\ agg' = [agg EXCEPT !.pc = "entries", !.at = m.lo, !.hi = m.hi, !.off = m.off]
      /\ UNCHANGED <<acc, pending, month, count, stored>> /\ AggVarsOnly
  BY DEF AggEntries, Received, dbVars
<1>2. UNCHANGED <<log, mode, plan, loader, faults>>
  BY <1>1, AggUnchanged
<1>3. /\ m \in Msg /\ MsgOK(m) /\ Follows(agg.file, AggAt, m) /\ NoGap(AggAt, m)
  BY <1>1, ToAggHead, PopGapless DEF IInv, TypeOK, GapInv
<1> HIDE DEF m
<1>g. PICK g \in File : g = agg.file
  BY <1>1, <1>3, AggFacts DEF Follows, AggAt
<1>4. /\ agg.active /\ m.file = g /\ g \in File /\ agg.hi < m.lo
      /\ m.lo \in Nat /\ m.hi \in Nat /\ agg.hi \in Nat /\ agg.at = agg.hi + 1
      /\ 1 <= m.lo /\ m.lo <= Len(log[g]) + 1 /\ Len(log[g]) \in Nat
      /\ Kept(g, agg.hi + 1, m.lo - 1) = {}
  <2>1. agg.active /\ m.file = g /\ g \in File /\ agg.hi < m.lo /\ agg.hi \in Nat
    BY <1>1, <1>3, <1>g, AggFacts DEF Follows, AggAt, Shut
  <2>2. /\ 1 <= m.lo /\ m.lo <= m.hi + 1 /\ m.hi <= m.off /\ m.off <= Len(log[g])
        /\ m.lo \in Nat /\ m.hi \in Nat /\ m.off \in Nat
    BY <1>1, <1>3, <2>1 DEF MsgOK, Msg
  <2>3. Kept(g, agg.hi + 1, m.lo - 1) = {}
    BY <1>1, <1>3, <2>1 DEF NoGap, AggAt
  <2>4. agg.at = agg.hi + 1
    BY <1>1, <2>1 DEF OffsetsOK
  <2> QED
    BY <2>1, <2>2, <2>3, <2>4, LoaderFacts
<1>5. /\ agg'.active /\ agg'.file = g /\ agg'.at = m.lo /\ agg'.pc = "entries"
  BY <1>1, <1>4, <1>g, AggFacts
<1>6. OffsetsOK'
  BY <1>1, <1>2, <1>5, <1>g DEF OffsetsOK
<1>7. SegmentInv'
  BY <1>1, <1>2, <1>5 DEF SegmentInv, SegmentInMonth
<1>8. Reached(g) = agg.hi /\ Reached(g)' = m.lo - 1
  BY <1>4, <1>5, <1>g DEF Reached
<1>9. \A f \in File : f # g => Reached(f)' = Reached(f)
  BY <1>1, <1>5, <1>g DEF Reached, NextOffset
<1>10. ASSUME CoverInv PROVE CoverInv'
  <2>1. \A f \in File, i \in 1..MaxLines : Touched(f, i) => Touched(f, i)'
    BY <1>1 DEF Touched
  <2>2. \A i \in 1..MaxLines :
          Reached(g) < i /\ i <= Reached(g)' /\ log[g][i] # Dropped => Touched(g, i)'
    BY <1>4, <1>8 DEF Kept
  <2>3. Reached(g)' \in Nat /\ Reached(g)' <= Len(log[g])
    BY <1>4, <1>8
  <2> QED
    BY <1>2, <1>4, <1>9, <1>10, <2>1, <2>2, <2>3, CoverStep
<1>11. \A f \in File : Reached(f) <= Reached(f)'
  BY <1>4, <1>8, <1>9, ReachedFacts
<1> QED
  BY <1>6, <1>7, <1>10, <1>11 DEF Advances

LEMMA AggregateEntryAdvances ==
  ASSUME IInv, OffsetsOK, SegmentInv, NEW i \in 1..MaxLines, AggregateEntry(i)
  PROVE  Advances
<1>1. /\ agg.pc = "entries" /\ i \in Kept(agg.file, agg.at, agg.hi)
      /\ \A j \in Kept(agg.file, agg.at, agg.hi) : i <= j
      /\ month \in {NoMonth, EntryMonth(i)} /\ month' = EntryMonth(i)
      /\ acc' = [acc EXCEPT ![agg.file][i] = @ + 1]
      /\ agg' = [agg EXCEPT !.at = i + 1]
      /\ UNCHANGED <<count, stored, pending>> /\ AggVarsOnly
  BY DEF AggregateEntry, NextEntry
<1>2. UNCHANGED <<log, mode, plan, loader, faults>>
  BY <1>1, AggUnchanged
<1>3. agg.active /\ agg.file \in File
  BY <1>1, AggFacts
<1>g. PICK g \in File : g = agg.file
  BY <1>3
<1>4. /\ agg.at <= i /\ i <= agg.hi /\ i <= Len(log[g]) /\ acc[g][i] = 0 /\ count[g][i] = 0
      /\ i \in Nat /\ agg.at \in Nat /\ agg.hi \in Nat /\ EntryMonth(i) = MonthOf[log[g][i]]
  BY <1>1, <1>3, <1>g, NextEntryFacts, AggFacts DEF EntryMonth
<1>5. agg'.active /\ agg'.file = g /\ agg'.at = i + 1 /\ agg'.pc = "entries"
  BY <1>1, <1>3, <1>g, AggFacts
<1>6. \A f \in File, j \in 1..MaxLines :
        acc'[f][j] = IF f = g /\ j = i THEN 1 ELSE acc[f][j]
  <2>1. acc \in [File -> [1..MaxLines -> Nat]]
    BY DEF IInv, TypeOK, AggType, CountType
  <2>2. \A f \in File : acc'[f] = IF f = g THEN [acc[g] EXCEPT ![i] = @ + 1] ELSE acc[f]
    BY <2>1, <1>1, <1>g
  <2> QED
    BY <2>1, <2>2, <1>4
<1>7. OffsetsOK'
  BY <1>1, <1>2, <1>5, <1>g DEF OffsetsOK
<1>8. SegmentInv'
  <2>1. ASSUME NEW f \in File, NEW j \in 1..MaxLines, acc'[f][j] > 0
        PROVE  EntryMonth(i) = MonthOf[log[f][j]]
    <3>1. CASE f = g /\ j = i
      BY <3>1, <1>4
    <3>2. CASE ~(f = g /\ j = i)
      <4>1. acc[f][j] > 0
        BY <2>1, <3>2, <1>6
      <4>2. month = MonthOf[log[f][j]]
        BY <4>1 DEF SegmentInv, SegmentInMonth
      <4>3. log[f][j] \in Stamps
        <5>1. j <= Len(log[f]) /\ log[f][j] # Dropped
          BY <4>1, LineFacts DEF Touched
        <5>2. log[f] \in Seq(Stamps \cup {Dropped})
          BY DEF IInv, TypeOK, LogType, IsLog
        <5> QED
          BY <5>1, <5>2
      <4>4. month # NoMonth
        BY <4>2, <4>3
      <4> QED
        BY <4>2, <4>4, <1>1
    <3> QED
      BY <3>1, <3>2
  <2>2. SegmentInMonth'
    BY <2>1, <1>1, <1>2 DEF SegmentInMonth
  <2> QED
    BY <2>2, <1>5 DEF SegmentInv
<1>9. Reached(g) = agg.at - 1 /\ Reached(g)' = i
  BY <1>3, <1>4, <1>5, <1>g DEF Reached
<1>10. \A f \in File : f # g => Reached(f)' = Reached(f)
  BY <1>1, <1>5, <1>g DEF Reached, NextOffset
<1>11. ASSUME CoverInv PROVE CoverInv'
  <2>1. \A f \in File, j \in 1..MaxLines : Touched(f, j) => Touched(f, j)'
    <3> SUFFICES ASSUME NEW f \in File, NEW j \in 1..MaxLines, Touched(f, j)
                 PROVE  count'[f][j] + acc'[f][j] > 0
      BY DEF Touched
    <3>1. count[f][j] \in Nat /\ acc[f][j] \in Nat /\ count' = count
      BY <1>1, LineFacts
    <3> QED
      BY <3>1, <1>6 DEF Touched
  <2>2. ASSUME NEW j \in 1..MaxLines, Reached(g) < j, j <= Reached(g)', log[g][j] # Dropped
        PROVE  Touched(g, j)'
    <3>1. j \in Kept(agg.file, agg.at, agg.hi)
      BY <2>2, <1>4, <1>9, <1>g DEF Kept
    <3>2. j = i
      <4>1. i <= j
        BY <3>1, <1>1
      <4> QED
        BY <4>1, <2>2, <1>9
    <3>3. count'[g][j] = 0 /\ acc'[g][j] = 1
      BY <3>2, <1>1, <1>4, <1>6
    <3> QED
      BY <3>3 DEF Touched
  <2> QED
    BY <1>2, <1>4, <1>9, <1>10, <1>11, <2>1, <2>2, CoverStep
<1>12. \A f \in File : Reached(f) <= Reached(f)'
  BY <1>4, <1>9, <1>10, ReachedFacts
<1> QED
  BY <1>7, <1>8, <1>11, <1>12 DEF Advances

\* A flush leaves nothing in memory; the files it knows nothing of keep their
\* rows.
LEMMA FlushAdvances ==
  ASSUME IInv, OffsetsOK, SegmentInv, AggVarsOnly, NEW pend \in [File -> Row], Flush(pend),
         \A f \in File : pend[f].offset <= Len(log[f]),
         \A f \in File : ~(agg.active /\ f = agg.file) => pend[f] = pending[f],
         agg'.active = agg.active, agg'.file = agg.file,
         agg.active =>
           /\ agg'.at \in Nat /\ agg.at <= agg'.at /\ agg'.at <= agg.hi + 1
           /\ Kept(agg.file, agg.at, agg'.at - 1) = {}
           /\ agg'.pc \in {"recv", "ts_checkpoint"} => agg'.at = agg'.hi + 1
  PROVE  Advances
<1>1. /\ \A f \in File, i \in 1..MaxLines : count'[f][i] = count[f][i] + acc[f][i]
      /\ \A f \in File : stored'[f] = IF pend[f].known THEN pend[f] ELSE stored[f]
      /\ acc' = NoCount /\ pending' = NoPending
  BY DEF Flush
<1>2. UNCHANGED <<log, mode, plan, loader, faults>>
  BY AggUnchanged
<1>3. \A f \in File : ~pending'[f].known /\ pending'[f].offset = 0
  BY <1>1 DEF NoPending, NoRow
<1>4. OffsetsOK'
  <2>1. \A f \in File : stored'[f].offset <= Len(log[f]) /\ pending'[f].offset <= Len(log[f])
    BY <1>1, <1>3, ReachedFacts
  <2>2. ASSUME mode = "running", NEW f \in File, agg.file < f
        PROVE  ~pending'[f].known /\ plan[f].offset = stored'[f].offset
    <3>1. f # agg.file
      BY <2>2, AggFacts DEF File
    <3>2. ~pend[f].known /\ plan[f].offset = stored[f].offset
      BY <3>1, <2>2 DEF OffsetsOK
    <3> QED
      BY <3>2, <1>1, <1>3
  <2> QED
    BY <1>1, <1>2, <2>1, <2>2 DEF OffsetsOK
<1>5. SegmentInv'
  BY <1>1 DEF SegmentInv, SegmentInMonth, NoCount
<1>6. ASSUME NEW f \in File, ~(agg.active /\ f = agg.file)
      PROVE  Reached(f)' = Reached(f)
  <2>1. NextOffset(f)' = NextOffset(f)
    BY <1>1, <1>3, <1>6 DEF NextOffset
  <2> QED
    BY <1>6, <2>1 DEF Reached
<1>7. \A f \in File, i \in 1..MaxLines : Touched(f, i) => Touched(f, i)'
  <2> SUFFICES ASSUME NEW f \in File, NEW i \in 1..MaxLines, Touched(f, i)
               PROVE  count'[f][i] + acc'[f][i] > 0
    BY DEF Touched
  <2>1. count[f][i] \in Nat /\ acc[f][i] \in Nat /\ acc'[f][i] = 0
    BY <1>1, LineFacts DEF NoCount
  <2> QED
    BY <2>1, <1>1 DEF Touched
<1>8. CASE ~agg.active
  <2>1. \A f \in File : Reached(f)' = Reached(f)
    BY <1>6, <1>8
  <2>2. CoverInv => CoverInv'
    <3> SUFFICES ASSUME CoverInv, NEW f \in File, NEW i \in 1..Reached(f), log[f][i] # Dropped
                 PROVE  Touched(f, i)'
      BY <2>1, <1>2 DEF CoverInv
    <3>1. i \in 1..MaxLines
      BY ReachedFacts
    <3> QED
      BY <3>1, <1>7 DEF CoverInv
  <2> QED
    BY <1>4, <1>5, <2>1, <2>2, ReachedFacts DEF Advances
<1>9. CASE agg.active
  <2>g. PICK g \in File : g = agg.file
    BY <1>9, AggFacts
  <2>1. Reached(g) = agg.at - 1 /\ Reached(g)' = agg'.at - 1
    BY <1>9, <2>g DEF Reached
  <2>2. /\ agg.at \in Nat /\ agg.hi \in Nat /\ 1 <= agg.at /\ agg.hi <= Len(log[g])
        /\ Len(log[g]) \in Nat
    BY <1>9, <2>g, AggFacts, LoaderFacts
  <2>3. \A f \in File : f # g => Reached(f)' = Reached(f)
    BY <1>6, <2>g
  <2>4. \A i \in 1..MaxLines :
          Reached(g) < i /\ i <= Reached(g)' /\ log[g][i] # Dropped => Touched(g, i)'
    BY <1>9, <2>1, <2>2, <2>g DEF Kept
  <2>5. Reached(g)' \in Nat /\ Reached(g)' <= Len(log[g])
    BY <1>9, <2>1, <2>2
  <2>6. CoverInv => CoverInv'
    BY <1>2, <1>7, <2>3, <2>4, <2>5, CoverStep
  <2>7. \A f \in File : Reached(f) <= Reached(f)'
    <3>1. Reached(g) <= Reached(g)'
      BY <1>9, <2>1, <2>2
    <3> QED
      BY <2>3, <3>1, ReachedFacts
  <2> QED
    BY <1>4, <1>5, <2>6, <2>7 DEF Advances
<1> QED
  BY <1>8, <1>9

\* The month ends before entry i: the open file is to be resumed at it.
LEMMA MonthBoundaryAdvances ==
  ASSUME IInv, OffsetsOK, SegmentInv, NEW i \in 1..MaxLines, MonthBoundary(i)
  PROVE  Advances
<1>1. /\ agg.pc = "entries" /\ i \in Kept(agg.file, agg.at, agg.hi)
      /\ Flush(WithPartial(i - 1)) /\ agg' = [agg EXCEPT !.pc = "ts_month"] /\ AggVarsOnly
  BY DEF MonthBoundary, NextEntry
<1>2. agg.active /\ agg.file \in File /\ agg.at \in Nat /\ agg.hi \in Nat /\ agg.at <= agg.hi + 1
  BY <1>1, AggFacts
<1>3. i - 1 \in Nat /\ i - 1 <= Len(log[agg.file])
  <2>1. i <= Len(log[agg.file]) /\ Len(log[agg.file]) \in Nat
    BY <1>1, <1>2, NextEntryFacts, LoaderFacts
  <2> QED
    BY <2>1
<1>4. /\ agg'.active = agg.active /\ agg'.file = agg.file /\ agg'.at = agg.at
      /\ agg'.pc = "ts_month"
  BY <1>1, AggFacts
<1> DEFINE pend == WithPartial(i - 1)
<1>5. /\ pend \in [File -> Row] /\ pend[agg.file].offset = i - 1
      /\ \A f \in File : f # agg.file => pend[f] = pending[f]
  BY <1>2, <1>3, AggFacts, LoaderFacts DEF WithPartial, RowOf, Row
<1>6. Flush(pend)
  BY <1>1
<1> HIDE DEF pend
<1>7. \A f \in File : pend[f].offset <= Len(log[f])
  BY <1>3, <1>5 DEF OffsetsOK
<1>8. \A f \in File : ~(agg.active /\ f = agg.file) => pend[f] = pending[f]
  BY <1>2, <1>5
<1>9. /\ agg'.at \in Nat /\ agg.at <= agg'.at /\ agg'.at <= agg.hi + 1
      /\ Kept(agg.file, agg.at, agg'.at - 1) = {}
      /\ agg'.pc \in {"recv", "ts_checkpoint"} => agg'.at = agg'.hi + 1
  BY <1>2, <1>4 DEF Kept
<1>10. AggVarsOnly
  BY <1>1
<1> QED
  BY <1>4, <1>5, <1>6, <1>7, <1>8, <1>9, <1>10, FlushAdvances

\* The batch has been counted when the checkpoint is made.
LEMMA CheckpointAdvances ==
  ASSUME IInv, OffsetsOK, SegmentInv, Checkpoint
  PROVE  Advances
<1>1. /\ agg.pc = "entries" /\ Kept(agg.file, agg.at, agg.hi) = {}
      /\ Flush(WithPartial(agg.off)) /\ AggVarsOnly
      /\ agg' = [agg EXCEPT !.pc = "ts_checkpoint", !.at = agg.hi + 1]
  BY DEF Checkpoint, BatchDone
<1>2. /\ agg.active /\ agg.file \in File /\ agg.at \in Nat /\ agg.hi \in Nat
      /\ agg.at <= agg.hi + 1 /\ agg.off \in Nat /\ agg.off <= Len(log[agg.file])
  BY <1>1, AggFacts
<1>3. /\ agg'.active = agg.active /\ agg'.file = agg.file /\ agg'.at = agg.hi + 1
      /\ agg'.hi = agg.hi
  BY <1>1, AggFacts
<1> DEFINE pend == WithPartial(agg.off)
<1>4. /\ pend \in [File -> Row] /\ pend[agg.file].offset = agg.off
      /\ \A f \in File : f # agg.file => pend[f] = pending[f]
  BY <1>2, AggFacts, LoaderFacts DEF WithPartial, RowOf, Row
<1>5. Flush(pend)
  BY <1>1
<1> HIDE DEF pend
<1>6. \A f \in File : pend[f].offset <= Len(log[f])
  BY <1>2, <1>4 DEF OffsetsOK
<1>7. \A f \in File : ~(agg.active /\ f = agg.file) => pend[f] = pending[f]
  BY <1>2, <1>4
<1>8. /\ agg'.at \in Nat /\ agg.at <= agg'.at /\ agg'.at <= agg.hi + 1
      /\ Kept(agg.file, agg.at, agg'.at - 1) = {}
      /\ agg'.pc \in {"recv", "ts_checkpoint"} => agg'.at = agg'.hi + 1
  BY <1>1, <1>2, <1>3 DEF Kept
<1>9. AggVarsOnly
  BY <1>1
<1> QED
  BY <1>3, <1>4, <1>5, <1>6, <1>7, <1>8, <1>9, FlushAdvances

LEMMA FinalFlushAdvances ==
  ASSUME IInv, OffsetsOK, SegmentInv, FinalFlush
  PROVE  Advances
<1>1. /\ toAgg # <<>> /\ Head(toAgg).kind = "done" /\ ~loader.failed
      /\ Flush(pending) /\ AggVarsOnly /\ agg' = [agg EXCEPT !.pc = "ts_final"]
  BY DEF FinalFlush, Received
<1>2. ~agg.active
  BY <1>1, DoneWhenShut
<1>3. agg'.active = agg.active /\ agg'.file = agg.file
  BY <1>1, AggFacts
<1>4. \A f \in File : pending[f].offset <= Len(log[f])
  BY DEF OffsetsOK
<1>5. pending \in [File -> Row]
  BY AggFacts
<1> QED
  BY <1>1, <1>2, <1>3, <1>4, <1>5, FlushAdvances

\* Nothing that was in memory matters to what the database holds, except for
\* the files closed since the last flush.
LEMMA FileDoneAdvances ==
  ASSUME IInv, GapInv, OffsetsOK, SegmentInv, AggFileDone
  PROVE  Advances
<1> DEFINE m == Head(toAgg)
<1>1. /\ agg.pc = "recv" /\ toAgg # <<>> /\ m.kind = "fdone"
      /\ pending' = [pending EXCEPT ![m.file] = RowOf(m.off, plan[m.file].size, m.completed)]
      /\ agg' = [agg EXCEPT !.active = FALSE]
      /\ UNCHANGED <<acc, month, count, stored>> /\ AggVarsOnly
  BY DEF AggFileDone, Received, dbVars
<1>2. UNCHANGED <<log, mode, plan, loader, faults>>
  BY <1>1, AggUnchanged
<1>3. m \in Msg /\ MsgOK(m) /\ Follows(agg.file, AggAt, m) /\ NoGap(AggAt, m)
  BY <1>1, ToAggHead, PopGapless DEF IInv, TypeOK, GapInv
<1> HIDE DEF m
<1>g. PICK g \in File : g = agg.file
  BY <1>1, <1>3, AggFacts DEF Follows, AggAt
<1>4. /\ agg.active /\ m.file = g /\ agg.hi < m.lo /\ m.off = m.lo - 1
      /\ m.lo \in Nat /\ m.off \in Nat /\ agg.hi \in Nat /\ agg.at = agg.hi + 1
      /\ m.off <= Len(log[g]) /\ Len(log[g]) \in Nat
      /\ Kept(g, agg.hi + 1, m.off) = {}
  <2>1. agg.active /\ m.file = g /\ agg.hi < m.lo /\ agg.hi \in Nat /\ m.lo = m.off + 1
    BY <1>1, <1>3, <1>g, AggFacts DEF Follows, AggAt, Shut
  <2>2. m.lo \in Nat /\ m.off \in Nat /\ m.off <= Len(log[g])
    BY <1>1, <1>3, <2>1 DEF MsgOK, Msg
  <2>3. Kept(g, agg.hi + 1, m.lo - 1) = {}
    BY <1>1, <1>3, <2>1 DEF NoGap, AggAt
  <2>4. agg.at = agg.hi + 1
    BY <1>1, <2>1 DEF OffsetsOK
  <2> QED
    BY <2>1, <2>2, <2>3, <2>4, LoaderFacts DEF Kept
<1>5. ~agg'.active /\ agg'.file = g /\ agg'.pc = "recv"
  BY <1>1, <1>g, AggFacts
<1>6. \A f \in File : pending'[f] = IF f = g THEN RowOf(m.off, plan[g].size, m.completed)
                                             ELSE pending[f]
  BY <1>1, <1>4, AggFacts
<1>7. OffsetsOK'
  <2>1. \A f \in File : pending'[f].offset <= Len(log[f])
    BY <1>4, <1>6 DEF OffsetsOK, RowOf
  <2>2. \A f \in File : agg'.file < f => f # g
    BY <1>5 DEF File
  <2> QED
    BY <1>1, <1>2, <1>5, <1>6, <1>g, <2>1, <2>2 DEF OffsetsOK
<1>8. SegmentInv'
  BY <1>1, <1>2, <1>5 DEF SegmentInv, SegmentInMonth
<1>9. Reached(g) = agg.hi /\ Reached(g)' = m.off
  BY <1>4, <1>5, <1>6, <1>g DEF Reached, NextOffset, RowOf
<1>10. \A f \in File : f # g => Reached(f)' = Reached(f)
  BY <1>1, <1>5, <1>6, <1>g DEF Reached, NextOffset
<1>11. ASSUME CoverInv PROVE CoverInv'
  <2>1. \A f \in File, i \in 1..MaxLines : Touched(f, i) => Touched(f, i)'
    BY <1>1 DEF Touched
  <2>2. \A i \in 1..MaxLines :
          Reached(g) < i /\ i <= Reached(g)' /\ log[g][i] # Dropped => Touched(g, i)'
    BY <1>4, <1>9 DEF Kept
  <2>3. Reached(g)' \in Nat /\ Reached(g)' <= Len(log[g])
    BY <1>4, <1>9
  <2> QED
    BY <1>2, <1>10, <1>11, <2>1, <2>2, <2>3, CoverStep
<1>12. \A f \in File : Reached(f) <= Reached(f)'
  BY <1>4, <1>9, <1>10, ReachedFacts
<1> QED
  BY <1>7, <1>8, <1>11, <1>12 DEF Advances

\* The steps between a flush and the next entry, and the end of a batch.
LEMMA ControlAdvances ==
  ASSUME IInv, OffsetsOK, SegmentInv,
         \/ SetLastLogTs \/ FinalizeMonth \/ NoCheckpoint
         \/ \E i \in 1..MaxLines : AdvanceMonth(i)
  PROVE  Advances
<1>0. agg \in [pc : AggPc, active : BOOLEAN, file : 0..NFiles, at : Nat, hi : Nat, off : Nat]
  BY AggFacts
<1>1. /\ UNCHANGED <<count, stored, acc, pending>> /\ AggVarsOnly
      /\ agg'.active = agg.active /\ agg'.file = agg.file /\ agg'.hi = agg.hi
      /\ month' = month \/ (agg.pc = "advance" /\ agg'.pc = "entries")
      /\ agg'.pc = "finalize" => agg.pc = "ts_month"
      /\ agg'.pc = "advance" => agg.pc = "finalize"
      /\ agg'.pc \notin {"ts_month", "ts_final", "ts_checkpoint"}
      /\ agg'.pc = "recv" => \/ agg.pc = "ts_checkpoint" /\ agg'.at = agg.at
                             \/ agg.pc = "entries" /\ agg'.at = agg.hi + 1
      /\ agg'.at = agg.at \/ (NoCheckpoint /\ agg'.at = agg.hi + 1)
  <2>1. CASE SetLastLogTs
    BY <1>0, <2>1 DEF SetLastLogTs
  <2>2. CASE FinalizeMonth
    BY <1>0, <2>2 DEF FinalizeMonth
  <2>3. CASE NoCheckpoint
    BY <1>0, <2>3 DEF NoCheckpoint, BatchDone, dbVars
  <2>4. CASE \E i \in 1..MaxLines : AdvanceMonth(i)
    BY <1>0, <2>4 DEF AdvanceMonth
  <2> QED
    BY <2>1, <2>2, <2>3, <2>4
<1>2. UNCHANGED <<log, mode, plan, loader, faults>>
  BY <1>1, AggUnchanged
<1>3. OffsetsOK'
  BY <1>1, <1>2 DEF OffsetsOK
<1>4. SegmentInv'
  <2>1. CASE month' = month
    BY <2>1, <1>1, <1>2 DEF SegmentInv, SegmentInMonth
  <2>2. CASE agg.pc = "advance" /\ agg'.pc = "entries"
    BY <2>2, <1>1 DEF SegmentInv, SegmentInMonth, NoCount
  <2> QED
    BY <1>1, <2>1, <2>2
<1>5. \A f \in File, i \in 1..MaxLines : Touched(f, i) => Touched(f, i)'
  BY <1>1 DEF Touched
<1>6. CASE agg'.at = agg.at
  <2>1. \A f \in File : Reached(f)' = Reached(f)
    BY <1>1, <1>6 DEF Reached, NextOffset
  <2>2. CoverInv => CoverInv'
    BY <1>1, <1>2, <2>1 DEF CoverInv, Touched
  <2> QED
    BY <1>3, <1>4, <2>1, <2>2, ReachedFacts DEF Advances
<1>7. CASE NoCheckpoint /\ agg'.at = agg.hi + 1
  <2>1. agg.active /\ Kept(agg.file, agg.at, agg.hi) = {}
    BY <1>7, AggFacts DEF NoCheckpoint, BatchDone
  <2>g. PICK g \in File : g = agg.file
    BY <2>1, AggFacts
  <2>2. /\ agg.at \in Nat /\ agg.hi \in Nat /\ 1 <= agg.at /\ agg.at <= agg.hi + 1
        /\ agg.hi <= Len(log[g]) /\ Len(log[g]) \in Nat
    BY <2>1, <2>g, AggFacts, LoaderFacts
  <2>3. Reached(g) = agg.at - 1 /\ Reached(g)' = agg.hi
    BY <1>1, <1>7, <2>1, <2>2, <2>g DEF Reached
  <2>4. \A f \in File : f # g => Reached(f)' = Reached(f)
    BY <1>1, <2>g DEF Reached, NextOffset
  <2>5. \A i \in 1..MaxLines :
          Reached(g) < i /\ i <= Reached(g)' /\ log[g][i] # Dropped => Touched(g, i)'
    BY <2>1, <2>2, <2>3, <2>g DEF Kept
  <2>6. Reached(g)' \in Nat /\ Reached(g)' <= Len(log[g])
    BY <2>2, <2>3
  <2>7. CoverInv => CoverInv'
    BY <1>2, <1>5, <2>4, <2>5, <2>6, CoverStep
  <2>8. \A f \in File : Reached(f) <= Reached(f)'
    BY <2>2, <2>3, <2>4, ReachedFacts
  <2> QED
    BY <1>3, <1>4, <2>7, <2>8 DEF Advances
<1> QED
  BY <1>1, <1>6, <1>7

-----------------------------------------------------------------------------
(* Batches of the same size keep step. *)

\* A batch follows a short one only after the file has come to its end.
LEMMA ToParserPushStep ==
  ASSUME IInv, LinesInStep, NEW m \in Msg, PushToParser(m), ~loader.done,
         m.kind = "lines" => ~loader.eof /\ m.hi < m.lo + LoaderBatch,
         ShortLines(m) => loader'.eof \/ loader'.done
  PROVE  LinesInStep' /\ (NoMoreLines => NoMoreLines')
<1>1. /\ toParser \in Seq(Msg) /\ Len(toParser) \in Nat /\ toParser' = Append(toParser, m)
      /\ Len(toParser') = Len(toParser) + 1 /\ toParser' # <<>>
      /\ toParser # <<>> => Len(toParser) > 0
  BY DEF IInv, TypeOK, ChannelType, PushToParser
<1>2. \A k \in 1..Len(toParser') :
        toParser'[k] = IF k = Len(toParser) + 1 THEN m ELSE toParser[k]
  BY <1>1
<1>3. NoMoreLines => NoMoreLines'
  <2>1. CASE toParser = <<>>
    <3>1. toParser'[1] = m
      BY <2>1, <1>1, <1>2
    <3> QED
      BY <2>1, <3>1, <1>1 DEF NoMoreLines
  <2>2. CASE toParser # <<>>
    <3>1. toParser'[1] = toParser[1]
      BY <2>2, <1>1, <1>2
    <3> QED
      BY <2>2, <3>1, <1>1 DEF NoMoreLines
  <2> QED
    BY <2>1, <2>2
<1>4. \A k \in 1..Len(toParser') :
        toParser'[k].kind = "lines" => toParser'[k].hi < toParser'[k].lo + LoaderBatch
  <2> SUFFICES ASSUME NEW k \in 1..Len(toParser'), toParser'[k].kind = "lines"
               PROVE  toParser'[k].hi < toParser'[k].lo + LoaderBatch
    OBVIOUS
  <2>1. CASE k = Len(toParser) + 1
    BY <2>1, <1>2
  <2>2. CASE k # Len(toParser) + 1
    <3>1. k \in 1..Len(toParser) /\ toParser'[k] = toParser[k]
      BY <2>2, <1>1, <1>2
    <3> QED
      BY <3>1 DEF LinesInStep
  <2> QED
    BY <2>1, <2>2
<1>5. ASSUME NEW k \in 1..(Len(toParser') - 1), ShortLines(toParser'[k])
      PROVE  toParser'[k + 1].kind # "lines"
  <2>1. k \in 1..Len(toParser) /\ toParser'[k] = toParser[k] /\ toParser # <<>>
    BY <1>1, <1>2
  <2>2. CASE k = Len(toParser)
    <3>1. toParser'[k + 1] = m
      BY <2>2, <1>1, <1>2
    <3>2. loader.eof
      BY <1>5, <2>1, <2>2 DEF LinesInStep
    <3> QED
      BY <3>1, <3>2
  <2>3. CASE k # Len(toParser)
    <3>1. k \in 1..(Len(toParser) - 1) /\ toParser'[k + 1] = toParser[k + 1]
      BY <2>1, <2>3, <1>1, <1>2
    <3> QED
      BY <1>5, <2>1, <3>1 DEF LinesInStep
  <2> QED
    BY <2>2, <2>3
<1>6. ShortLines(toParser'[Len(toParser')]) => loader'.eof \/ loader'.done
  BY <1>1, <1>2
<1>7. \A k \in 1..(Len(toParser') - 1) :
        ShortLines(toParser'[k]) => toParser'[k + 1].kind # "lines"
  BY <1>5
<1>8. LinesInStep'
  BY <1>4, <1>6, <1>7 DEF LinesInStep, ShortLines
<1> QED
  BY <1>3, <1>8

LEMMA ToParserPopStep ==
  ASSUME IInv, LinesInStep, toParser # <<>>, toParser' = Tail(toParser), loader' = loader
  PROVE  LinesInStep' /\ (ShortLines(Head(toParser)) => NoMoreLines')
<1>1. /\ toParser \in Seq(Msg) /\ Len(toParser) \in Nat /\ Len(toParser) > 0
      /\ Head(toParser) = toParser[1] /\ Len(toParser') = Len(toParser) - 1
      /\ toParser' = <<>> <=> Len(toParser) = 1
  <2>0. toParser \in Seq(Msg)
    BY DEF IInv, TypeOK, ChannelType
  <2>1. toParser \in Seq(Msg) /\ Len(toParser) \in Nat /\ Len(toParser) > 0
    BY <2>0
  <2>2. toParser' \in Seq(Msg) /\ Len(toParser') = Len(toParser) - 1
    BY <2>1
  <2>3. ASSUME toParser' = <<>> PROVE Len(toParser') = 0
    BY <2>3, EmptyLen
  <2>4. ASSUME Len(toParser') = 0 PROVE toParser' = <<>>
    BY <2>2, <2>4
  <2> QED
    BY <2>1, <2>2, <2>3, <2>4
<1>2. \A k \in 1..Len(toParser') : toParser'[k] = toParser[k + 1] /\ k + 1 \in 1..Len(toParser)
  BY <1>1
<1>3. \A k \in 1..Len(toParser') :
        toParser'[k].kind = "lines" => toParser'[k].hi < toParser'[k].lo + LoaderBatch
  BY <1>2 DEF LinesInStep
<1>4. \A k \in 1..(Len(toParser') - 1) :
        ShortLines(toParser'[k]) => toParser'[k + 1].kind # "lines"
  <2> SUFFICES ASSUME NEW k \in 1..(Len(toParser') - 1), ShortLines(toParser'[k])
               PROVE  toParser'[k + 1].kind # "lines"
    OBVIOUS
  <2>1. /\ toParser'[k] = toParser[k + 1] /\ toParser'[k + 1] = toParser[(k + 1) + 1]
        /\ k + 1 \in 1..(Len(toParser) - 1)
    BY <1>1, <1>2
  <2> QED
    BY <2>1 DEF LinesInStep
<1>5. toParser' # <<>> /\ ShortLines(toParser'[Len(toParser')]) => loader.eof \/ loader.done
  <2> SUFFICES ASSUME toParser' # <<>>, ShortLines(toParser'[Len(toParser')])
               PROVE  loader.eof \/ loader.done
    OBVIOUS
  <2>1. toParser'[Len(toParser')] = toParser[Len(toParser)]
    BY <1>1, <1>2
  <2> QED
    BY <2>1 DEF LinesInStep
<1>6. LinesInStep'
  BY <1>3, <1>4, <1>5 DEF LinesInStep, ShortLines
<1>7. ASSUME ShortLines(Head(toParser)) PROVE NoMoreLines'
  <2>1. CASE toParser' = <<>>
    <3>1. ShortLines(toParser[Len(toParser)])
      BY <1>1, <1>7, <2>1
    <3>2. loader.eof \/ loader.done
      BY <1>1, <3>1 DEF LinesInStep
    <3> QED
      BY <2>1, <3>2 DEF NoMoreLines
  <2>2. CASE toParser' # <<>>
    <3>1. toParser'[1] = toParser[1 + 1] /\ 1 \in 1..(Len(toParser) - 1)
      BY <1>1, <1>2, <2>2
    <3>2. toParser[1 + 1].kind # "lines"
      BY <1>1, <1>7, <3>1 DEF LinesInStep
    <3> QED
      BY <2>2, <3>1, <3>2 DEF NoMoreLines
  <2> QED
    BY <2>1, <2>2
<1> QED
  BY <1>6, <1>7

\* Steps of the loader.
LEMMA LoaderInStep ==
  ASSUME IInv, LinesInStep, ParserInStep, LoaderStep \/ LoaderError
  PROVE  LinesInStep' /\ ParserInStep'
<1>0. loader \in [open : BOOLEAN, file : 0..NFiles, pos : Nat, eof : BOOLEAN,
                  done : BOOLEAN, failed : BOOLEAN]
  BY DEF IInv, TypeOK, LoaderType
<1>1. \E m \in Msg : /\ PushToParser(m) /\ ~loader.done
                     /\ m.kind = "lines" => ~loader.eof /\ m.hi < m.lo + LoaderBatch
                     /\ ShortLines(m) => loader'.eof \/ loader'.done
  <2>1. CASE LoaderFileStart
    <3>1. PICK f \in todo : PushToParser(FileStart(f, plan[f].offset))
      BY <2>1 DEF LoaderFileStart
    <3>2. FileStart(f, plan[f].offset) \in Msg /\ FileStart(f, plan[f].offset).kind = "start"
      BY LoaderFacts DEF FileStart, MsgOf, Msg, File
    <3> QED
      BY <2>1, <3>1, <3>2 DEF LoaderFileStart, ShortLines
  <2>2. CASE LoaderLines
    <3> DEFINE left == Len(log[loader.file]) - loader.pos
               end  == IF left >= LoaderBatch THEN loader.pos + LoaderBatch
                                              ELSE Len(log[loader.file])
               m    == Lines(loader.file, loader.pos + 1, end)
    <3>1. PushToParser(m) /\ ~loader.eof /\ ~loader.done /\ loader'.eof = (left < LoaderBatch)
      BY <1>0, <2>2 DEF LoaderLines, IInv, LoaderOK
    <3>2. Len(log[loader.file]) \in Nat /\ loader.pos \in Nat /\ loader.file \in 0..NFiles
      BY <2>2, LoaderFacts DEF LoaderLines
    <3>3. end \in Nat /\ end < (loader.pos + 1) + LoaderBatch
      BY <3>2
    <3>4. m \in Msg /\ m.hi = end /\ m.lo = loader.pos + 1
      BY <3>2, <3>3 DEF Lines, MsgOf, Msg
    <3>5. end + 1 < (loader.pos + 1) + LoaderBatch => left < LoaderBatch
      BY <3>2
    <3> HIDE DEF m, end, left
    <3> QED
      BY <3>1, <3>3, <3>4, <3>5 DEF ShortLines
  <2>3. CASE LoaderFileDone
    <3> DEFINE c == loader.pos >= plan[loader.file].size
    <3>1. /\ PushToParser(FileDone(loader.file, loader.pos, c)) /\ c \in BOOLEAN
          /\ loader.open /\ ~loader.done
      BY <2>3 DEF LoaderFileDone, IInv, LoaderOK
    <3> HIDE DEF c
    <3>2. /\ FileDone(loader.file, loader.pos, c) \in Msg
          /\ FileDone(loader.file, loader.pos, c).kind = "fdone"
      BY <1>0, <3>1 DEF FileDone, MsgOf, Msg
    <3> QED
      BY <3>1, <3>2 DEF ShortLines
  <2>4. CASE LoaderDone \/ LoaderError
    <3>1. PushToParser(Done) /\ ~loader.done
      BY <2>4 DEF LoaderDone, LoaderError
    <3>2. Done \in Msg /\ Done.kind = "done"
      BY DEF Done, MsgOf, Msg, NoFile
    <3> QED
      BY <3>1, <3>2 DEF ShortLines
  <2> QED
    BY <2>1, <2>2, <2>3, <2>4 DEF LoaderStep
<1>2. LinesInStep' /\ (NoMoreLines => NoMoreLines')
  BY <1>1, ToParserPushStep
<1>3. UNCHANGED parser
  BY DEF LoaderStep, LoaderError, LoaderFileStart, LoaderLines, LoaderFileDone, LoaderDone,
         LoaderVarsOnly
<1> QED
  BY <1>2, <1>3 DEF ParserInStep

\* Where no line is dropped the entry batch is the interval it was built from.
LEMMA KeptAll ==
  ASSUME IInv, L!NothingDropped, NEW f \in File, NEW lo \in Nat, NEW hi \in Nat,
         1 <= lo, hi <= Len(log[f])
  PROVE  /\ Kept(f, lo, hi) = lo..hi
         /\ lo <= hi => Cardinality(Kept(f, lo, hi)) = hi - lo + 1
<1>1. Len(log[f]) \in Nat
  BY LoaderFacts
<1>2. \A i \in lo..hi : log[f][i] # Dropped
  BY <1>1 DEF L!NothingDropped
<1>3. Kept(f, lo, hi) = lo..hi
  BY <1>2 DEF Kept
<1> QED
  BY <1>3, FS_Interval

LEMMA ToAggPushStep ==
  ASSUME IInv, EntriesInStep, NEW m \in Msg, PushToAgg(m), agg' = agg,
         m.kind = "entries" => m.hi = m.off
  PROVE  EntriesInStep'
<1>1. toAgg \in Seq(Msg) /\ Len(toAgg) \in Nat /\ toAgg' = Append(toAgg, m)
  BY DEF IInv, TypeOK, ChannelType, PushToAgg
<1>2. \A k \in 1..Len(toAgg') : toAgg'[k] = IF k = Len(toAgg) + 1 THEN m ELSE toAgg[k]
  BY <1>1
<1>3. \A k \in 1..Len(toAgg') : k # Len(toAgg) + 1 => k \in 1..Len(toAgg)
  BY <1>1
<1> QED
  BY <1>2, <1>3 DEF EntriesInStep

\* Steps of the parser: it takes a batch of lines when it has sent off the
\* last one, and its entry batch is full with the last line of that.
LEMMA ParserStepsInStep ==
  ASSUME IInv, GapInv, Lockstep, LinesInStep, ParserInStep, EntriesInStep, ParserStep
  PROVE  LinesInStep' /\ ParserInStep' /\ EntriesInStep'
<1>0. /\ UNCHANGED <<log, loader, agg>>
      /\ parser \in [open : BOOLEAN, file : 0..NFiles, from : Nat, at : Nat, off : Nat,
                     done : BOOLEAN]
      /\ LoaderBatch = ParserBatch /\ L!NothingDropped
      /\ LoaderBatch \in Nat /\ LoaderBatch > 0
  BY DEF ParserStep, ParserFileStart, ParserTakeLines, ParseLine, ParseLineFull,
         ParserFlushBatch, ParserFileDone, ParserDone, ParserVarsOnly, aggVars, loadVars,
         IInv, TypeOK, ParserType, Lockstep
<1>1. ASSUME UNCHANGED toParser PROVE LinesInStep' /\ (NoMoreLines => NoMoreLines')
  BY <1>0, <1>1 DEF LinesInStep, ShortLines, NoMoreLines
<1>2. ASSUME UNCHANGED toAgg PROVE EntriesInStep'
  BY <1>0, <1>2 DEF EntriesInStep
<1>3. CASE ParserFileStart
  <2> DEFINE m == Head(toParser)
  <2>1. toParser # <<>> /\ m.kind = "start" /\ PushToAgg(m) /\ toParser' = Tail(toParser)
    BY <1>3 DEF ParserFileStart
  <2>2. m \in Msg /\ MsgOK(m) /\ Follows(parser.file, ParserInAt, m)
    BY <2>1, ToParserHead
  <2>3. parser'.from = m.lo /\ parser'.at = m.lo /\ parser'.off = m.off
    BY <1>0, <1>3 DEF ParserFileStart
  <2> HIDE DEF m
  <2>4. m.lo = m.off + 1 /\ m.lo \in Nat /\ m.off \in Nat
    BY <2>1, <2>2 DEF Follows, Msg
  <2>5. ParserInStep'
    BY <1>0, <2>3, <2>4 DEF ParserInStep
  <2>6. LinesInStep'
    BY <1>0, <2>1, ToParserPopStep
  <2> QED
    BY <1>0, <2>1, <2>2, <2>5, <2>6, ToAggPushStep
<1>4. CASE ParserTakeLines
  <2> DEFINE m == Head(toParser)
  <2>1. /\ ParserFree /\ toParser # <<>> /\ m.kind = "lines" /\ toParser' = Tail(toParser)
        /\ UNCHANGED toAgg
    BY <1>4 DEF ParserTakeLines
  <2>2. m \in Msg /\ MsgOK(m) /\ Follows(parser.file, ParserInAt, m) /\ NoGap(ParserInAt, m)
    BY <2>1, ToParserHead, PopGapless DEF IInv, TypeOK, GapInv
  <2>3. m.hi < m.lo + LoaderBatch
    <3>1. toParser[1] = m /\ 1 \in 1..Len(toParser)
      <4>1. toParser \in Seq(Msg)
        BY DEF IInv, TypeOK, ChannelType
      <4> QED
        BY <2>1, <4>1
    <3> QED
      BY <2>1, <3>1 DEF LinesInStep
  <2>4. LinesInStep' /\ (ShortLines(m) => NoMoreLines') /\ ~NoMoreLines
    BY <1>0, <2>1, ToParserPopStep DEF NoMoreLines
  <2>5. /\ parser'.from = parser.from /\ parser'.at = m.lo /\ parser'.off = m.off
        /\ parser'.open = parser.open
    BY <1>0, <1>4 DEF ParserTakeLines
  <2> HIDE DEF m
  <2>6. /\ parser.open /\ m.file = parser.file /\ parser.off < m.lo /\ parser.file \in File
        /\ 1 <= m.lo /\ m.lo <= m.hi + 1 /\ m.hi = m.off /\ m.off <= Len(log[parser.file])
        /\ m.lo \in Nat /\ m.hi \in Nat /\ Len(log[parser.file]) \in Nat
        /\ Kept(parser.file, parser.off + 1, m.lo - 1) = {}
    <3>1. parser.open /\ m.file = parser.file /\ parser.off < m.lo
      BY <2>1, <2>2 DEF Follows, ParserInAt, Shut
    <3>2. parser.file \in File
      BY <3>1, ParserFacts
    <3>3. /\ 1 <= m.lo /\ m.lo <= m.hi + 1 /\ m.hi = m.off /\ m.off <= Len(log[parser.file])
          /\ m.lo \in Nat /\ m.hi \in Nat
      BY <2>1, <2>2, <3>1 DEF MsgOK, Msg
    <3>4. Kept(parser.file, parser.off + 1, m.lo - 1) = {}
      BY <2>1, <2>2, <3>1 DEF NoGap, ParserInAt
    <3> QED
      BY <3>1, <3>2, <3>3, <3>4, LoaderFacts
  <2>7. /\ parser.from \in Nat /\ parser.at \in Nat /\ parser.off \in Nat
        /\ parser.from <= parser.at /\ parser.at = parser.off + 1
    BY <2>1, ParserFacts DEF ParserFree
  <2>8. m.lo = parser.off + 1
    <3>1. ASSUME parser.off + 1 <= m.lo - 1 PROVE FALSE
      <4>1. log[parser.file][parser.off + 1] # Dropped
        BY <1>0, <2>6, <2>7, <3>1 DEF L!NothingDropped
      <4> QED
        BY <2>6, <2>7, <3>1, <4>1 DEF Kept
    <3> QED
      BY <2>6, <2>7, <3>1
  <2>9. parser.from = m.lo
    <3>1. parser.off < parser.from + LoaderBatch /\ parser.at < parser.from + LoaderBatch
      BY <1>0, <2>6 DEF ParserInStep
    <3>2. ~(parser.from <= parser.off /\ parser.off + 1 < parser.from + LoaderBatch)
      BY <2>4, <2>6 DEF ParserInStep
    <3> QED
      BY <1>0, <2>7, <2>8, <3>1, <3>2
  <2>10. ParserInStep'
    <3>1. m.hi + 1 < m.lo + LoaderBatch => NoMoreLines'
      BY <2>1, <2>4 DEF ShortLines
    <3> QED
      BY <1>0, <2>3, <2>5, <2>6, <2>9, <3>1 DEF ParserInStep
  <2> QED
    BY <1>2, <2>1, <2>4, <2>10
<1>5. CASE ParseLine \/ ParseLineFull
  <2>1. ~ParserFree /\ UNCHANGED toParser
    BY <1>5 DEF ParseLine, ParseLineFull
  <2>2. /\ parser.open /\ parser.file \in File /\ 1 <= parser.from /\ parser.from <= parser.at
        /\ parser.at <= parser.off /\ parser.off <= Len(log[parser.file])
        /\ Len(log[parser.file]) \in Nat /\ parser.from \in Nat /\ parser.at \in Nat
        /\ parser.off \in Nat
    BY <2>1, ParserFacts, LoaderFacts DEF ParserFree
  <2>3. /\ parser.off < parser.from + LoaderBatch /\ parser.at < parser.from + LoaderBatch
    BY <1>0, <2>2 DEF ParserInStep
  <2>4. log[parser.file][parser.at] # Dropped
    BY <1>0, <2>2 DEF L!NothingDropped
  <2>5. Cardinality(Kept(parser.file, parser.from, parser.at)) = parser.at - parser.from + 1
    BY <1>0, <2>2, KeptAll
  <2>6. BatchFull <=> parser.at - parser.from + 1 >= LoaderBatch
    BY <1>0, <2>4, <2>5 DEF BatchFull
  <2>7. CASE ParseLine
    <3>1. /\ ~BatchFull /\ UNCHANGED toAgg
          /\ parser'.from = parser.from /\ parser'.at = parser.at + 1
          /\ parser'.off = parser.off /\ parser'.open = parser.open
      BY <1>0, <2>7 DEF ParseLine
    <3>2. parser.at + 1 < parser.from + LoaderBatch
      BY <1>0, <2>2, <2>6, <3>1
    <3>3. ParserInStep'
      BY <1>0, <1>1, <2>1, <3>1, <3>2 DEF ParserInStep
    <3> QED
      BY <1>1, <1>2, <2>1, <3>1, <3>3
  <2>8. CASE ParseLineFull
    <3>1. /\ BatchFull /\ PushToAgg(Entries(parser.file, parser.from, parser.at, parser.off))
          /\ parser'.from = parser.at + 1 /\ parser'.at = parser.at + 1
          /\ parser'.off = parser.off
      BY <1>0, <2>8 DEF ParseLineFull
    <3>2. parser.at = parser.off
      BY <1>0, <2>2, <2>3, <2>6, <3>1
    <3>3. ParserInStep'
      BY <1>0, <2>2, <3>1, <3>2 DEF ParserInStep
    <3> DEFINE m == Entries(parser.file, parser.from, parser.at, parser.off)
    <3>4. m \in Msg /\ m.hi = m.off
      BY <1>0, <3>2 DEF Entries, MsgOf, Msg
    <3>5. PushToAgg(m)
      BY <3>1
    <3> HIDE DEF m
    <3>6. EntriesInStep'
      BY <1>0, <3>4, <3>5, ToAggPushStep
    <3> QED
      BY <1>1, <2>1, <3>3, <3>6
  <2> QED
    BY <1>5, <2>7, <2>8
<1>6. CASE ParserFlushBatch
  <2> DEFINE last == parser.at - 1
             m    == Entries(parser.file, parser.from, last, parser.off)
  <2>1. PushToAgg(m) /\ UNCHANGED toParser /\ ParserFree
    BY <1>6 DEF ParserFlushBatch, AtEnd
  <2>2. /\ parser'.from = parser.at /\ parser'.at = parser.at /\ parser'.off = parser.off
    BY <1>0, <1>6 DEF ParserFlushBatch
  <2>3. /\ parser.at = parser.off + 1 /\ parser.off \in Nat /\ parser.at \in Nat
        /\ last = parser.off
    BY <2>1, ParserFacts DEF ParserFree
  <2>4. ParserInStep'
    BY <1>0, <2>2, <2>3 DEF ParserInStep
  <2>5. m \in Msg /\ m.hi = m.off
    BY <1>0, <2>3 DEF Entries, MsgOf, Msg
  <2> HIDE DEF m
  <2>6. EntriesInStep'
    BY <1>0, <2>1, <2>5, ToAggPushStep
  <2> QED
    BY <1>1, <2>1, <2>4, <2>6
<1>7. CASE ParserFileDone \/ ParserDone
  <2> DEFINE m == Head(toParser)
  <2>1. /\ toParser # <<>> /\ m.kind \in {"fdone", "done"} /\ PushToAgg(m)
        /\ toParser' = Tail(toParser)
    BY <1>7 DEF ParserFileDone, ParserDone, AtEnd
  <2>2. m \in Msg /\ Follows(parser.file, ParserInAt, m)
    BY <2>1, ToParserHead
  <2>3. LinesInStep'
    BY <1>0, <2>1, ToParserPopStep
  <2>4. EntriesInStep'
    BY <1>0, <2>1, <2>2, ToAggPushStep
  <2>5. CASE ParserFileDone
    <3>1. ~parser'.open
      BY <1>0, <2>5 DEF ParserFileDone
    <3> QED
      BY <2>3, <2>4, <3>1 DEF ParserInStep
  <2>6. CASE ParserDone
    <3>1. /\ parser'.open = parser.open /\ parser'.from = parser.from
          /\ parser'.at = parser.at /\ parser'.off = parser.off
      BY <1>0, <2>6 DEF ParserDone
    <3>2. NoMoreLines'
      <4>1. toParser' = <<>> /\ loader.done
        BY <2>1, <2>6, ToParserHead DEF ParserDone
      <4> QED
        BY <1>0, <4>1 DEF NoMoreLines
    <3> QED
      BY <1>0, <2>3, <2>4, <3>1, <3>2 DEF ParserInStep
  <2> QED
    BY <1>7, <2>5, <2>6
<1> QED
  BY <1>3, <1>4, <1>5, <1>6, <1>7 DEF ParserStep

\* Steps of the aggregator.
LEMMA AggInStep ==
  ASSUME IInv, EntriesInStep, AggVarsOnly,
         \/ toAgg' = toAgg
         \/ toAgg # <<>> /\ toAgg' = Tail(toAgg),
         agg'.active => \/ agg'.hi = agg'.off
                        \/ agg.active /\ agg'.hi = agg.hi /\ agg'.off = agg.off
  PROVE  EntriesInStep'
<1>1. \A k \in 1..Len(toAgg') : toAgg'[k].kind = "entries" => toAgg'[k].hi = toAgg'[k].off
  <2>1. CASE toAgg' = toAgg
    BY <2>1 DEF EntriesInStep
  <2>2. CASE toAgg # <<>> /\ toAgg' = Tail(toAgg)
    <3>1. toAgg \in Seq(Msg)
      BY DEF IInv, TypeOK, ChannelType
    <3>2. \A k \in 1..Len(toAgg') : toAgg'[k] = toAgg[k + 1] /\ k + 1 \in 1..Len(toAgg)
      BY <2>2, <3>1
    <3> QED
      BY <3>2 DEF EntriesInStep
  <2> QED
    BY <2>1, <2>2
<1>2. agg'.active => agg'.hi = agg'.off
  BY DEF EntriesInStep
<1> QED
  BY <1>1, <1>2 DEF EntriesInStep

LEMMA AggStepsInStep ==
  ASSUME IInv, LinesInStep, ParserInStep, EntriesInStep, AggStep, ~(EndRun \/ AbortRun)
  PROVE  LinesInStep' /\ ParserInStep' /\ EntriesInStep'
<1>0. agg \in [pc : AggPc, active : BOOLEAN, file : 0..NFiles, at : Nat, hi : Nat, off : Nat]
  BY AggFacts
<1>1. AggVarsOnly
  BY DEF AggStep, AggFileStart, AggEntries, AggregateEntry, MonthBoundary, AdvanceMonth,
         SetLastLogTs, FinalizeMonth, NoCheckpoint, Checkpoint, AggFileDone, FinalFlush
<1>2. LinesInStep' /\ ParserInStep'
  <2>1. UNCHANGED <<loader, toParser, parser>>
    BY <1>1, AggUnchanged
  <2> QED
    BY <2>1 DEF LinesInStep, ShortLines, ParserInStep, NoMoreLines
<1>3. EntriesInStep'
  <2>1. CASE AggFileStart \/ AggEntries
    <3> DEFINE m == Head(toAgg)
    <3>1. /\ toAgg # <<>> /\ toAgg' = Tail(toAgg) /\ m.kind \in {"start", "entries"}
          /\ agg'.hi = m.hi /\ agg'.off = m.off
      BY <1>0, <2>1 DEF AggFileStart, AggEntries, Received
    <3>2. Follows(agg.file, AggAt, m)
      BY <3>1, ToAggHead
    <3>3. m = toAgg[1] /\ 1 \in 1..Len(toAgg)
      <4>1. toAgg \in Seq(Msg)
        BY DEF IInv, TypeOK, ChannelType
      <4> QED
        BY <3>1, <4>1
    <3> HIDE DEF m
    <3>4. m.hi = m.off
      BY <3>1, <3>2, <3>3 DEF Follows, EntriesInStep
    <3> QED
      BY <1>1, <3>1, <3>4, AggInStep
  <2>2. CASE AggFileDone
    <3>1. ~agg'.active
      BY <1>0, <2>2 DEF AggFileDone
    <3> QED
      BY <1>1, <2>2, <3>1, AggInStep DEF AggFileDone, Received
  <2>3. CASE FinalFlush
    <3>1. toAgg # <<>> /\ toAgg' = Tail(toAgg) /\ agg' = [agg EXCEPT !.pc = "ts_final"]
      BY <2>3 DEF FinalFlush, Received
    <3>2. agg'.active = agg.active /\ agg'.hi = agg.hi /\ agg'.off = agg.off
      BY <1>0, <3>1
    <3> QED
      BY <1>1, <3>1, <3>2, AggInStep
  <2>4. CASE \/ \E i \in 1..MaxLines : AggregateEntry(i) \/ MonthBoundary(i) \/ AdvanceMonth(i)
             \/ SetLastLogTs \/ FinalizeMonth \/ NoCheckpoint \/ Checkpoint
    <3>1. /\ toAgg' = toAgg /\ agg'.active = agg.active
          /\ agg'.hi = agg.hi /\ agg'.off = agg.off
      BY <1>0, <2>4 DEF AggregateEntry, MonthBoundary, AdvanceMonth, SetLastLogTs,
                        FinalizeMonth, NoCheckpoint, Checkpoint
    <3> QED
      BY <1>1, <3>1, AggInStep
  <2> QED
    BY <2>1, <2>2, <2>3, <2>4 DEF AggStep
<1> QED
  BY <1>2, <1>3

-----------------------------------------------------------------------------
(* What the database holds when batches keep step. *)

\* What FullInv says of the database.
DbExact ==
  /\ NothingLost
  /\ \A f \in File : stored[f].offset <= Reached(f)

\* A step that commits nothing.
LEMMA DbExactKeep ==
  ASSUME IInv, OffsetsOK, DbExact, UNCHANGED <<log, count, stored>>,
         \A f \in File : Reached(f)' \in Nat /\ Reached(f) <= Reached(f)'
  PROVE  DbExact'
<1>1. NothingLost'
  BY DEF DbExact, NothingLost
<1>2. \A f \in File : stored[f].offset <= Reached(f)'
  BY ReachedFacts DEF DbExact
<1> QED
  BY <1>1, <1>2 DEF DbExact

\* A flush whose offsets are no further than the aggregator has come.
LEMMA FlushExact ==
  ASSUME IInv, OffsetsOK, OffsetsOK', IInv', CoverInv', AggVarsOnly,
         NEW pend \in [File -> Row], Flush(pend),
         agg'.active = agg.active, agg'.file = agg.file,
         agg.active => pend[agg.file].known /\ pend[agg.file].offset < agg'.at
  PROVE  DbExact'
<1>1. /\ \A f \in File, i \in 1..MaxLines :
           count'[f][i] = count[f][i] + acc[f][i] /\ acc'[f][i] = 0
      /\ \A f \in File : stored'[f] = IF pend[f].known THEN pend[f] ELSE stored[f]
      /\ \A f \in File : ~pending'[f].known
      /\ log' = log
  BY AggUnchanged DEF Flush, NoCount, NoPending, NoRow
<1>2. \A f \in File : /\ Reached(f)' \in Nat /\ Reached(f)' <= Len(log'[f])
                      /\ stored'[f].offset \in Nat /\ Len(log'[f]) \in Nat
                      /\ Len(log'[f]) <= MaxLines
  <2>1. WithinFiles'
    BY ReachedAfter
  <2> QED
    BY <2>1 DEF WithinFiles
<1>3. ASSUME NEW f \in File PROVE stored'[f].offset <= Reached(f)'
  <2>1. CASE agg.active /\ f = agg.file
    <3>1. stored'[f].offset < agg'.at /\ Reached(f)' = agg'.at - 1
      BY <1>1, <2>1 DEF Reached
    <3>2. agg'.at \in Nat
      BY DEF IInv, TypeOK, AggType
    <3> QED
      BY <1>2, <3>1, <3>2
  <2>2. CASE ~(agg.active /\ f = agg.file)
    <3>1. Reached(f)' = stored'[f].offset
      BY <1>1, <2>2 DEF Reached, NextOffset
    <3> QED
      BY <1>2, <3>1
  <2> QED
    BY <2>1, <2>2
<1>4. ASSUME NEW f \in File, NEW i \in 1..stored'[f].offset, log'[f][i] # Dropped
      PROVE  count'[f][i] >= 1
  <2>1. i \in 1..Reached(f)' /\ i \in 1..MaxLines
    BY <1>2, <1>3
  <2>2. Touched(f, i)'
    BY <1>4, <2>1 DEF CoverInv
  <2>3. count[f][i] \in Nat /\ acc[f][i] \in Nat
    BY <2>1, LineFacts
  <2> QED
    BY <1>1, <2>1, <2>2, <2>3 DEF Touched
<1> QED
  BY <1>3, <1>4 DEF DbExact, NothingLost

\* The offsets a flush commits: the one before the entry that ends the month,
\* which is the next line; the end of a batch that has been counted; and the
\* ends of the files that are closed.
LEMMA AggDbExact ==
  ASSUME IInv, IInv', OffsetsOK, CoverInv, Lockstep, EntriesInStep, DbExact, Advances,
         AggStep, ~(EndRun \/ AbortRun)
  PROVE  DbExact'
<1>0. /\ agg \in [pc : AggPc, active : BOOLEAN, file : 0..NFiles, at : Nat, hi : Nat, off : Nat]
      /\ OffsetsOK' /\ CoverInv'
  BY AggFacts DEF Advances
<1>1. CASE \E i \in 1..MaxLines : MonthBoundary(i)
  <2>1. PICK i \in 1..MaxLines : MonthBoundary(i)
    BY <1>1
  <2>2. /\ agg.pc = "entries" /\ i \in Kept(agg.file, agg.at, agg.hi)
        /\ \A j \in Kept(agg.file, agg.at, agg.hi) : i <= j
        /\ Flush(WithPartial(i - 1)) /\ agg' = [agg EXCEPT !.pc = "ts_month"] /\ AggVarsOnly
    BY <2>1 DEF MonthBoundary, NextEntry
  <2>3. /\ agg.active /\ agg.file \in File /\ agg.at \in Nat /\ agg.hi \in Nat
        /\ 1 <= agg.at /\ agg.hi <= Len(log[agg.file]) /\ Len(log[agg.file]) \in Nat
        /\ agg.at <= i /\ i <= agg.hi /\ i - 1 \in Nat
    <3>1. /\ agg.active /\ agg.file \in File /\ agg.at \in Nat /\ agg.hi \in Nat
          /\ agg.off \in Nat /\ 1 <= agg.at /\ agg.hi <= agg.off
          /\ agg.off <= Len(log[agg.file])
      BY <1>0, <2>2, AggFacts
    <3>2. Len(log[agg.file]) \in Nat
      BY <3>1, LoaderFacts
    <3>3. agg.at <= i /\ i <= agg.hi /\ i - 1 \in Nat
      BY <2>2 DEF Kept
    <3> QED
      BY <3>1, <3>2, <3>3
  <2>4. i = agg.at
    <3>1. agg.at \in Kept(agg.file, agg.at, agg.hi)
      BY <2>3 DEF Kept, Lockstep, L!NothingDropped
    <3>2. i <= agg.at
      BY <2>2, <3>1
    <3> QED
      BY <2>3, <3>2
  <2> DEFINE pend == WithPartial(i - 1)
  <2>5. /\ pend \in [File -> Row] /\ pend[agg.file].offset = i - 1 /\ pend[agg.file].known
    BY <2>3, AggFacts, LoaderFacts DEF WithPartial, RowOf, Row
  <2>6. Flush(pend) /\ AggVarsOnly
    BY <2>2
  <2> HIDE DEF pend
  <2>7. agg'.active = agg.active /\ agg'.file = agg.file /\ agg'.at = agg.at
    BY <1>0, <2>2
  <2>8. pend[agg.file].known /\ pend[agg.file].offset < agg'.at
    BY <2>3, <2>4, <2>5, <2>7
  <2> QED
    BY <1>0, <2>5, <2>6, <2>7, <2>8, FlushExact
<1>2. CASE Checkpoint
  <2>1. /\ agg.pc = "entries" /\ Flush(WithPartial(agg.off)) /\ AggVarsOnly
        /\ agg' = [agg EXCEPT !.pc = "ts_checkpoint", !.at = agg.hi + 1]
    BY <1>2 DEF Checkpoint, BatchDone
  <2>2. agg.active /\ agg.file \in File /\ agg.hi \in Nat /\ agg.off = agg.hi
    BY <2>1, AggFacts DEF EntriesInStep
  <2> DEFINE pend == WithPartial(agg.off)
  <2>3. /\ pend \in [File -> Row] /\ pend[agg.file].offset = agg.hi /\ pend[agg.file].known
    BY <2>2, AggFacts, LoaderFacts DEF WithPartial, RowOf, Row
  <2>4. Flush(pend) /\ AggVarsOnly
    BY <2>1
  <2> HIDE DEF pend
  <2>5. agg'.active = agg.active /\ agg'.file = agg.file /\ agg'.at = agg.hi + 1
    BY <1>0, <2>1
  <2>6. pend[agg.file].known /\ pend[agg.file].offset < agg'.at
    BY <2>2, <2>3, <2>5
  <2> QED
    BY <1>0, <2>3, <2>4, <2>5, <2>6, FlushExact
<1>3. CASE FinalFlush
  <2>1. /\ toAgg # <<>> /\ Head(toAgg).kind = "done" /\ ~loader.failed
        /\ Flush(pending) /\ AggVarsOnly /\ agg' = [agg EXCEPT !.pc = "ts_final"]
    BY <1>3 DEF FinalFlush, Received
  <2>2. ~agg.active
    BY <2>1, DoneWhenShut
  <2>3. agg'.active = agg.active /\ agg'.file = agg.file /\ pending \in [File -> Row]
    BY <1>0, <2>1, AggFacts
  <2> QED
    BY <1>0, <2>1, <2>2, <2>3, FlushExact
<1>4. CASE \/ AggFileStart \/ AggEntries \/ SetLastLogTs \/ FinalizeMonth \/ NoCheckpoint
           \/ AggFileDone
           \/ \E i \in 1..MaxLines : AggregateEntry(i) \/ AdvanceMonth(i)
  <2>1. UNCHANGED <<log, count, stored>>
    BY <1>4 DEF AggFileStart, AggEntries, SetLastLogTs, FinalizeMonth, NoCheckpoint,
                AggFileDone, AggregateEntry, AdvanceMonth, AggVarsOnly, dbVars
  <2>2. \A f \in File : Reached(f)' \in Nat /\ Reached(f) <= Reached(f)'
    BY <1>0, ReachedAfter DEF WithinFiles, Advances
  <2> QED
    BY <2>1, <2>2, DbExactKeep
<1> QED
  BY <1>1, <1>2, <1>3, <1>4 DEF AggStep

\* The threads commit nothing.
LEMMA ThreadsDbExact ==
  ASSUME IInv, IInv', OffsetsOK, DbExact, Advances, LoaderStep \/ LoaderError \/ ParserStep
  PROVE  DbExact'
<1>1. UNCHANGED <<log, count, stored>>
  BY DEF LoaderStep, LoaderError, LoaderFileStart, LoaderLines, LoaderFileDone, LoaderDone,
         LoaderVarsOnly, ParserStep, ParserFileStart, ParserTakeLines, ParseLine, ParseLineFull,
         ParserFlushBatch, ParserFileDone, ParserDone, ParserVarsOnly, dbVars
<1>2. \A f \in File : Reached(f)' \in Nat /\ Reached(f) <= Reached(f)'
  BY ReachedAfter DEF WithinFiles, Advances
<1> QED
  BY <1>1, <1>2, DbExactKeep

-----------------------------------------------------------------------------
(* The steps of FullInv. *)

\* No fault is ever taken back, and a dropped line stays one.
LEMMA Looking ==
  ASSUME IInv, [Next]_vars
  PROVE  /\ Lockstep' => Lockstep
         /\ faults' = 0 => faults = 0
<1>1. Lockstep' => Lockstep
  <2>1. CASE log' = log
    BY <2>1 DEF Lockstep, L!NothingDropped
  <2>2. CASE \E a \in Appendable : AppendLine(a[1], a[2])
    <3>1. PICK f \in File, t \in Stamps \cup {Dropped} : AppendLine(f, t)
      BY <2>2
    <3>2. \A g \in File : \A i \in 1..Len(log[g]) :
            i \in 1..Len(log'[g]) /\ log'[g][i] = log[g][i]
      BY <3>1, AppendedLine
    <3> QED
      BY <3>2 DEF Lockstep, L!NothingDropped
  <2> QED
    BY <2>1, <2>2, StepCounts
<1>2. faults' = faults \/ faults' = faults + 1
  <2>1. CASE UNCHANGED vars
    BY <2>1 DEF vars
  <2>2. CASE StartRun \/ EmptyRun
    BY <2>2 DEF StartRun, EmptyRun, vars
  <2>3. CASE LoaderStep \/ LoaderError
    BY <2>3 DEF LoaderStep, LoaderError, LoaderFileStart, LoaderLines, LoaderFileDone, LoaderDone
  <2>4. CASE ParserStep
    BY <2>4 DEF ParserStep, ParserFileStart, ParserTakeLines, ParseLine, ParseLineFull,
                ParserFlushBatch, ParserFileDone, ParserDone, ParserVarsOnly
  <2>5. CASE AggStep
    BY <2>5 DEF AggStep, AggFileStart, AggEntries, AggregateEntry, MonthBoundary, AdvanceMonth,
                SetLastLogTs, FinalizeMonth, NoCheckpoint, Checkpoint, AggFileDone, FinalFlush,
                EndRun, AbortRun, AggVarsOnly
  <2>6. CASE Crash \/ \E a \in Appendable : AppendLine(a[1], a[2])
    BY <2>6 DEF Crash, AppendLine
  <2> QED
    BY <2>1, <2>2, <2>3, <2>4, <2>5, <2>6 DEF Next
<1>3. faults \in Nat
  BY DEF IInv, TypeOK
<1> QED
  BY <1>1, <1>2, <1>3

\* The steps of the three threads within a run.
LEMMA RunFull ==
  ASSUME IInv, IInv', FullInv, GapInv', [Next]_vars, Advances,
         LoaderStep \/ LoaderError \/ ParserStep \/ (AggStep /\ ~(EndRun \/ AbortRun))
  PROVE  FullInv'
<1>1. OffsetsOK' /\ SegmentInv' /\ (CoverInv => CoverInv')
  BY DEF Advances
<1>2. faults' = 0 \/ Lockstep' => CoverInv'
  BY <1>1, Looking DEF FullInv
<1>3. ASSUME Lockstep' PROVE ExactInv'
  <2>1. /\ Lockstep /\ LinesInStep /\ ParserInStep /\ EntriesInStep /\ DbExact /\ CoverInv
        /\ GapInv /\ OffsetsOK
    BY <1>3, Looking DEF FullInv, ExactInv, DbExact
  <2>2. CASE LoaderStep \/ LoaderError
    <3>1. EntriesInStep'
      BY <2>1, <2>2 DEF EntriesInStep, LoaderStep, LoaderError, LoaderFileStart, LoaderLines,
           LoaderFileDone, LoaderDone, LoaderVarsOnly, aggVars
    <3> QED
      BY <2>1, <2>2, <3>1, LoaderInStep, ThreadsDbExact DEF ExactInv, DbExact
  <2>3. CASE ParserStep
    BY <2>1, <2>3, ParserStepsInStep, ThreadsDbExact DEF ExactInv, DbExact
  <2>4. CASE AggStep /\ ~(EndRun \/ AbortRun)
    BY <2>1, <2>4, AggStepsInStep, AggDbExact DEF ExactInv, DbExact
  <2> QED
    BY <2>2, <2>3, <2>4
<1> QED
  BY <1>1, <1>2, <1>3 DEF FullInv

\* The end of a run: what was not committed is read again.  Without a fault
\* nothing was left to commit; otherwise the offsets in the database were
\* exact.
LEMMA StopFull ==
  ASSUME IInv, IInv', FullInv, [Next]_vars, EndRun \/ AbortRun \/ Crash
  PROVE  FullInv'
<1>1. /\ mode' = "idle" /\ loader' = IdleLoader /\ toParser' = <<>> /\ parser' = IdleParser
      /\ toAgg' = <<>> /\ agg' = IdleAgg /\ acc' = NoCount /\ pending' = NoPending
      /\ UNCHANGED <<log, count, stored>>
  BY DEF EndRun, AbortRun, Crash, Stop, dbVars
<1>2. GapInv'
  BY <1>1, QuietGap
<1>3. OffsetsOK'
  <2>1. \A f \in File : /\ stored'[f].offset <= Len(log'[f])
                        /\ pending'[f].offset <= Len(log'[f])
    BY <1>1, LoaderFacts DEF FullInv, OffsetsOK, NoPending, NoRow
  <2> QED
    BY <1>1, <2>1 DEF OffsetsOK, IdleAgg, IdleLoader
<1>4. SegmentInv'
  BY <1>1 DEF SegmentInv, SegmentInMonth, NoCount
<1>5. \A f \in File : Reached(f)' = stored[f].offset
  BY <1>1 DEF Reached, NextOffset, NoPending, NoRow, IdleAgg
<1>6. ASSUME NEW f \in File, NEW i \in 1..stored[f].offset
      PROVE  /\ i \in 1..MaxLines /\ count[f][i] \in Nat
             /\ Touched(f, i)' <=> count[f][i] > 0
  <2>1. i \in 1..MaxLines
    BY ReachedFacts DEF FullInv
  <2> QED
    BY <1>1, <2>1, LineFacts DEF Touched, NoCount
<1>7. NothingLost => CoverInv'
  BY <1>1, <1>5, <1>6 DEF NothingLost, CoverInv
<1>8. ASSUME Lockstep' PROVE CoverInv' /\ ExactInv'
  <2>1. ExactInv
    BY <1>8, Looking DEF FullInv
  <2>2. LinesInStep'
    <3>1. Len(toParser') = 0
      BY <1>1, EmptyLen
    <3> QED
      BY <1>1, <3>1 DEF LinesInStep
  <2>3. ParserInStep'
    BY <1>1 DEF ParserInStep, IdleParser
  <2>4. EntriesInStep'
    <3>1. Len(toAgg') = 0
      BY <1>1, EmptyLen
    <3> QED
      BY <1>1, <3>1 DEF EntriesInStep, IdleAgg
  <2>5. NothingLost'
    BY <1>1, <2>1 DEF ExactInv, NothingLost
  <2>6. \A f \in File : stored'[f].offset <= Reached(f)'
    BY <1>1, <1>5, ReachedFacts DEF FullInv
  <2> QED
    BY <1>7, <2>1, <2>2, <2>3, <2>4, <2>5, <2>6 DEF ExactInv
<1>9. ASSUME faults' = 0 PROVE CoverInv'
  <2>1. faults = 0
    BY <1>9, Looking
  <2>2. agg.pc = "ts_final"
    <3>1. ~Crash
      BY <1>9, <2>1 DEF Crash
    <3>2. ~AbortRun
      BY <2>1 DEF AbortRun, FullInv, OffsetsOK
    <3> QED
      BY <3>1, <3>2 DEF EndRun
  <2>3. acc = NoCount /\ pending = NoPending /\ ~agg.active /\ CoverInv
    BY <2>1, <2>2, AggFacts DEF FullInv, OffsetsOK
  <2>4. \A f \in File : Reached(f) = stored[f].offset
    BY <2>3 DEF Reached, NextOffset, NoPending, NoRow
  <2>5. ASSUME NEW f \in File, NEW i \in 1..stored[f].offset, log[f][i] # Dropped
        PROVE  count[f][i] > 0
    <3>1. count[f][i] + acc[f][i] > 0
      BY <2>3, <2>4, <2>5 DEF CoverInv, Touched
    <3> QED
      BY <1>6, <2>3, <3>1 DEF NoCount
  <2> QED
    BY <1>1, <1>5, <1>6, <2>5 DEF CoverInv
<1> QED
  BY <1>2, <1>3, <1>4, <1>8, <1>9 DEF FullInv

\* A run starts where the database says.
LEMMA StartFull ==
  ASSUME IInv, IInv', FullInv, GapInv', [Next]_vars, StartRun
  PROVE  FullInv'
<1>1. /\ mode = "idle"
      /\ plan' = [f \in File |-> [offset |-> ResumeOffset(f), size |-> Len(log[f])]]
      /\ UNCHANGED <<log, count, stored, loader, toParser, parser, toAgg, agg, acc, pending,
                     faults>>
  BY DEF StartRun, dbVars
<1>2. agg = IdleAgg /\ acc = NoCount /\ pending = NoPending
  BY <1>1 DEF IInv, QuietWhenIdle
<1>3. OffsetsOK'
  <2>1. \A f \in File : plan'[f].offset = stored[f].offset
    BY <1>1 DEF FullInv, OffsetsOK, ResumeOffset
  <2> QED
    BY <1>1, <1>2, <2>1 DEF FullInv, OffsetsOK, IdleAgg, NoPending, NoRow
<1>4. SegmentInv'
  BY <1>1, <1>2 DEF SegmentInv, SegmentInMonth, NoCount
<1>5. \A f \in File : Reached(f)' = Reached(f)
  BY <1>1 DEF Reached, NextOffset
<1>6. faults' = 0 \/ Lockstep' => CoverInv'
  BY <1>1, <1>5, Looking DEF FullInv, CoverInv, Touched
<1>7. ASSUME Lockstep' PROVE ExactInv'
  <2>1. ExactInv
    BY <1>7, Looking DEF FullInv
  <2> QED
    BY <1>1, <1>5, <2>1 DEF ExactInv, LinesInStep, ShortLines, ParserInStep, NoMoreLines,
                            EntriesInStep, NothingLost
<1> QED
  BY <1>3, <1>4, <1>6, <1>7 DEF FullInv

\* A line that is appended lies behind every position.
LEMMA AppendFull ==
  ASSUME IInv, IInv', FullInv, GapInv', [Next]_vars,
         NEW g \in File, NEW t \in Stamps \cup {Dropped}, AppendLine(g, t)
  PROVE  FullInv'
<1>1. /\ \A f \in File : /\ Len(log[f]) \in Nat /\ Len(log'[f]) \in Nat
                         /\ Len(log[f]) <= Len(log'[f])
                         /\ \A i \in 1..Len(log[f]) : log'[f][i] = log[f][i]
      /\ UNCHANGED <<count, stored, mode, plan, loader, toParser, parser, toAgg, agg, acc,
                     pending, month, faults>>
  BY AppendedLine
<1>2. OffsetsOK'
  <2>1. \A f \in File : /\ stored[f].offset <= Len(log'[f])
                        /\ pending[f].offset <= Len(log'[f])
    <3>1. \A f \in File : stored[f].offset \in Nat /\ pending[f].offset \in Nat
      BY AggFacts DEF Row
    <3> QED
      BY <1>1, <3>1 DEF FullInv, OffsetsOK
  <2> QED
    BY <1>1, <2>1 DEF FullInv, OffsetsOK
<1>3. SegmentInv'
  <2>1. ASSUME NEW f \in File, NEW i \in 1..MaxLines, acc[f][i] > 0
        PROVE  log'[f][i] = log[f][i]
    <3>1. i <= Len(log[f])
      BY <2>1, LineFacts DEF Touched
    <3> QED
      BY <1>1, <3>1
  <2> QED
    BY <1>1, <2>1 DEF FullInv, SegmentInv, SegmentInMonth
<1>4. \A f \in File : Reached(f)' = Reached(f)
  BY <1>1 DEF Reached, NextOffset
<1>5. ASSUME NEW f \in File, NEW i \in 1..Reached(f) PROVE log'[f][i] = log[f][i]
  <2>1. i \in 1..Len(log[f])
    BY ReachedFacts DEF FullInv
  <2> QED
    BY <1>1, <2>1
<1>6. faults' = 0 \/ Lockstep' => CoverInv'
  BY <1>1, <1>4, <1>5, Looking DEF FullInv, CoverInv, Touched
<1>7. ASSUME Lockstep' PROVE ExactInv'
  <2>1. ExactInv
    BY <1>7, Looking DEF FullInv
  <2>2. LinesInStep' /\ ParserInStep' /\ EntriesInStep'
    BY <1>1, <2>1 DEF ExactInv, LinesInStep, ShortLines, ParserInStep, NoMoreLines, EntriesInStep
  <2>3. \A f \in File : stored'[f].offset <= Reached(f)'
    BY <1>1, <1>4, <2>1 DEF ExactInv
  <2>4. NothingLost'
    <3> SUFFICES ASSUME NEW f \in File, NEW i \in 1..stored[f].offset, log'[f][i] # Dropped
                 PROVE  count[f][i] >= 1
      BY <1>1 DEF NothingLost
    <3>1. i \in 1..Len(log[f])
      BY ReachedFacts DEF FullInv
    <3>2. log[f][i] # Dropped
      BY <1>1, <3>1
    <3> QED
      BY <2>1, <3>2 DEF ExactInv, NothingLost
  <2> QED
    BY <2>2, <2>3, <2>4 DEF ExactInv
<1> QED
  BY <1>2, <1>3, <1>6, <1>7 DEF FullInv

LEMMA StutterFull ==
  ASSUME FullInv, GapInv', UNCHANGED vars
  PROVE  FullInv'
<1>1. UNCHANGED <<log, count, stored, mode, plan, loader, toParser, parser, toAgg, agg, acc,
                  pending, month, faults>>
  BY DEF vars, dbVars, runVars, loadVars, aggVars
<1>2. OffsetsOK' /\ SegmentInv'
  BY <1>1 DEF FullInv, OffsetsOK, SegmentInv, SegmentInMonth
<1>3. Lockstep' <=> Lockstep
  BY <1>1 DEF Lockstep, L!NothingDropped
<1>4. CoverInv => CoverInv'
  BY <1>1 DEF CoverInv, Reached, NextOffset, Touched
<1>5. ExactInv => ExactInv'
  BY <1>1 DEF ExactInv, LinesInStep, ShortLines, ParserInStep, NoMoreLines, EntriesInStep,
              NothingLost, Reached, NextOffset
<1> QED
  BY <1>1, <1>2, <1>3, <1>4, <1>5 DEF FullInv

LEMMA AggAdvances ==
  ASSUME IInv, GapInv, OffsetsOK, SegmentInv, AggStep, ~(EndRun \/ AbortRun)
  PROVE  Advances
BY AggFileStartAdvances, AggEntriesAdvances, AggregateEntryAdvances, MonthBoundaryAdvances,
   CheckpointAdvances, FinalFlushAdvances, FileDoneAdvances, ControlAdvances DEF AggStep

LEMMA NextFull == IInv /\ IInv' /\ FullInv /\ [Next]_vars => FullInv'
<1> SUFFICES ASSUME IInv, IInv', FullInv, [Next]_vars PROVE FullInv'
  OBVIOUS
<1>0. GapInv /\ OffsetsOK /\ SegmentInv
  BY DEF FullInv
<1>1. GapInv'
  BY <1>0, NextGap
<1>2. CASE UNCHANGED vars \/ EmptyRun
  BY <1>1, <1>2, StutterFull DEF EmptyRun
<1>3. CASE StartRun
  BY <1>1, <1>3, StartFull
<1>4. CASE LoaderStep \/ LoaderError \/ ParserStep
  BY <1>0, <1>1, <1>4, ThreadsAdvance, RunFull
<1>5. CASE AggStep /\ ~(EndRun \/ AbortRun)
  BY <1>0, <1>1, <1>5, AggAdvances, RunFull
<1>6. CASE EndRun \/ AbortRun \/ Crash
  BY <1>6, StopFull
<1>7. CASE \E a \in Appendable : AppendLine(a[1], a[2])
  BY <1>1, <1>7, AppendFull
<1> QED
  BY <1>2, <1>3, <1>4, <1>5, <1>6, <1>7 DEF Next

LEMMA InitFull == Init => FullInv
<1> SUFFICES ASSUME Init PROVE FullInv
  OBVIOUS
<1>1. /\ count = NoCount /\ stored = [f \in File |-> NoRow] /\ mode = "idle"
      /\ loader = IdleLoader /\ toParser = <<>> /\ parser = IdleParser /\ toAgg = <<>>
      /\ agg = IdleAgg /\ acc = NoCount /\ pending = NoPending /\ faults = 0
      /\ Len(toParser) = 0 /\ Len(toAgg) = 0
  BY EmptyLen DEF Init
<1>2. \A f \in File : Len(log[f]) \in Nat
  BY InitIInv, LoaderFacts
<1>3. GapInv
  BY <1>1 DEF GapInv, Gapless
<1>4. OffsetsOK
  BY <1>1, <1>2 DEF OffsetsOK, NoRow, NoPending, IdleAgg, IdleLoader
<1>5. SegmentInv
  BY <1>1 DEF SegmentInv, SegmentInMonth, NoCount
<1>6. \A f \in File : Reached(f) = 0 /\ stored[f].offset = 0
  BY <1>1 DEF Reached, NextOffset, NoPending, NoRow, IdleAgg
<1>7. CoverInv
  BY <1>6 DEF CoverInv
<1>8. ExactInv
  BY <1>1, <1>6 DEF ExactInv, LinesInStep, ParserInStep, EntriesInStep, NothingLost, IdleParser,
                    IdleAgg
<1> QED
  BY <1>3, <1>4, <1>5, <1>7, <1>8 DEF FullInv

-----------------------------------------------------------------------------
(* The theorems. *)

LEMMA FullInvariant == Spec => []FullInv
<1> QED
  BY InitFull, NextFull, Invariant, PTL DEF Spec

\* The invariant holds in every reachable state: neither the two channels nor
\* the threads leave out an entry or pass one on twice, and what the
\* aggregator has passed is counted, committed or not.
THEOREM CoverInvariant == Spec => [](IInv /\ FullInv)
BY Invariant, FullInvariant, PTL

\* As long as no run crashed or met a read error, between two runs every
\* entry before a resume offset is in the tables, whatever lines the parser
\* dropped and whatever the batch sizes are: the final flush of process_globs
\* is complete.
THEOREM NothingLostWithoutFaults == Spec => []FaultFreeLosesNothing
<1>1. IInv /\ FullInv => FaultFreeLosesNothing
  <2> SUFFICES ASSUME IInv, FullInv, faults = 0, mode = "idle",
                      NEW f \in File, NEW i \in 1..stored[f].offset, log[f][i] # Dropped
               PROVE  count[f][i] >= 1
    BY DEF FaultFreeLosesNothing, NothingLost
  <2>1. agg = IdleAgg /\ acc = NoCount /\ pending = NoPending
    BY DEF IInv, QuietWhenIdle
  <2>2. Reached(f) = stored[f].offset
    BY <2>1 DEF Reached, NextOffset, NoPending, NoRow, IdleAgg
  <2>3. i \in 1..MaxLines
    BY ReachedFacts DEF FullInv
  <2>4. Touched(f, i)
    BY <2>2 DEF FullInv, CoverInv
  <2>5. acc[f][i] = 0 /\ count[f][i] \in Nat
    BY <2>1, <2>3, LineFacts DEF NoCount
  <2> QED
    BY <2>4, <2>5 DEF Touched
<1> QED
  BY <1>1, Invariant, FullInvariant, PTL

\* A flush never writes a line under a month it does not belong to: what
\* waits in the accumulators is of the current month at every moment,
\* also while the month is finalized and changed.
THEOREM FlushedUnderItsMonth == Spec => []SegmentInMonth
<1>1. FullInv => SegmentInMonth
  BY DEF FullInv, SegmentInv
<1> QED
  BY <1>1, FullInvariant, PTL

\* LOADER_BATCH_SIZE and PARSER_BATCH_SIZE are equal.  Then, while the parser
\* drops no line, every entry before a resume offset is in the tables in
\* every state, so that no crash and no read error loses one.
THEOREM NothingLostInStep ==
  ASSUME LoaderBatch = ParserBatch
  PROVE  Spec => [](L!NothingDropped => NothingLost)
<1>1. FullInv => (L!NothingDropped => NothingLost)
  BY DEF FullInv, Lockstep, ExactInv
<1> QED
  BY <1>1, FullInvariant, PTL

\* No flush moves an offset back: the new offset lies where the aggregator
\* has come to, the old one not behind that.
LEMMA OffsetsAdvance ==
  ASSUME IInv, FullInv, Lockstep, [Next]_vars, NEW f \in File
  PROVE  stored[f].offset <= stored'[f].offset
<1>0. /\ OffsetsOK /\ EntriesInStep /\ stored[f].offset <= Reached(f)
      /\ Reached(f) \in Nat /\ stored[f].offset \in Nat
  BY ReachedFacts DEF FullInv, ExactInv
<1>1. ASSUME NEW pend, Flush(pend),
             Reached(f) <= IF pend[f].known THEN pend[f].offset ELSE stored[f].offset,
             pend \in [File -> Row]
      PROVE  stored[f].offset <= stored'[f].offset
  <2>1. stored'[f] = IF pend[f].known THEN pend[f] ELSE stored[f]
    BY <1>1 DEF Flush
  <2>2. pend[f].offset \in Nat
    BY <1>1 DEF Row
  <2> QED
    BY <1>0, <1>1, <2>1, <2>2
<1>2. CASE stored' = stored
  BY <1>0, <1>2
<1>3. ASSUME NEW off \in Nat, Flush(WithPartial(off)), agg.active, agg.at - 1 <= off
      PROVE  stored[f].offset <= stored'[f].offset
  <2> DEFINE pend == WithPartial(off)
  <2>1. /\ pend \in [File -> Row] /\ pend[agg.file].offset = off /\ pend[agg.file].known
        /\ \A g \in File : g # agg.file => pend[g] = pending[g]
    BY <1>3, AggFacts, LoaderFacts DEF WithPartial, RowOf, Row
  <2>2. Flush(pend)
    BY <1>3
  <2> HIDE DEF pend
  <2>3. Reached(f) <= IF pend[f].known THEN pend[f].offset ELSE stored[f].offset
    <3>1. CASE f = agg.file
      BY <1>3, <2>1, <3>1 DEF Reached
    <3>2. CASE f # agg.file
      <4>1. Reached(f) = IF pend[f].known THEN pend[f].offset ELSE stored[f].offset
        BY <2>1, <3>2 DEF Reached, NextOffset
      <4> QED
        BY <1>0, <4>1
    <3> QED
      BY <3>1, <3>2
  <2> QED
    BY <1>1, <2>1, <2>2, <2>3
<1>4. CASE \E i \in 1..MaxLines : MonthBoundary(i)
  <2>1. PICK i \in 1..MaxLines : MonthBoundary(i)
    BY <1>4
  <2>2. agg.pc = "entries" /\ i \in Kept(agg.file, agg.at, agg.hi) /\ Flush(WithPartial(i - 1))
    BY <2>1 DEF MonthBoundary, NextEntry
  <2>3. agg.active /\ agg.at \in Nat /\ agg.at <= i
    BY <2>2, AggFacts DEF Kept
  <2> DEFINE off == i - 1
  <2>4. off \in Nat /\ Flush(WithPartial(off)) /\ agg.at - 1 <= off
    BY <2>2, <2>3
  <2> HIDE DEF off
  <2> QED
    BY <1>3, <2>3, <2>4
<1>5. CASE Checkpoint
  <2>1. agg.pc = "entries" /\ Flush(WithPartial(agg.off))
    BY <1>5 DEF Checkpoint, BatchDone
  <2>2. agg.active /\ agg.at \in Nat /\ agg.off \in Nat /\ agg.hi \in Nat
        /\ agg.at <= agg.hi + 1 /\ agg.hi <= agg.off
    BY <2>1, AggFacts
  <2> DEFINE off == agg.off
  <2>3. off \in Nat /\ Flush(WithPartial(off)) /\ agg.at - 1 <= off
    BY <2>1, <2>2
  <2> HIDE DEF off
  <2> QED
    BY <1>3, <2>2, <2>3
<1>6. CASE FinalFlush
  <2>1. /\ toAgg # <<>> /\ Head(toAgg).kind = "done" /\ ~loader.failed /\ Flush(pending)
    BY <1>6 DEF FinalFlush, Received
  <2>2. ~agg.active
    BY <2>1, DoneWhenShut
  <2>3. Reached(f) = IF pending[f].known THEN pending[f].offset ELSE stored[f].offset
    BY <2>2 DEF Reached, NextOffset
  <2> QED
    BY <1>0, <1>1, <2>1, <2>3, AggFacts
<1>7. CASE UNCHANGED vars \/ StartRun \/ EmptyRun \/ Crash
           \/ \E a \in Appendable : AppendLine(a[1], a[2])
  BY <1>2, <1>7 DEF vars, dbVars, StartRun, EmptyRun, Crash, AppendLine
<1>8. CASE LoaderStep \/ LoaderError \/ ParserStep
  BY <1>2, <1>8 DEF LoaderStep, LoaderError, LoaderFileStart, LoaderLines, LoaderFileDone,
     LoaderDone, LoaderVarsOnly, ParserStep, ParserFileStart, ParserTakeLines, ParseLine,
     ParseLineFull, ParserFlushBatch, ParserFileDone, ParserDone, ParserVarsOnly, dbVars
<1>9. CASE \/ AggFileStart \/ AggEntries \/ SetLastLogTs \/ FinalizeMonth \/ NoCheckpoint
           \/ AggFileDone \/ EndRun \/ AbortRun
           \/ \E i \in 1..MaxLines : AggregateEntry(i) \/ AdvanceMonth(i)
  BY <1>2, <1>9 DEF AggFileStart, AggEntries, SetLastLogTs, FinalizeMonth, NoCheckpoint,
     AggFileDone, AggregateEntry, AdvanceMonth, EndRun, AbortRun, dbVars
<1> QED
  BY <1>4, <1>5, <1>6, <1>7, <1>8, <1>9 DEF Next, AggStep

LEMMA StepExact ==
  ASSUME LoaderBatch = ParserBatch
  PROVE  IInv /\ IInv' /\ FullInv /\ FullInv' /\ [Next]_vars
           => L!Grow \/ (IF L!NothingDropped THEN L!CommitExactly ELSE L!CommitLines)
<1> SUFFICES ASSUME IInv, IInv', FullInv, FullInv', [Next]_vars, L!CommitLines,
                    L!NothingDropped
             PROVE  L!CommitExactly
  BY StepRefines
<1>1. log' = log /\ Lockstep /\ Lockstep'
  BY DEF L!CommitLines, Lockstep, L!NothingDropped
<1>2. L!Covered([f \in File |-> stored'[f].offset], count')
  <2> SUFFICES ASSUME NEW f \in File, NEW i \in 1..stored'[f].offset, log[f][i] # Dropped
               PROVE  count'[f][i] = 1
    BY DEF L!Covered
  <2>1. count'[f][i] >= 1
    BY <1>1 DEF FullInv, ExactInv, NothingLost
  <2>2. i \in 1..MaxLines
    <3>1. /\ stored'[f].offset \in Nat /\ stored'[f].offset <= Len(log'[f])
          /\ Len(log'[f]) \in Nat /\ Len(log'[f]) <= MaxLines
      <4>1. WithinFiles' /\ stored'[f].offset <= Reached(f)'
        BY <1>1, ReachedAfter DEF FullInv, ExactInv
      <4> QED
        BY <4>1 DEF WithinFiles
    <3> QED
      BY <3>1
  <2>3. count'[f][i] \in Nat /\ count'[f][i] <= 1
    <3>1. count[f][i] \in Nat /\ count[f][i] <= 1
      BY <2>2, LineFacts
    <3>2. count'[f][i] = count[f][i] \/ count'[f][i] = 1
      BY <2>2 DEF L!CommitLines
    <3> QED
      BY <3>1, <3>2
  <2> QED
    BY <2>1, <2>3
<1>3. \A f \in File : stored[f].offset <= stored'[f].offset
  BY <1>1, OffsetsAdvance
<1> QED
  BY <1>2, <1>3 DEF L!CommitExactly

\* LOADER_BATCH_SIZE and PARSER_BATCH_SIZE are equal.  Then each commit of a
\* run is one step of the ledger of the module Ledger that adds every line
\* exactly once, as long as the parser drops no line: the offsets only
\* advance, and over lines that are added.
THEOREM RunsImplementExactLedger ==
  ASSUME LoaderBatch = ParserBatch
  PROVE  Spec => ImplementsExactlyOnce
<1>1. Init => L!Init
  BY DEF Init, L!Init, NoCount, NoRow
<1>2. IInv /\ IInv' /\ FullInv /\ FullInv' /\ [Next]_vars
        => [L!Grow \/ IF L!NothingDropped THEN L!CommitExactly ELSE L!CommitLines]_(L!vars)
  BY StepExact
<1> QED
  BY <1>1, <1>2, Invariant, FullInvariant, PTL DEF Spec, ImplementsExactlyOnce,
     L!ExactlyOnceSpec

-----------------------------------------------------------------------------
(* Logs that are written one after the other.                             *)

(* What the steps of the aggregator do, as far as the database and the     *)
(* lines that are still to come can tell.                                  *)

\* A step that commits nothing: it counts what it passes.
Reads ==
  /\ UNCHANGED <<log, stored>>
  /\ \A f \in File : Reached(f) <= Reached(f)'
  /\ \A f \in File, i \in 1..MaxLines :
       /\ acc[f][i] > 0 => acc'[f][i] > 0
       /\ acc'[f][i] > 0 => acc[f][i] > 0 \/ Reached(f) < i
       /\ Reached(f) < i /\ i <= Reached(f)' /\ log[f][i] # Dropped => acc'[f][i] > 0

\* A flush: it passes no entry, and no position is behind its offset.
Flushes ==
  /\ log' = log /\ acc' = NoCount /\ pending' = NoPending
  /\ agg'.file = agg.file /\ agg'.active = agg.active
  /\ \A f \in File :
       /\ Reached(f) <= Reached(f)' /\ Reached(f)' <= stored'[f].offset
       /\ \A i \in 1..Len(log[f]) :
            Reached(f) < i /\ log[f][i] # Dropped => Reached(f)' < i
       /\ stored'[f].known <=>
            stored[f].known \/ pending[f].known \/ (agg.active /\ f = agg.file)
       /\ ~(agg.active /\ f = agg.file) => stored'[f].offset = NextOffset(f)

\* A file's position moves over dropped lines.
LEMMA ReadsOn ==
  ASSUME IInv, OffsetsOK, Advances, UNCHANGED <<log, stored, acc>>, NEW g \in File,
         \A f \in File : f # g => Reached(f)' = Reached(f),
         Kept(g, Reached(g) + 1, Reached(g)') = {}
  PROVE  Reads
<1>1. \A f \in File : Reached(f) <= Reached(f)'
  BY DEF Advances
<1>2. \A f \in File : Reached(f) \in Nat
  BY ReachedFacts
<1>3. ASSUME NEW f \in File, NEW i \in 1..MaxLines, Reached(f) < i, i <= Reached(f)',
             log[f][i] # Dropped
      PROVE  FALSE
  <2>1. CASE f = g
    <3>1. i \in Reached(g) + 1..Reached(g)'
      BY <1>2, <1>3, <2>1
    <3> QED
      BY <1>3, <2>1, <3>1 DEF Kept
  <2>2. CASE f # g
    BY <1>2, <1>3, <2>2
  <2> QED
    BY <2>1, <2>2
<1> QED
  BY <1>1, <1>3 DEF Reads

LEMMA AggFileStartReads ==
  ASSUME IInv, OffsetsOK, SegmentInv, AggFileStart
  PROVE  /\ Reads /\ agg'.active /\ ~agg.active /\ agg.file < agg'.file
         /\ agg'.file = Head(toAgg).file /\ Head(toAgg).kind = "start" /\ agg'.file \in File
         /\ agg'.pc = "recv"
         /\ \A f \in File : Reached(f)' = Reached(f)
<1> DEFINE m == Head(toAgg)
<1>1. /\ agg.pc = "recv" /\ toAgg # <<>> /\ m.kind = "start"
      /\ agg' = [agg EXCEPT !.active = TRUE, !.file = m.file, !.at = m.lo, !.hi = m.hi,
                            !.off = m.off]
      /\ UNCHANGED <<acc, pending, count, stored>> /\ AggVarsOnly
  BY DEF AggFileStart, Received, dbVars
<1>2. m \in Msg /\ MsgOK(m) /\ Follows(agg.file, AggAt, m) /\ mode = "running"
  BY <1>1, ToAggHead
<1> HIDE DEF m
<1>3. /\ m.file \in File /\ m.lo = m.hi + 1 /\ m.hi = plan[m.file].offset /\ m.hi \in Nat
      /\ agg.file < m.file /\ ~agg.active
  BY <1>1, <1>2, AggFacts DEF MsgOK, Follows, Msg, AggAt, Shut
<1>4. /\ agg'.active /\ agg'.file = m.file /\ agg'.at = m.lo /\ agg'.pc = "recv"
  BY <1>1, AggFacts
<1>5. m.hi = stored[m.file].offset /\ ~pending[m.file].known
  BY <1>2, <1>3 DEF OffsetsOK
<1>6. ASSUME NEW f \in File PROVE Reached(f)' = Reached(f)
  <2>1. Reached(f) = NextOffset(f) /\ NextOffset(f)' = NextOffset(f)
    BY <1>1, <1>3 DEF Reached, NextOffset
  <2>2. CASE f = m.file
    BY <2>1, <2>2, <1>3, <1>4, <1>5 DEF Reached, NextOffset
  <2>3. CASE f # m.file
    BY <2>1, <2>3, <1>4 DEF Reached
  <2> QED
    BY <2>2, <2>3
<1>7. \A f \in File : Reached(f) \in Nat
  BY ReachedFacts
<1>8. Reads
  BY <1>1, <1>6, <1>7, AggUnchanged DEF Reads
<1> QED
  BY <1>1, <1>3, <1>4, <1>6, <1>8 DEF m

LEMMA AggEntriesReads ==
  ASSUME IInv, GapInv, OffsetsOK, SegmentInv, AggEntries
  PROVE  /\ Reads /\ agg'.active /\ agg.active /\ agg'.file = agg.file
         /\ Head(toAgg).file = agg.file /\ Head(toAgg).kind = "entries" /\ agg'.pc = "entries"
<1> DEFINE m == Head(toAgg)
<1>0. Advances
  BY AggEntriesAdvances
<1>1. /\ agg.pc = "recv" /\ toAgg # <<>> /\ m.kind = "entries"
      /\ agg' = [agg EXCEPT !.pc = "entries", !.at = m.lo, !.hi = m.hi, !.off = m.off]
      /\ UNCHANGED <<acc, pending, month, count, stored>> /\ AggVarsOnly
  BY DEF AggEntries, Received, dbVars
<1>2. log' = log
  BY <1>1, AggUnchanged
<1>3. m \in Msg /\ MsgOK(m) /\ Follows(agg.file, AggAt, m) /\ NoGap(AggAt, m)
  BY <1>1, ToAggHead, PopGapless DEF IInv, TypeOK, GapInv
<1> HIDE DEF m
<1>g. PICK g \in File : g = agg.file
  BY <1>1, <1>3, AggFacts DEF Follows, AggAt
<1>4. /\ agg.active /\ m.file = g /\ m.lo \in Nat /\ agg.hi \in Nat
      /\ agg.at = agg.hi + 1 /\ Kept(g, agg.hi + 1, m.lo - 1) = {}
  BY <1>1, <1>3, <1>g, AggFacts DEF Follows, AggAt, Shut, NoGap, OffsetsOK, Msg
<1>5. agg'.active /\ agg'.file = g /\ agg'.at = m.lo /\ agg'.pc = "entries"
  BY <1>1, <1>4, <1>g, AggFacts
<1>6. Reached(g) = agg.hi /\ Reached(g)' = m.lo - 1
  BY <1>4, <1>5, <1>g DEF Reached
<1>7. \A f \in File : f # g => Reached(f)' = Reached(f)
  BY <1>1, <1>5, <1>g DEF Reached, NextOffset
<1>8. Kept(g, Reached(g) + 1, Reached(g)') = {}
  BY <1>4, <1>6
<1>9. Reads
  BY <1>0, <1>1, <1>2, <1>7, <1>8, ReadsOn
<1> QED
  BY <1>1, <1>4, <1>5, <1>9, <1>g DEF m

LEMMA AggFileDoneReads ==
  ASSUME IInv, GapInv, OffsetsOK, SegmentInv, AggFileDone
  PROVE  /\ Reads /\ ~agg'.active /\ agg.active /\ agg'.file = agg.file /\ agg.file \in File
         /\ Head(toAgg).file = agg.file /\ Head(toAgg).kind = "fdone" /\ agg'.pc = "recv"
         /\ \A f \in File : f # agg.file => pending'[f] = pending[f]
         /\ pending'[agg.file].known /\ pending'[agg.file].offset = Head(toAgg).off
<1> DEFINE m == Head(toAgg)
<1>0. Advances
  BY FileDoneAdvances
<1>1. /\ agg.pc = "recv" /\ toAgg # <<>> /\ m.kind = "fdone"
      /\ pending' = [pending EXCEPT ![m.file] = RowOf(m.off, plan[m.file].size, m.completed)]
      /\ agg' = [agg EXCEPT !.active = FALSE]
      /\ UNCHANGED <<acc, month, count, stored>> /\ AggVarsOnly
  BY DEF AggFileDone, Received, dbVars
<1>2. log' = log
  BY <1>1, AggUnchanged
<1>3. m \in Msg /\ MsgOK(m) /\ Follows(agg.file, AggAt, m) /\ NoGap(AggAt, m)
  BY <1>1, ToAggHead, PopGapless DEF IInv, TypeOK, GapInv
<1> HIDE DEF m
<1>g. PICK g \in File : g = agg.file
  BY <1>1, <1>3, AggFacts DEF Follows, AggAt
<1>4. /\ agg.active /\ m.file = g /\ m.off = m.lo - 1 /\ m.off \in Nat /\ agg.hi \in Nat
      /\ agg.at = agg.hi + 1 /\ Kept(g, agg.hi + 1, m.off) = {}
  <2>1. /\ agg.active /\ m.file = g /\ m.lo = m.off + 1 /\ m.off \in Nat /\ agg.hi \in Nat
        /\ m.lo \in Nat
    BY <1>1, <1>3, <1>g, AggFacts DEF Follows, AggAt, Shut, Msg
  <2>2. Kept(g, agg.hi + 1, m.lo - 1) = {} /\ agg.at = agg.hi + 1
    BY <1>1, <1>3, <2>1 DEF NoGap, AggAt, OffsetsOK
  <2> QED
    BY <2>1, <2>2
<1>5. ~agg'.active /\ agg'.file = g /\ agg'.pc = "recv"
  BY <1>1, <1>g, AggFacts
<1>6. \A f \in File : pending'[f] = IF f = g THEN RowOf(m.off, plan[g].size, m.completed)
                                             ELSE pending[f]
  BY <1>1, <1>4, AggFacts
<1>7. Reached(g) = agg.hi /\ Reached(g)' = m.off
  BY <1>4, <1>5, <1>6, <1>g DEF Reached, NextOffset, RowOf
<1>8. \A f \in File : f # g => Reached(f)' = Reached(f)
  BY <1>1, <1>5, <1>6, <1>g DEF Reached, NextOffset
<1>9. Kept(g, Reached(g) + 1, Reached(g)') = {}
  BY <1>4, <1>7
<1>10. Reads
  BY <1>0, <1>1, <1>2, <1>8, <1>9, ReadsOn
<1>11. pending'[g].known /\ pending'[g].offset = m.off
  BY <1>6 DEF RowOf
<1> QED
  BY <1>1, <1>4, <1>5, <1>6, <1>10, <1>11, <1>g DEF m

LEMMA AggregateEntryReads ==
  ASSUME IInv, OffsetsOK, SegmentInv, NEW i \in 1..MaxLines, AggregateEntry(i)
  PROVE  /\ Reads /\ agg'.active /\ agg.active /\ agg'.file = agg.file /\ agg'.pc = "entries"
<1>0. Advances
  BY AggregateEntryAdvances
<1>1. /\ agg.pc = "entries" /\ i \in Kept(agg.file, agg.at, agg.hi)
      /\ \A j \in Kept(agg.file, agg.at, agg.hi) : i <= j
      /\ acc' = [acc EXCEPT ![agg.file][i] = @ + 1]
      /\ agg' = [agg EXCEPT !.at = i + 1]
      /\ UNCHANGED <<count, stored, pending>> /\ AggVarsOnly
  BY DEF AggregateEntry, NextEntry
<1>2. log' = log
  BY <1>1, AggUnchanged
<1>3. agg.active /\ agg.file \in File
  BY <1>1, AggFacts
<1>g. PICK g \in File : g = agg.file
  BY <1>3
<1>4. /\ agg.at <= i /\ i <= agg.hi /\ acc[g][i] = 0 /\ i \in Nat /\ agg.at \in Nat
      /\ agg.hi \in Nat
  BY <1>1, <1>3, <1>g, NextEntryFacts, AggFacts
<1>5. agg'.active /\ agg'.file = g /\ agg'.at = i + 1 /\ agg'.pc = "entries"
  BY <1>1, <1>3, <1>g, AggFacts
<1>6. \A f \in File, j \in 1..MaxLines :
        acc'[f][j] = IF f = g /\ j = i THEN 1 ELSE acc[f][j]
  <2>1. acc \in [File -> [1..MaxLines -> Nat]]
    BY DEF IInv, TypeOK, AggType, CountType
  <2>2. \A f \in File : acc'[f] = IF f = g THEN [acc[g] EXCEPT ![i] = @ + 1] ELSE acc[f]
    BY <2>1, <1>1, <1>g
  <2>3. acc[g] \in [1..MaxLines -> Nat] /\ 0 + 1 = 1
    BY <2>1
  <2>4. \A j \in 1..MaxLines : acc'[g][j] = IF j = i THEN acc[g][i] + 1 ELSE acc[g][j]
    BY <2>2, <2>3
  <2>5. acc[g][i] + 1 = 1
    BY <1>4
  <2> QED
    BY <2>2, <2>4, <2>5
<1>7. Reached(g) = agg.at - 1 /\ Reached(g)' = i
  BY <1>3, <1>4, <1>5, <1>g DEF Reached
<1>8. \A f \in File : f # g => Reached(f)' = Reached(f)
  BY <1>1, <1>5, <1>g DEF Reached, NextOffset
<1>9. ASSUME NEW f \in File, NEW j \in 1..MaxLines
      PROVE  /\ acc[f][j] > 0 => acc'[f][j] > 0
             /\ acc'[f][j] > 0 => acc[f][j] > 0 \/ Reached(f) < j
  BY <1>4, <1>6, <1>7
<1>10. ASSUME NEW f \in File, NEW j \in 1..MaxLines, Reached(f) < j, j <= Reached(f)',
              log[f][j] # Dropped
       PROVE  acc'[f][j] > 0
  <2>1. f = g
    <3>1. CASE f # g
      <4>1. Reached(f)' = Reached(f) /\ Reached(f) \in Nat
        BY <1>8, <3>1, ReachedFacts
      <4> QED
        BY <1>10, <4>1
    <3> QED
      BY <3>1
  <2>2. j \in Kept(agg.file, agg.at, agg.hi)
    BY <1>4, <1>7, <1>10, <1>g, <2>1 DEF Kept
  <2>3. j = i
    <3>1. i <= j
      BY <1>1, <2>2
    <3> QED
      BY <1>4, <1>7, <1>10, <2>1, <3>1
  <2> QED
    BY <1>6, <2>1, <2>3
<1> QED
  BY <1>0, <1>1, <1>2, <1>3, <1>5, <1>9, <1>10, <1>g DEF Reads, Advances

LEMMA ControlReads ==
  ASSUME IInv, OffsetsOK, SegmentInv,
         \/ SetLastLogTs \/ FinalizeMonth \/ NoCheckpoint
         \/ \E i \in 1..MaxLines : AdvanceMonth(i)
  PROVE  /\ Reads /\ agg'.active = agg.active /\ agg'.file = agg.file
<1>0. /\ Advances
      /\ agg \in [pc : AggPc, active : BOOLEAN, file : 0..NFiles, at : Nat, hi : Nat, off : Nat]
  BY AggFacts, ControlAdvances
<1>1. /\ UNCHANGED <<stored, acc, pending>> /\ AggVarsOnly
      /\ agg'.active = agg.active /\ agg'.file = agg.file
      /\ agg'.at = agg.at \/ (NoCheckpoint /\ agg'.at = agg.hi + 1)
  <2>1. CASE SetLastLogTs
    BY <1>0, <2>1 DEF SetLastLogTs
  <2>2. CASE FinalizeMonth
    BY <1>0, <2>2 DEF FinalizeMonth
  <2>3. CASE NoCheckpoint
    BY <1>0, <2>3 DEF NoCheckpoint, BatchDone, dbVars
  <2>4. CASE \E i \in 1..MaxLines : AdvanceMonth(i)
    BY <1>0, <2>4 DEF AdvanceMonth
  <2> QED
    BY <2>1, <2>2, <2>3, <2>4
<1>2. log' = log
  BY <1>1, AggUnchanged
<1>3. CASE agg'.at = agg.at
  <2>1. \A f \in File : Reached(f)' = Reached(f) /\ Reached(f) \in Nat
    BY <1>1, <1>3, ReachedFacts DEF Reached, NextOffset
  <2> QED
    BY <1>1, <1>2, <2>1 DEF Reads
<1>4. CASE NoCheckpoint /\ agg'.at = agg.hi + 1
  <2>1. agg.active /\ Kept(agg.file, agg.at, agg.hi) = {}
    BY <1>4, AggFacts DEF NoCheckpoint, BatchDone
  <2>g. PICK g \in File : g = agg.file
    BY <2>1, AggFacts
  <2>2. Reached(g) = agg.at - 1 /\ Reached(g)' = agg.hi /\ agg.at \in Nat /\ agg.hi \in Nat
    BY <1>0, <1>1, <1>4, <2>1, <2>g DEF Reached
  <2>3. \A f \in File : f # g => Reached(f)' = Reached(f)
    BY <1>1, <2>g DEF Reached, NextOffset
  <2>4. Kept(g, Reached(g) + 1, Reached(g)') = {}
    BY <2>1, <2>2, <2>g
  <2> QED
    BY <1>0, <1>1, <1>2, <2>3, <2>4, ReadsOn
<1> QED
  BY <1>1, <1>3, <1>4

\* A flush of rows that lie behind what was read.
LEMMA FlushFlushes ==
  ASSUME IInv, OffsetsOK, Advances, AggVarsOnly, NEW pend \in [File -> Row], Flush(pend),
         \A f \in File : ~(agg.active /\ f = agg.file) => pend[f] = pending[f],
         agg'.active = agg.active, agg'.file = agg.file,
         agg.active =>
           /\ pend[agg.file].known /\ agg'.at \in Nat /\ agg.at <= agg'.at
           /\ agg'.at - 1 <= pend[agg.file].offset
           /\ Kept(agg.file, agg.at, agg'.at - 1) = {}
  PROVE  Flushes
<1>1. /\ \A f \in File : stored'[f] = IF pend[f].known THEN pend[f] ELSE stored[f]
      /\ acc' = NoCount /\ pending' = NoPending /\ log' = log
  BY AggUnchanged DEF Flush
<1>2. \A f \in File : NextOffset(f)' = stored'[f].offset
  BY <1>1 DEF NextOffset, NoPending, NoRow
<1>3. ASSUME NEW f \in File, ~(agg.active /\ f = agg.file)
      PROVE  /\ Reached(f) = Reached(f)' /\ Reached(f)' = stored'[f].offset
             /\ Reached(f) \in Nat /\ stored'[f].offset = NextOffset(f)
             /\ stored'[f].known <=> stored[f].known \/ pending[f].known
  <2>1. /\ stored'[f].offset = NextOffset(f)
        /\ stored'[f].known <=> stored[f].known \/ pending[f].known
    BY <1>1, <1>3 DEF NextOffset
  <2>2. Reached(f) = NextOffset(f) /\ Reached(f)' = NextOffset(f)'
    BY <1>3 DEF Reached
  <2> QED
    BY <1>2, <2>1, <2>2, ReachedFacts
<1>4. ASSUME agg.active, NEW f \in File, f = agg.file
      PROVE  /\ Reached(f) <= Reached(f)' /\ Reached(f)' <= stored'[f].offset
             /\ \A i \in 1..Len(log[f]) :
                  Reached(f) < i /\ log[f][i] # Dropped => Reached(f)' < i
             /\ stored'[f].known
  <2>1. Reached(f) = agg.at - 1 /\ Reached(f)' = agg'.at - 1
    BY <1>4 DEF Reached
  <2>2. agg.at \in Nat /\ agg'.at \in Nat /\ pend[f].offset \in Nat /\ Len(log[f]) \in Nat
    BY <1>4, AggFacts, LoaderFacts DEF Row
  <2>3. stored'[f] = pend[f]
    BY <1>1, <1>4
  <2>4. \A i \in 1..Len(log[f]) : Reached(f) < i /\ log[f][i] # Dropped => Reached(f)' < i
    BY <1>4, <2>1, <2>2 DEF Kept
  <2> QED
    BY <1>4, <2>1, <2>2, <2>3, <2>4
<1> QED
  BY <1>1, <1>3, <1>4 DEF Flushes

LEMMA StepFlushes ==
  ASSUME IInv, OffsetsOK, SegmentInv,
         Checkpoint \/ FinalFlush \/ \E i \in 1..MaxLines : MonthBoundary(i)
  PROVE  /\ Flushes /\ dbSeen' = Later(dbSeen, seen)
         /\ UNCHANGED <<dbMonth, complete, lastLog, month, seen>>
<1>0. agg \in [pc : AggPc, active : BOOLEAN, file : 0..NFiles, at : Nat, hi : Nat, off : Nat]
  BY AggFacts
<1>1. CASE Checkpoint
  <2>1. /\ agg.pc = "entries" /\ Kept(agg.file, agg.at, agg.hi) = {}
        /\ Flush(WithPartial(agg.off)) /\ AggVarsOnly
        /\ agg' = [agg EXCEPT !.pc = "ts_checkpoint", !.at = agg.hi + 1]
        /\ UNCHANGED <<month, seen>>
    BY <1>1 DEF Checkpoint, BatchDone
  <2>2. /\ agg.active /\ agg.file \in File /\ agg.at \in Nat /\ agg.hi \in Nat
        /\ agg.at <= agg.hi + 1 /\ agg.off \in Nat /\ agg.hi <= agg.off
    BY <2>1, AggFacts
  <2>3. agg'.active = agg.active /\ agg'.file = agg.file /\ agg'.at = agg.hi + 1
    BY <1>0, <2>1
  <2> DEFINE pend == WithPartial(agg.off)
  <2>4. /\ pend \in [File -> Row] /\ pend[agg.file].offset = agg.off /\ pend[agg.file].known
        /\ \A f \in File : f # agg.file => pend[f] = pending[f]
    BY <2>2, AggFacts, LoaderFacts DEF WithPartial, RowOf, Row
  <2>5. Flush(pend)
    BY <2>1
  <2> HIDE DEF pend
  <2>6. \A f \in File : ~(agg.active /\ f = agg.file) => pend[f] = pending[f]
    BY <2>2, <2>4
  <2>7. /\ agg'.at - 1 <= pend[agg.file].offset /\ Kept(agg.file, agg.at, agg'.at - 1) = {}
        /\ agg'.at \in Nat /\ agg.at <= agg'.at
    <3>1. agg'.at - 1 = agg.hi
      BY <2>2, <2>3
    <3> QED
      BY <2>1, <2>2, <2>3, <2>4, <3>1
  <2>8. Flushes
    BY <1>1, <2>1, <2>2, <2>3, <2>4, <2>5, <2>6, <2>7, CheckpointAdvances, FlushFlushes
  <2> QED
    BY <2>1, <2>5, <2>8 DEF Flush
<1>2. CASE FinalFlush
  <2>1. /\ toAgg # <<>> /\ Head(toAgg).kind = "done" /\ ~loader.failed
        /\ Flush(pending) /\ AggVarsOnly /\ agg' = [agg EXCEPT !.pc = "ts_final"]
        /\ UNCHANGED <<month, seen>>
    BY <1>2 DEF FinalFlush, Received
  <2>2. ~agg.active /\ pending \in [File -> Row]
    BY <2>1, AggFacts, DoneWhenShut
  <2>3. agg'.active = agg.active /\ agg'.file = agg.file
    BY <1>0, <2>1
  <2>4. Flushes
    BY <1>2, <2>1, <2>2, <2>3, FinalFlushAdvances, FlushFlushes
  <2> QED
    BY <2>1, <2>4 DEF Flush
<1>3. ASSUME NEW i \in 1..MaxLines, MonthBoundary(i)
      PROVE  /\ Flushes /\ dbSeen' = Later(dbSeen, seen)
             /\ UNCHANGED <<dbMonth, complete, lastLog, month, seen>>
  <2>1. /\ agg.pc = "entries" /\ i \in Kept(agg.file, agg.at, agg.hi)
        /\ Flush(WithPartial(i - 1)) /\ agg' = [agg EXCEPT !.pc = "ts_month"] /\ AggVarsOnly
        /\ UNCHANGED <<month, seen>>
    BY <1>3 DEF MonthBoundary, NextEntry
  <2>2. /\ agg.active /\ agg.file \in File /\ agg.at \in Nat
        /\ i - 1 \in Nat /\ agg.at - 1 <= i - 1
    <3>1. agg.active /\ agg.file \in File /\ agg.at \in Nat
      BY <2>1, AggFacts
    <3>2. agg.at <= i
      BY <2>1, <3>1, NextEntryFacts
    <3> QED
      BY <3>1, <3>2
  <2>3. agg'.active = agg.active /\ agg'.file = agg.file /\ agg'.at = agg.at
    BY <1>0, <2>1
  <2> DEFINE pend == WithPartial(i - 1)
  <2>4. /\ pend \in [File -> Row] /\ pend[agg.file].offset = i - 1 /\ pend[agg.file].known
        /\ \A f \in File : f # agg.file => pend[f] = pending[f]
    BY <2>2, AggFacts, LoaderFacts DEF WithPartial, RowOf, Row
  <2>5. Flush(pend)
    BY <2>1
  <2> HIDE DEF pend
  <2>6. \A f \in File : ~(agg.active /\ f = agg.file) => pend[f] = pending[f]
    BY <2>2, <2>4
  <2>7. /\ agg'.at - 1 <= pend[agg.file].offset /\ Kept(agg.file, agg.at, agg'.at - 1) = {}
        /\ agg'.at \in Nat /\ agg.at <= agg'.at
    BY <2>2, <2>3, <2>4 DEF Kept
  <2>8. Flushes
    BY <1>3, <2>1, <2>2, <2>3, <2>4, <2>5, <2>6, <2>7, MonthBoundaryAdvances, FlushFlushes
  <2> QED
    BY <2>1, <2>5, <2>8 DEF Flush
<1> QED
  BY <1>1, <1>2, <1>3


-----------------------------------------------------------------------------
(* Every step that leaves the files alone reads, flushes or stops.         *)

\* The end of a run: what was not committed is forgotten.
Stops ==
  /\ Stop
  /\ UNCHANGED <<log, count, stored, dbMonth, complete, dbSeen>>
  /\ \/ lastLog' = lastLog
     \/ agg.pc = "ts_final" /\ lastLog' = Later(lastLog, seen)

LEMMA StoppedFacts ==
  ASSUME Stops
  PROVE  /\ log' = log /\ stored' = stored
         /\ \A f \in File : Reached(f)' = stored[f].offset /\ NextOffset(f)' = stored[f].offset
         /\ \A f \in File, i \in 1..MaxLines : acc'[f][i] = 0
         /\ agg' = IdleAgg /\ pending' = NoPending /\ mode' = "idle" /\ seen' = 0 /\ month' = NoMonth
<1>1. /\ log' = log /\ stored' = stored /\ acc' = NoCount /\ pending' = NoPending
      /\ agg' = IdleAgg /\ mode' = "idle" /\ seen' = 0 /\ month' = NoMonth
  BY DEF Stops, Stop
<1>2. \A f \in File : Reached(f)' = stored[f].offset /\ NextOffset(f)' = stored[f].offset
  BY <1>1 DEF Reached, NextOffset, NoPending, NoRow, IdleAgg
<1>3. \A f \in File, i \in 1..MaxLines : acc'[f][i] = 0
  BY <1>1 DEF NoCount
<1> QED
  BY <1>1, <1>2, <1>3

\* The other threads, and the start of a run, leave the positions alone.
LEMMA FrameReads ==
  ASSUME IInv, OffsetsOK, UNCHANGED <<log, stored, agg, acc, pending>>
  PROVE  Reads /\ \A f \in File : Reached(f)' = Reached(f) /\ NextOffset(f)' = NextOffset(f)
<1>1. \A f \in File : Reached(f)' = Reached(f) /\ NextOffset(f)' = NextOffset(f)
  BY DEF Reached, NextOffset
<1>2. \A f \in File : Reached(f) \in Nat
  BY ReachedFacts
<1> QED
  BY <1>1, <1>2 DEF Reads

LEMMA ThreadFrame ==
  ASSUME LoaderStep \/ LoaderError \/ ParserStep
  PROVE  UNCHANGED <<log, count, stored, dbMonth, complete, dbSeen, lastLog, mode, plan, skipped,
                     agg, acc, pending, month, seen>>
<1>1. CASE LoaderStep \/ LoaderError
  BY <1>1 DEF LoaderStep, LoaderFileStart, LoaderLines, LoaderFileDone, LoaderDone, LoaderError,
              LoaderVarsOnly, dbVars, runVars, aggVars
<1>2. CASE ParserStep
  BY <1>2 DEF ParserStep, ParserFileStart, ParserTakeLines, ParseLine, ParseLineFull,
              ParserFlushBatch, ParserFileDone, ParserDone, ParserVarsOnly, dbVars, runVars,
              aggVars
<1> QED
  BY <1>1, <1>2

LEMMA StopStops ==
  ASSUME EndRun \/ AbortRun \/ Crash
  PROVE  Stops
<1>1. CASE EndRun
  BY <1>1 DEF EndRun, Stops
<1>2. CASE AbortRun
  BY <1>2 DEF AbortRun, Stops, dbVars
<1>3. CASE Crash
  BY <1>3 DEF Crash, Stops, dbVars
<1> QED
  BY <1>1, <1>2, <1>3

Control ==
  SetLastLogTs \/ FinalizeMonth \/ NoCheckpoint \/ \E i \in 1..MaxLines : AdvanceMonth(i)

LEMMA AggKinds ==
  ASSUME AggStep
  PROVE  \/ AggFileStart \/ AggEntries \/ AggFileDone \/ Control
         \/ \E i \in 1..MaxLines : AggregateEntry(i)
         \/ Checkpoint \/ FinalFlush \/ \E i \in 1..MaxLines : MonthBoundary(i)
         \/ EndRun \/ AbortRun
BY DEF AggStep, Control

LEMMA AppendedTo ==
  ASSUME \E a \in Appendable : AppendLine(a[1], a[2])
  PROVE  \E f \in File, t \in Stamps \cup {Dropped} : <<f, t>> \in Appendable /\ AppendLine(f, t)
<1>1. PICK a \in Appendable : AppendLine(a[1], a[2])
  OBVIOUS
<1>2. a[1] \in File /\ a[2] \in Stamps \cup {Dropped} /\ a = <<a[1], a[2]>>
  BY <1>1, StampsAssumption
<1> QED
  BY <1>1, <1>2

LEMMA Kinds ==
  ASSUME IInv, GapInv, OffsetsOK, SegmentInv, [Next]_vars
  PROVE  \/ Reads \/ Flushes \/ Stops
         \/ \E f \in File, t \in Stamps \cup {Dropped} : <<f, t>> \in Appendable /\ AppendLine(f, t)
<1>1. CASE UNCHANGED vars \/ EmptyRun \/ StartRun
  <2>1. UNCHANGED <<log, stored, agg, acc, pending>>
    BY <1>1 DEF EmptyRun, StartRun, vars, dbVars, aggVars
  <2> QED
    BY <2>1, FrameReads
<1>2. CASE LoaderStep \/ LoaderError \/ ParserStep
  BY <1>2, ThreadFrame, FrameReads
<1>3. CASE AggStep
  <2>1. Control => Reads
    BY ControlReads DEF Control
  <2>2. AggFileStart \/ AggEntries \/ AggFileDone \/ (\E i \in 1..MaxLines : AggregateEntry(i))
          => Reads
    BY AggFileStartReads, AggEntriesReads, AggFileDoneReads, AggregateEntryReads
  <2> QED
    BY <1>3, <2>1, <2>2, AggKinds, StepFlushes, StopStops
<1>4. CASE Crash
  BY <1>4, StopStops
<1>5. CASE \E a \in Appendable : AppendLine(a[1], a[2])
  BY <1>5, AppendedTo
<1> QED
  BY <1>1, <1>2, <1>3, <1>4, <1>5 DEF Next

-----------------------------------------------------------------------------
(* What waits in the accumulators, and what is still to come.              *)

LEMMA FreshNext ==
  ASSUME IInv, IInv', FullInv, FullInv', FreshInv, [Next]_vars
  PROVE  FreshInv'
<1>0. GapInv /\ OffsetsOK /\ SegmentInv /\ OffsetsOK'
  BY DEF FullInv
<1>1. WithinFiles /\ WithinFiles'
  BY <1>0, ReachedBefore, ReachedAfter
<1>2. CASE Reads
  <2> SUFFICES ASSUME NEW f \in File, NEW i \in 1..Reached(f)', stored'[f].offset < i,
                      log'[f][i] # Dropped
               PROVE  acc'[f][i] > 0
    BY DEF FreshInv
  <2>1. /\ i \in 1..MaxLines /\ i <= Reached(f)' /\ Reached(f) \in Nat
        /\ stored[f].offset < i /\ log[f][i] # Dropped
    <3>1. Reached(f)' \in Nat /\ Reached(f)' <= Len(log'[f]) /\ Reached(f) \in Nat
          /\ Len(log'[f]) \in Nat /\ Len(log'[f]) <= MaxLines
      BY <1>1 DEF WithinFiles
    <3>2. i \in 1..MaxLines
      BY <3>1, SizesAssumption
    <3> QED
      BY <1>2, <3>1, <3>2 DEF Reads
  <2>2. CASE i <= Reached(f)
    BY <1>2, <2>1, <2>2 DEF FreshInv, Reads
  <2>3. CASE Reached(f) < i
    BY <1>2, <2>1, <2>3 DEF Reads
  <2> QED
    BY <2>1, <2>2, <2>3
<1>3. CASE Flushes
  <2> SUFFICES ASSUME NEW f \in File, NEW i \in 1..Reached(f)', stored'[f].offset < i
               PROVE  FALSE
    BY DEF FreshInv
  <2>1. Reached(f)' \in Nat /\ stored'[f].offset \in Nat /\ Reached(f)' <= stored'[f].offset
    BY <1>1, <1>3 DEF WithinFiles, Flushes
  <2> QED
    BY <2>1
<1>4. CASE Stops
  <2> SUFFICES ASSUME NEW f \in File, NEW i \in 1..Reached(f)', stored'[f].offset < i
               PROVE  FALSE
    BY DEF FreshInv
  <2>1. Reached(f)' \in Nat /\ Reached(f)' = stored'[f].offset
    BY <1>1, <1>4, StoppedFacts DEF WithinFiles
  <2> QED
    BY <2>1
<1>5. ASSUME NEW g \in File, NEW t \in Stamps \cup {Dropped}, AppendLine(g, t)
      PROVE  FreshInv'
  <2>1. UNCHANGED <<stored, agg, acc, pending>>
    BY <1>5, AppendedLine
  <2>2. \A f \in File : Reached(f)' = Reached(f)
    BY <2>1 DEF Reached, NextOffset
  <2>3. \A f \in File : \A i \in 1..Reached(f) : log'[f][i] = log[f][i]
    <3> SUFFICES ASSUME NEW f \in File, NEW i \in 1..Reached(f) PROVE log'[f][i] = log[f][i]
      OBVIOUS
    <3>1. i \in 1..Len(log[f])
      BY <1>1 DEF WithinFiles
    <3> QED
      BY <1>5, <3>1, AppendedLine
  <2> QED
    BY <2>1, <2>2, <2>3 DEF FreshInv
<1> QED
  BY <1>0, <1>2, <1>3, <1>4, <1>5, Kinds

\* Nothing comes anew but from the web server.
LEMMA StaysOpen ==
  ASSUME IInv, OffsetsOK, IInv', OffsetsOK', FreshInv, Reads \/ Flushes \/ Stops,
         NEW f \in File, NEW i \in 1..Len(log[f]), Open(f, i)'
  PROVE  log' = log /\ Open(f, i)
<1>1. WithinFiles /\ WithinFiles'
  BY ReachedBefore, ReachedAfter
<1>2. log' = log
  BY DEF Reads, Flushes, Stops
<1>3. i \in 1..MaxLines /\ i \in Nat /\ Reached(f) \in Nat /\ Reached(f)' \in Nat
  BY <1>1, SizesAssumption DEF WithinFiles
<1>4. log[f][i] # Dropped /\ (Reached(f)' < i \/ acc'[f][i] > 0)
  BY <1>2 DEF Open
<1>5. CASE Reads
  BY <1>3, <1>4, <1>5 DEF Reads, Open
<1>6. CASE Flushes
  <2>1. Reached(f) <= Reached(f)' /\ acc'[f][i] = 0
    BY <1>3, <1>6 DEF Flushes, NoCount
  <2> QED
    BY <1>2, <1>3, <1>4, <2>1 DEF Open
<1>7. CASE Stops
  <2>1. stored[f].offset < i
    BY <1>3, <1>4, <1>7, StoppedFacts
  <2>2. CASE i <= Reached(f)
    <3>1. acc[f][i] > 0
      BY <1>3, <1>4, <2>1, <2>2 DEF FreshInv
    <3> QED
      BY <1>2, <1>4, <3>1 DEF Open
  <2>3. CASE Reached(f) < i
    BY <1>2, <1>4, <2>3 DEF Open
  <2> QED
    BY <1>3, <2>2, <2>3
<1> QED
  BY <1>2, <1>5, <1>6, <1>7


-----------------------------------------------------------------------------
(* Exhausted files stay exhausted.                                         *)

LEMMA ExhaustedMore ==
  ASSUME NEW s, NEW n \in Nat, NEW k \in Nat, n <= k, Len(s) \in Nat, Exhausted(s, n)
  PROVE  Exhausted(s, k)
BY DEF Exhausted

LEMMA LineType ==
  ASSUME IInv, NEW f \in File, NEW i \in 1..Len(log[f])
  PROVE  /\ log[f][i] \in Nat /\ log[f][i] \in Stamps \cup {Dropped}
         /\ log[f][i] # Dropped =>
              log[f][i] \in Stamps /\ MonthOf[log[f][i]] \in Nat /\ MonthOf[log[f][i]] # NoMonth
<1>1. log[f] \in Seq(Stamps \cup {Dropped})
  BY DEF IInv, TypeOK, LogType, IsLog
<1>2. log[f][i] \in Stamps \cup {Dropped}
  BY <1>1
<1>3. \A x \in Stamps : x \in Nat /\ MonthOf[x] \in Nat /\ MonthOf[x] # NoMonth
  BY StampsAssumption
<1>4. Dropped \in Nat
  BY DEF Dropped
<1> QED
  BY <1>2, <1>3, <1>4

\* What a line more changes.
LEMMA NewLine ==
  ASSUME IInv, NEW f \in File, NEW t \in Stamps \cup {Dropped}, AppendLine(f, t)
  PROVE  /\ \A g \in File : \A i \in 1..Len(log'[g]) :
              \/ i \in 1..Len(log[g]) /\ log'[g][i] = log[g][i]
              \/ g = f /\ i = Len(log[f]) + 1 /\ log'[g][i] = t
         /\ t # Dropped => \A i \in 1..Len(log[f]) : log[f][i] <= t
<1>1. log' = [log EXCEPT ![f] = Append(@, t)] /\ DOMAIN log = File
  BY DEF AppendLine, IInv, TypeOK, LogType
<1>2. \A g \in File : log[g] \in Seq(Stamps \cup {Dropped})
  BY DEF IInv, TypeOK, LogType, IsLog
<1>3. ASSUME NEW g \in File, NEW i \in 1..Len(log'[g])
      PROVE  \/ i \in 1..Len(log[g]) /\ log'[g][i] = log[g][i]
             \/ g = f /\ i = Len(log[f]) + 1 /\ log'[g][i] = t
  <2>1. CASE g # f
    BY <1>1, <2>1
  <2>2. CASE g = f
    <3>1. log'[g] = Append(log[f], t) /\ log[f] \in Seq(Stamps \cup {Dropped})
      BY <1>1, <1>2, <2>2
    <3>2. /\ Len(Append(log[f], t)) = Len(log[f]) + 1 /\ Len(log[f]) \in Nat
          /\ \A j \in 1..Len(log[f]) : Append(log[f], t)[j] = log[f][j]
          /\ Append(log[f], t)[Len(log[f]) + 1] = t
      BY <3>1
    <3> QED
      BY <2>2, <3>1, <3>2
  <2> QED
    BY <2>1, <2>2
<1> QED
  BY <1>3 DEF AppendLine

LEMMA BehindStays ==
  ASSUME LogsInTurn, IInv, NEW g \in File, NEW t \in Stamps \cup {Dropped},
         <<g, t>> \in Appendable, AppendLine(g, t)
  PROVE  \A f \in File : \A n : f < NFiles /\ Exhausted(log[f], n) => Exhausted(log'[f], n)
<1> SUFFICES ASSUME NEW f \in File, NEW n, f < NFiles, Exhausted(log[f], n),
                    NEW i \in 1..Len(log'[f]), log'[f][i] # Dropped
             PROVE  i <= n
  BY DEF Exhausted
<1>1. t # Dropped => g = NFiles
  BY DEF LogsInTurn
<1>2. NFiles \in Nat /\ f \in Nat
  BY SizesAssumption DEF File
<1>3. i \in 1..Len(log[f]) /\ log'[f][i] = log[f][i]
  BY <1>1, <1>2, NewLine
<1> QED
  BY <1>3 DEF Exhausted

LEMMA ChronologicalNext ==
  ASSUME LogsInTurn, IInv, OrderInv, NEW h \in File, NEW t \in Stamps \cup {Dropped},
         <<h, t>> \in Appendable, AppendLine(h, t)
  PROVE  Chronological(log)' /\ \E i \in 1..Len(log'[NFiles]) : log'[NFiles][i] # Dropped
<1>1. NFiles \in File /\ NFiles \in Nat /\ \A f \in File : f \in Nat /\ f <= NFiles
  BY SizesAssumption DEF File
<1>2. PICK k \in 1..Len(log[NFiles]) : log[NFiles][k] # Dropped
  BY DEF OrderInv
<1>3. k \in 1..Len(log'[NFiles]) /\ log'[NFiles][k] = log[NFiles][k]
  <2>1. /\ Len(log[NFiles]) \in Nat /\ Len(log'[NFiles]) \in Nat
        /\ Len(log[NFiles]) <= Len(log'[NFiles]) /\ log'[NFiles][k] = log[NFiles][k]
    BY <1>1, AppendedLine
  <2> QED
    BY <2>1
<1>4. t # Dropped => h = NFiles
  BY DEF LogsInTurn
<1>5. \A f \in File : Len(log[f]) \in Nat
  BY LoaderFacts
<1>6. ASSUME NEW f \in File, NEW g \in File, NEW i \in 1..Len(log'[f]), NEW j \in 1..Len(log'[g]),
             log'[f][i] # Dropped, log'[g][j] # Dropped, f < g \/ (f = g /\ i < j)
      PROVE  log'[f][i] <= log'[g][j]
  <2>1. /\ \/ i \in 1..Len(log[f]) /\ log'[f][i] = log[f][i]
           \/ f = h /\ i = Len(log[h]) + 1 /\ log'[f][i] = t
        /\ \/ j \in 1..Len(log[g]) /\ log'[g][j] = log[g][j]
           \/ g = h /\ j = Len(log[h]) + 1 /\ log'[g][j] = t
        /\ t # Dropped => \A n \in 1..Len(log[h]) : log[h][n] <= t
    BY NewLine
  <2>2. CASE g = h /\ j = Len(log[h]) + 1 /\ log'[g][j] = t
    <3>1. h = NFiles /\ i \in 1..Len(log[f]) /\ log'[f][i] = log[f][i]
      BY <1>1, <1>4, <1>5, <1>6, <2>1, <2>2
    <3>2. CASE f = h
      <4>1. t # Dropped /\ i \in 1..Len(log[h]) /\ log'[f][i] = log[h][i]
        BY <1>6, <2>2, <3>1, <3>2
      <4> QED
        BY <2>1, <2>2, <4>1
    <3>3. CASE f < NFiles
      <4>1. log[f][i] <= log[NFiles][k]
        BY <1>1, <1>2, <1>6, <3>1, <3>3 DEF OrderInv, Chronological
      <4>2. log[NFiles][k] <= t
        BY <1>6, <2>1, <2>2, <3>1
      <4>3. log[f][i] \in Nat /\ log[NFiles][k] \in Nat /\ t \in Nat
        <5>1. log[f][i] \in Nat
          BY <3>1, LineType
        <5>2. log[NFiles][k] \in Nat
          BY <1>1, LineType
        <5>3. t \in Nat
          BY StampsAssumption DEF Dropped
        <5> QED
          BY <5>1, <5>2, <5>3
      <4> QED
        BY <2>2, <3>1, <4>1, <4>2, <4>3
    <3>4. f = NFiles \/ f < NFiles
      BY <1>1
    <3> QED
      BY <3>1, <3>2, <3>3, <3>4
  <2>3. CASE j \in 1..Len(log[g]) /\ log'[g][j] = log[g][j]
    <3>1. i \in 1..Len(log[f]) /\ log'[f][i] = log[f][i]
      BY <1>1, <1>4, <1>5, <1>6, <2>1, <2>3
    <3> QED
      BY <1>6, <2>3, <3>1 DEF OrderInv, Chronological
  <2> QED
    BY <2>1, <2>2, <2>3
<1> QED
  BY <1>2, <1>3, <1>6 DEF Chronological


LEMMA FileFacts == /\ NFiles \in File /\ NFiles \in Nat
                   /\ \A f \in File : f \in Nat /\ 1 <= f /\ f <= NFiles
BY SizesAssumption DEF File

-----------------------------------------------------------------------------
(* The files before the one the aggregator is at.                          *)

\* A step that does not touch the position of the aggregator.
LEMMA PassedKeep ==
  ASSUME PassedInv, UNCHANGED <<log, stored, pending, mode>>,
         agg'.file = agg.file, agg'.active = agg.active
  PROVE  PassedInv'
<1>1. \A f \in File : NextOffset(f)' = NextOffset(f)
  BY DEF NextOffset
<1> QED
  BY <1>1 DEF PassedInv, NoneBehind

LEMMA PassedFileStart ==
  ASSUME IInv, FullInv, OrderInv, AggFileStart
  PROVE  PassedInv'
<1>0. IInv /\ GapInv /\ OffsetsOK /\ SegmentInv /\ PassedInv
  BY DEF FullInv, OrderInv
<1> DEFINE m == Head(toAgg)
<1>1. /\ toAgg # <<>> /\ agg'.active /\ ~agg.active /\ agg.file < agg'.file
      /\ agg'.file = m.file /\ m.kind = "start" /\ agg'.file \in File
      /\ UNCHANGED <<stored, pending, log>> /\ mode = "running"
  BY <1>0, AggFileStartReads, ToAggHead, AggUnchanged DEF AggFileStart, Received, dbVars
<1>2. m = toAgg[1]
  BY <1>1 DEF IInv, TypeOK, ChannelType
<1>3. NoneSkipped(agg.file, m)
  BY <1>1, <1>2 DEF OrderInv, StreamInv, InTurn
<1> HIDE DEF m
<1>4. ASSUME NEW f \in File, f < NFiles, f < agg'.file
      PROVE  Exhausted(log[f], NextOffset(f))
  <2>0. agg.file \in Nat /\ f \in Nat /\ agg.file \in 0..NFiles
    BY FileFacts, AggFacts
  <2>1. CASE agg.file < f
    <3>1. ~pending[f].known /\ plan[f].offset = stored[f].offset
      BY <1>0, <1>1, <2>1 DEF OffsetsOK
    <3>2. Exhausted(log[f], plan[f].offset)
      BY <1>1, <1>3, <1>4, <2>1 DEF NoneSkipped, NoneBehind
    <3> QED
      BY <3>1, <3>2 DEF NextOffset
  <2>2. CASE f <= agg.file
    <3>1. f < agg.file \/ f = agg.file
      BY <2>0, <2>2
    <3> QED
      BY <1>0, <1>1, <1>4, <3>1 DEF PassedInv, NoneBehind
  <2> QED
    BY <2>0, <2>1, <2>2
<1>5. \A f \in File : NextOffset(f)' = NextOffset(f)
  BY <1>1 DEF NextOffset
<1> QED
  BY <1>1, <1>4, <1>5 DEF PassedInv, NoneBehind

LEMMA PassedFileDone ==
  ASSUME IInv, FullInv, OrderInv, AggFileDone
  PROVE  PassedInv'
<1>0. IInv /\ GapInv /\ OffsetsOK /\ SegmentInv /\ PassedInv
  BY DEF FullInv, OrderInv
<1> DEFINE m == Head(toAgg)
<1>1. /\ toAgg # <<>> /\ ~agg'.active /\ agg.active /\ agg'.file = agg.file /\ agg.file \in File
      /\ m.file = agg.file /\ m.kind = "fdone"
      /\ \A f \in File : f # agg.file => pending'[f] = pending[f]
      /\ pending'[agg.file].known /\ pending'[agg.file].offset = m.off
      /\ UNCHANGED <<stored, log>> /\ mode = "running"
  BY <1>0, AggFileDoneReads, ToAggHead, AggUnchanged DEF AggFileDone, Received, dbVars
<1>2. m = toAgg[1]
  BY <1>1 DEF IInv, TypeOK, ChannelType
<1>3. NoneSkipped(agg.file, m)
  BY <1>1, <1>2 DEF OrderInv, StreamInv, InTurn
<1> HIDE DEF m
<1>4. ASSUME NEW f \in File, f < NFiles, f < agg'.file \/ f = agg'.file
      PROVE  Exhausted(log[f], NextOffset(f)')
  <2>1. CASE f = agg.file
    <3>1. Exhausted(log[f], m.off)
      BY <1>1, <1>3, <1>4, <2>1 DEF NoneSkipped, NoneBehind
    <3> QED
      BY <1>1, <2>1, <3>1 DEF NextOffset
  <2>2. CASE f # agg.file
    <3>1. NextOffset(f)' = NextOffset(f)
      BY <1>1, <2>2 DEF NextOffset
    <3> QED
      BY <1>0, <1>1, <1>4, <2>2, <3>1 DEF PassedInv, NoneBehind
  <2> QED
    BY <2>1, <2>2
<1> QED
  BY <1>1, <1>4 DEF PassedInv, NoneBehind

LEMMA PassedFlush ==
  ASSUME PassedInv, Flushes, mode' = mode
  PROVE  PassedInv'
<1>1. \A f \in File : NextOffset(f)' = stored'[f].offset
  BY DEF Flushes, NextOffset, NoPending, NoRow
<1>2. ASSUME NEW f \in File, mode = "running", f < NFiles,
             f < agg.file \/ (f = agg.file /\ ~agg.active)
      PROVE  Exhausted(log[f], NextOffset(f)')
  <2>1. CASE agg.active /\ f = agg.file
    <3>1. FALSE \/ (f < agg.file /\ f = agg.file)
      BY <1>2, <2>1
    <3>2. f \in Int
      BY FileFacts
    <3> QED
      BY <3>1, <3>2
  <2>2. CASE ~(agg.active /\ f = agg.file)
    <3>1. stored'[f].offset = NextOffset(f)
      BY <2>2 DEF Flushes
    <3> QED
      BY <1>1, <1>2, <3>1 DEF PassedInv, NoneBehind
  <2> QED
    BY <2>1, <2>2
<1> QED
  BY <1>2 DEF PassedInv, NoneBehind, Flushes

LEMMA PassedNext ==
  ASSUME LogsInTurn, IInv, FullInv, OrderInv, [Next]_vars
  PROVE  PassedInv'
<1>0. IInv /\ GapInv /\ OffsetsOK /\ SegmentInv /\ PassedInv
  BY DEF FullInv, OrderInv
<1>1. CASE UNCHANGED vars \/ EmptyRun
  <2>1. UNCHANGED <<log, stored, pending, mode, agg>>
    BY <1>1 DEF EmptyRun, vars, dbVars, runVars, aggVars
  <2> QED
    BY <1>0, <2>1, PassedKeep
<1>2. CASE StartRun
  <2>1. agg' = IdleAgg
    BY <1>2 DEF StartRun, IInv, QuietWhenIdle
  <2>2. \A f \in File : ~(f < 0) /\ f # 0
    BY FileFacts
  <2> QED
    BY <2>1, <2>2 DEF PassedInv, IdleAgg, NoFile
<1>3. CASE LoaderStep \/ LoaderError \/ ParserStep
  BY <1>0, <1>3, ThreadFrame, PassedKeep
<1>4. CASE AggStep
  <2>1. CASE AggFileStart
    BY <2>1, PassedFileStart
  <2>2. CASE AggFileDone
    BY <2>2, PassedFileDone
  <2>3. CASE AggEntries
    <3>1. UNCHANGED <<stored, pending>> /\ AggVarsOnly
      BY <2>3 DEF AggEntries, dbVars
    <3> QED
      BY <1>0, <2>3, <3>1, AggEntriesReads, AggUnchanged, PassedKeep
  <2>4. CASE \E i \in 1..MaxLines : AggregateEntry(i)
    <3>1. PICK i \in 1..MaxLines : AggregateEntry(i)
      BY <2>4
    <3>2. UNCHANGED <<stored, pending>> /\ AggVarsOnly /\ agg' = [agg EXCEPT !.at = i + 1]
      BY <3>1 DEF AggregateEntry
    <3>3. agg'.active = agg.active /\ agg'.file = agg.file
      BY <3>2, AggFacts
    <3> QED
      BY <1>0, <3>2, <3>3, AggUnchanged, PassedKeep
  <2>5. CASE Control
    <3>1. UNCHANGED <<stored, pending>> /\ AggVarsOnly
      BY <2>5 DEF Control, SetLastLogTs, FinalizeMonth, NoCheckpoint, AdvanceMonth, dbVars
    <3>2. agg'.active = agg.active /\ agg'.file = agg.file
      BY <1>0, <2>5, ControlReads DEF Control
    <3> QED
      BY <1>0, <3>1, <3>2, AggUnchanged, PassedKeep
  <2>6. CASE Checkpoint \/ FinalFlush \/ \E i \in 1..MaxLines : MonthBoundary(i)
    <3>1. mode' = mode
      BY <2>6 DEF Checkpoint, FinalFlush, MonthBoundary, AggVarsOnly, runVars
    <3> QED
      BY <1>0, <2>6, <3>1, StepFlushes, PassedFlush
  <2>7. CASE EndRun \/ AbortRun
    BY <2>7, StopStops, StoppedFacts DEF PassedInv
  <2> QED
    BY <1>4, <2>1, <2>2, <2>3, <2>4, <2>5, <2>6, <2>7, AggKinds
<1>5. CASE Crash
  BY <1>5, StopStops, StoppedFacts DEF PassedInv
<1>6. CASE \E a \in Appendable : AppendLine(a[1], a[2])
  <2>1. PICK g \in File, t \in Stamps \cup {Dropped} : <<g, t>> \in Appendable /\ AppendLine(g, t)
    BY <1>6, AppendedTo
  <2>2. UNCHANGED <<stored, pending, mode, agg>>
    BY <2>1, AppendedLine
  <2>3. \A f \in File : NextOffset(f)' = NextOffset(f)
    BY <2>2 DEF NextOffset
  <2> QED
    BY <1>0, <2>1, <2>2, <2>3, BehindStays DEF PassedInv, NoneBehind
<1> QED
  BY <1>1, <1>2, <1>3, <1>4, <1>5, <1>6 DEF Next

-----------------------------------------------------------------------------
(* The files before one with a row.                                        *)

LEMMA RowsNext ==
  ASSUME LogsInTurn, IInv, IInv', FullInv, FullInv', OrderInv, [Next]_vars
  PROVE  RowsInv'
<1>0. IInv /\ GapInv /\ OffsetsOK /\ SegmentInv /\ OffsetsOK' /\ PassedInv /\ RowsInv
  BY DEF FullInv, OrderInv
<1>1. WithinFiles /\ WithinFiles'
  BY <1>0, ReachedBefore, ReachedAfter
<1>2. CASE Reads
  <2> SUFFICES ASSUME NEW f \in File, NEW g \in File, f < g, stored[g].known
               PROVE  Exhausted(log[f], stored[f].offset) /\ Exhausted(log[f], Reached(f)')
    BY <1>2 DEF RowsInv, NoneBehind, Reads
  <2>1. Exhausted(log[f], stored[f].offset) /\ Exhausted(log[f], Reached(f))
    BY <1>0 DEF RowsInv, NoneBehind
  <2>2. Reached(f) <= Reached(f)' /\ Reached(f) \in Nat /\ Reached(f)' \in Nat /\ Len(log[f]) \in Nat
    BY <1>1, <1>2 DEF Reads, WithinFiles
  <2> QED
    BY <2>1, <2>2, ExhaustedMore
<1>3. CASE Flushes
  <2> SUFFICES ASSUME NEW f \in File, NEW g \in File, f < g, stored'[g].known
               PROVE  Exhausted(log[f], stored'[f].offset) /\ Exhausted(log[f], Reached(f)')
    BY <1>3 DEF RowsInv, NoneBehind, Flushes
  <2>0. /\ Reached(f) <= Reached(f)' /\ Reached(f)' <= stored'[f].offset
        /\ Reached(f) \in Nat /\ Reached(f)' \in Nat /\ stored'[f].offset \in Nat
        /\ Len(log[f]) \in Nat /\ f \in Nat /\ g \in Nat /\ f < NFiles
        /\ agg.file \in 0..NFiles
    BY <1>1, <1>3, FileFacts, AggFacts DEF Flushes, WithinFiles
  <2>1. CASE stored[g].known
    <3>1. Exhausted(log[f], Reached(f))
      BY <1>0, <2>1 DEF RowsInv, NoneBehind
    <3> QED
      BY <2>0, <3>1, ExhaustedMore
  <2>2. CASE pending[g].known \/ (agg.active /\ g = agg.file)
    <3>1. g <= agg.file
      <4>1. CASE agg.file < g
        <5>1. pending[g].known
          BY <2>0, <2>2, <4>1
        <5>2. mode = "running"
          BY <1>0, <5>1 DEF IInv, QuietWhenIdle, NoPending, NoRow, TypeOK, RunType
        <5> QED
          BY <1>0, <4>1, <5>1, <5>2 DEF OffsetsOK
      <4> QED
        BY <2>0, <4>1
    <3>2. f < agg.file /\ mode = "running"
      <4>1. f < agg.file /\ agg.file # 0
        BY <2>0, <3>1
      <4>2. agg # IdleAgg
        BY <4>1 DEF IdleAgg, NoFile
      <4> QED
        BY <4>1, <4>2, Running
    <3>3. Exhausted(log[f], NextOffset(f))
      BY <1>0, <2>0, <3>2 DEF PassedInv, NoneBehind
    <3>4. stored'[f].offset = NextOffset(f)
      BY <1>3, <2>0, <3>2 DEF Flushes
    <3>5. Reached(f)' = NextOffset(f)' /\ NextOffset(f)' = stored'[f].offset
      <4>1. f # agg'.file
        BY <1>3, <2>0, <3>2 DEF Flushes
      <4> QED
        BY <1>3, <4>1 DEF Flushes, Reached, NextOffset, NoPending, NoRow
    <3> QED
      BY <3>3, <3>4, <3>5
  <2> QED
    BY <1>3, <2>1, <2>2 DEF Flushes
<1>4. CASE Stops
  BY <1>0, <1>4, StoppedFacts DEF RowsInv, NoneBehind
<1>5. ASSUME NEW h \in File, NEW t \in Stamps \cup {Dropped}, <<h, t>> \in Appendable,
             AppendLine(h, t)
      PROVE  RowsInv'
  <2>1. UNCHANGED <<stored, agg, acc, pending>>
    BY <1>5, AppendedLine
  <2>2. \A f \in File : Reached(f)' = Reached(f)
    BY <2>1 DEF Reached, NextOffset
  <2>3. \A f, g \in File : f < g => f < NFiles
    BY FileFacts
  <2> QED
    BY <1>0, <1>5, <2>1, <2>2, <2>3, BehindStays DEF RowsInv, NoneBehind
<1> QED
  BY <1>0, <1>2, <1>3, <1>4, <1>5, Kinds


-----------------------------------------------------------------------------
(* The greatest time stamps.                                               *)

LEMMA SeenKeep ==
  ASSUME SeenInv, UNCHANGED <<log, stored, lastLog, dbSeen, seen>>,
         \A g \in File : NotReadFrom(g)' => NotReadFrom(g),
         agg'.pc \in {"ts_checkpoint", "ts_month", "ts_final"} =>
           pending' = NoPending /\ (agg'.active => stored[agg'.file].known)
  PROVE  SeenInv'
<1>1. \A g \in File : NoRowFrom(g)' <=> NoRowFrom(g)
  BY DEF NoRowFrom
<1> QED
  BY <1>1 DEF SeenInv

\* After a flush the database knows every file that was read.
LEMMA KnownWhenRead ==
  ASSUME IInv, SeenInv, agg.pc \in {"ts_checkpoint", "ts_month", "ts_final"},
         NEW g \in File, NoRowFrom(g)
  PROVE  NotReadFrom(g)
<1>1. pending = NoPending /\ (agg.active => stored[agg.file].known /\ agg.file \in File)
  BY AggFacts DEF SeenInv
<1>2. \A h \in File : ~pending[h].known
  BY <1>1 DEF NoPending, NoRow
<1>3. \A h \in File : g <= h => ~(agg.active /\ agg.file = h)
  BY <1>1 DEF NoRowFrom
<1> QED
  BY <1>2, <1>3 DEF NotReadFrom

LEMMA SeenFileStart ==
  ASSUME IInv, FullInv, SeenInv, AggFileStart
  PROVE  SeenInv'
<1>0. IInv /\ GapInv /\ OffsetsOK /\ SegmentInv
  BY DEF FullInv
<1>1. /\ ~agg.active /\ agg'.pc = "recv"
      /\ UNCHANGED <<log, stored, lastLog, dbSeen, seen, pending>>
  BY <1>0, AggFileStartReads, AggUnchanged DEF AggFileStart, dbVars
<1>2. \A g \in File : NotReadFrom(g)' => NotReadFrom(g)
  BY <1>1 DEF NotReadFrom, NoRowFrom
<1> QED
  BY <1>1, <1>2, SeenKeep

LEMMA SeenFileDone ==
  ASSUME IInv, FullInv, SeenInv, AggFileDone
  PROVE  SeenInv'
<1>0. IInv /\ GapInv /\ OffsetsOK /\ SegmentInv
  BY DEF FullInv
<1>1. /\ agg'.pc = "recv" /\ agg.file \in File
      /\ UNCHANGED <<log, stored, lastLog, dbSeen, seen>>
      /\ \A f \in File : f # agg.file => pending'[f] = pending[f]
      /\ pending'[agg.file].known
  BY <1>0, AggFileDoneReads, AggUnchanged DEF AggFileDone, dbVars
<1>2. ASSUME NEW g \in File, NotReadFrom(g)' PROVE NotReadFrom(g)
  <2>1. NoRowFrom(g) /\ \A h \in File : g <= h => ~pending'[h].known
    BY <1>1, <1>2 DEF NotReadFrom, NoRowFrom
  <2>2. ~(g <= agg.file)
    BY <1>1, <2>1
  <2>3. \A h \in File : g <= h => h # agg.file
    BY <2>2
  <2> QED
    BY <1>1, <2>1, <2>3 DEF NotReadFrom
<1> QED
  BY <1>1, <1>2, SeenKeep

LEMMA SeenEntry ==
  ASSUME IInv, FullInv, OrderInv, NEW k \in 1..MaxLines, AggregateEntry(k)
  PROVE  SeenInv'
<1>0. IInv /\ OffsetsOK /\ SegmentInv /\ SeenInv /\ Chronological(log)
  BY DEF FullInv, OrderInv
<1>1. /\ agg' = [agg EXCEPT !.at = k + 1] /\ agg.pc = "entries" /\ AggVarsOnly
      /\ seen' = Later(seen, log[agg.file][k]) /\ UNCHANGED <<stored, lastLog, dbSeen, pending>>
      /\ k \in Kept(agg.file, agg.at, agg.hi)
  BY DEF AggregateEntry, NextEntry
<1>2. agg.active /\ agg.file \in File /\ log' = log /\ seen \in Nat
  BY <1>1, AggFacts, AggUnchanged
<1>3. agg'.active = agg.active /\ agg'.file = agg.file /\ agg'.pc = "entries"
  BY <1>1, AggFacts
<1>4. log[agg.file][k] \in Nat /\ k \in 1..Len(log[agg.file]) /\ log[agg.file][k] # Dropped
  <2>1. k \in Nat /\ k <= Len(log[agg.file]) /\ log[agg.file][k] # Dropped
        /\ log[agg.file][k] \in Nat /\ Len(log[agg.file]) \in Nat
    BY <1>1, <1>2, NextEntryFacts, LoaderFacts
  <2> QED
    BY <2>1
<1>5. \A g \in File : NotReadFrom(g)' <=> NotReadFrom(g)
  BY <1>1, <1>3 DEF NotReadFrom, NoRowFrom
<1>6. \A g \in File : NoRowFrom(g)' <=> NoRowFrom(g)
  BY <1>1 DEF NoRowFrom
<1>7. ASSUME NEW g \in File, NEW i \in 1..Len(log[g]), log[g][i] # Dropped, NotReadFrom(g)
      PROVE  seen' <= log[g][i]
  <2>1. seen <= log[g][i] /\ log[g][i] \in Nat
    BY <1>0, <1>7, LineType DEF SeenInv
  <2>2. agg.file < g
    <3>1. ~(g <= agg.file)
      BY <1>2, <1>7 DEF NotReadFrom
    <3>2. agg.file \in Nat /\ g \in Nat
      BY <1>2, FileFacts
    <3> QED
      BY <3>1, <3>2
  <2>3. log[agg.file][k] <= log[g][i]
    BY <1>0, <1>2, <1>4, <1>7, <2>2 DEF Chronological
  <2> QED
    BY <1>1, <2>1, <2>3 DEF Later
<1> QED
  BY <1>0, <1>1, <1>2, <1>3, <1>5, <1>6, <1>7 DEF SeenInv

LEMMA SeenSetTs ==
  ASSUME IInv, FullInv, SeenInv, SetLastLogTs
  PROVE  SeenInv'
<1>0. IInv /\ OffsetsOK /\ SegmentInv
  BY DEF FullInv
<1>1. /\ agg.pc \in {"ts_checkpoint", "ts_month"}
      /\ lastLog' = Later(lastLog, seen) /\ UNCHANGED <<stored, dbSeen, pending, seen>>
      /\ agg' = [agg EXCEPT !.pc = IF agg.pc = "ts_month" THEN "finalize" ELSE "recv"]
      /\ AggVarsOnly
  BY DEF SetLastLogTs
<1>2. /\ agg'.active = agg.active /\ agg'.file = agg.file /\ agg'.pc \in {"finalize", "recv"}
      /\ log' = log
  BY <1>1, AggFacts, AggUnchanged
<1>3. \A g \in File : (NotReadFrom(g)' <=> NotReadFrom(g)) /\ (NoRowFrom(g)' <=> NoRowFrom(g))
  BY <1>1, <1>2 DEF NotReadFrom, NoRowFrom
<1>4. ASSUME NEW g \in File, NEW i \in 1..Len(log[g]), log[g][i] # Dropped, NoRowFrom(g)
      PROVE  lastLog' <= log[g][i]
  <2>1. NotReadFrom(g)
    BY <1>1, <1>4, KnownWhenRead
  <2> QED
    BY <1>1, <1>4, <2>1 DEF SeenInv, Later
<1> QED
  BY <1>1, <1>2, <1>3, <1>4 DEF SeenInv

LEMMA SeenFlush ==
  ASSUME IInv, SeenInv, Flushes, dbSeen' = Later(dbSeen, seen), UNCHANGED <<lastLog, seen>>
  PROVE  SeenInv'
<1>1. /\ log' = log /\ pending' = NoPending
      /\ agg'.file = agg.file /\ agg'.active = agg.active
      /\ \A f \in File : stored'[f].known <=>
            stored[f].known \/ pending[f].known \/ (agg.active /\ f = agg.file)
  BY DEF Flushes
<1>2. \A g \in File : NoRowFrom(g)' => NotReadFrom(g) /\ NoRowFrom(g)
  BY <1>1 DEF NotReadFrom, NoRowFrom
<1>3. \A g \in File : NotReadFrom(g)' => NoRowFrom(g)'
  BY DEF NotReadFrom
<1>4. ASSUME NEW g \in File, NEW i \in 1..Len(log[g]), log[g][i] # Dropped, NoRowFrom(g)'
      PROVE  lastLog' <= log[g][i] /\ dbSeen' <= log[g][i] /\ seen' <= log[g][i]
  BY <1>2, <1>4 DEF SeenInv, Later
<1>5. agg'.active => stored'[agg'.file].known
  BY <1>1, AggFacts
<1> QED
  BY <1>1, <1>3, <1>4, <1>5 DEF SeenInv

LEMMA SeenStop ==
  ASSUME IInv, SeenInv, Stops
  PROVE  SeenInv'
<1>1. /\ log' = log /\ stored' = stored /\ dbSeen' = dbSeen /\ seen' = 0 /\ agg' = IdleAgg
      /\ \/ lastLog' = lastLog
         \/ agg.pc = "ts_final" /\ lastLog' = Later(lastLog, seen)
  BY StoppedFacts DEF Stops
<1>2. \A g \in File : NoRowFrom(g)' <=> NoRowFrom(g)
  BY <1>1 DEF NoRowFrom
<1>3. ASSUME NEW g \in File, NEW i \in 1..Len(log[g]), log[g][i] # Dropped, NoRowFrom(g)
      PROVE  lastLog' <= log[g][i] /\ dbSeen' <= log[g][i] /\ seen' <= log[g][i]
  <2>1. lastLog <= log[g][i] /\ dbSeen <= log[g][i] /\ 0 <= log[g][i]
    BY <1>3, LineType DEF SeenInv
  <2>2. agg.pc = "ts_final" => seen <= log[g][i]
    BY <1>3, KnownWhenRead DEF SeenInv
  <2> QED
    BY <1>1, <2>1, <2>2 DEF Later
<1>4. \A g \in File : NotReadFrom(g)' => NoRowFrom(g)'
  BY DEF NotReadFrom
<1> QED
  BY <1>1, <1>2, <1>3, <1>4 DEF SeenInv, IdleAgg


LEMMA SeenAppend ==
  ASSUME LogsInTurn, IInv, OrderInv, NEW h \in File, NEW t \in Stamps \cup {Dropped},
         <<h, t>> \in Appendable, AppendLine(h, t)
  PROVE  SeenInv'
<1>0. SeenInv
  BY DEF OrderInv
<1>1. UNCHANGED <<stored, lastLog, dbSeen, pending, seen, agg>>
  BY AppendedLine
<1>2. \A g \in File : (NotReadFrom(g)' <=> NotReadFrom(g)) /\ (NoRowFrom(g)' <=> NoRowFrom(g))
  BY <1>1 DEF NotReadFrom, NoRowFrom
<1>3. PICK k \in 1..Len(log[NFiles]) : log[NFiles][k] # Dropped
  BY DEF OrderInv
<1>4. ASSUME NEW g \in File, NEW i \in 1..Len(log'[g]), log'[g][i] # Dropped
      PROVE  \E j \in 1..Len(log[g]) : log[g][j] # Dropped /\ log[g][j] <= log'[g][i]
  <2>1. CASE i \in 1..Len(log[g]) /\ log'[g][i] = log[g][i]
    <3>1. log[g][i] \in Nat
      BY <2>1, LineType
    <3> QED
      BY <1>4, <2>1, <3>1
  <2>2. CASE g = h /\ log'[g][i] = t
    <3>1. g = NFiles
      BY <1>4, <2>2 DEF LogsInTurn
    <3>2. log[NFiles][k] <= t
      BY <1>3, <1>4, <2>2, <3>1, NewLine
    <3> QED
      BY <1>3, <2>2, <3>1, <3>2
  <2> QED
    BY <1>4, <2>1, <2>2, NewLine
<1>5. ASSUME NEW g \in File, NEW i \in 1..Len(log'[g]), log'[g][i] # Dropped
      PROVE  /\ NoRowFrom(g) => lastLog <= log'[g][i] /\ dbSeen <= log'[g][i]
             /\ NotReadFrom(g) => seen <= log'[g][i]
  <2>1. PICK j \in 1..Len(log[g]) : log[g][j] # Dropped /\ log[g][j] <= log'[g][i]
    BY <1>4, <1>5
  <2>2. /\ NoRowFrom(g) => lastLog <= log[g][j] /\ dbSeen <= log[g][j]
        /\ NotReadFrom(g) => seen <= log[g][j]
    BY <1>0, <2>1 DEF SeenInv
  <2>3. log[g][j] \in Nat /\ log'[g][i] \in Nat /\ lastLog \in Nat /\ dbSeen \in Nat /\ seen \in Nat
    <3>1. log'[g][i] \in Nat
      <4>1. t \in Nat
        BY StampsAssumption DEF Dropped
      <4>2. CASE i \in 1..Len(log[g]) /\ log'[g][i] = log[g][i]
        <5>1. log[g][i] \in Nat
          BY <4>2, LineType
        <5> QED
          BY <4>2, <5>1
      <4>3. CASE log'[g][i] = t
        BY <4>1, <4>3
      <4> QED
        BY <4>2, <4>3, NewLine
    <3>2. log[g][j] \in Nat
      BY <2>1, LineType
    <3> QED
      BY <3>1, <3>2, AggFacts
  <2> QED
    BY <2>1, <2>2, <2>3
<1> QED
  BY <1>0, <1>1, <1>2, <1>5 DEF SeenInv

LEMMA SeenNext ==
  ASSUME LogsInTurn, IInv, FullInv, OrderInv, [Next]_vars
  PROVE  SeenInv'
<1>0. IInv /\ GapInv /\ OffsetsOK /\ SegmentInv /\ SeenInv
  BY DEF FullInv, OrderInv
<1>1. CASE UNCHANGED vars \/ EmptyRun \/ LoaderStep \/ LoaderError \/ ParserStep
  <2>1. UNCHANGED <<log, stored, lastLog, dbSeen, seen, pending, agg>>
    BY <1>1, ThreadFrame DEF EmptyRun, vars, dbVars, aggVars
  <2>2. \A g \in File : NotReadFrom(g)' => NotReadFrom(g)
    BY <2>1 DEF NotReadFrom, NoRowFrom
  <2> QED
    BY <1>0, <2>1, <2>2, SeenKeep DEF SeenInv
<1>2. CASE StartRun
  <2>1. /\ UNCHANGED <<log, stored, lastLog, dbSeen, pending>> /\ seen' = dbSeen
        /\ agg' = agg /\ agg.pc = "recv"
    BY <1>2 DEF StartRun, IInv, QuietWhenIdle, IdleAgg, dbVars
  <2>2. \A g \in File : /\ NoRowFrom(g)' <=> NoRowFrom(g)
                        /\ NotReadFrom(g)' => NoRowFrom(g)
    BY <2>1 DEF NotReadFrom, NoRowFrom
  <2> QED
    BY <1>0, <2>1, <2>2 DEF SeenInv
<1>3. CASE AggStep
  <2>1. CASE AggFileStart
    BY <1>0, <2>1, SeenFileStart
  <2>2. CASE AggFileDone
    BY <1>0, <2>2, SeenFileDone
  <2>3. CASE AggEntries \/ FinalizeMonth \/ NoCheckpoint \/ \E i \in 1..MaxLines : AdvanceMonth(i)
    <3>1. /\ UNCHANGED <<stored, lastLog, dbSeen, seen, pending>> /\ AggVarsOnly
          /\ agg'.pc \in {"entries", "advance", "recv"}
      BY <2>3, AggFacts DEF AggEntries, FinalizeMonth, NoCheckpoint, AdvanceMonth, dbVars
    <3>2. agg'.active = agg.active /\ agg'.file = agg.file
      BY <1>0, <2>3, ControlReads, AggFacts DEF AggEntries
    <3>3. \A g \in File : NotReadFrom(g)' => NotReadFrom(g)
      BY <3>1, <3>2 DEF NotReadFrom, NoRowFrom
    <3> QED
      BY <1>0, <3>1, <3>3, AggUnchanged, SeenKeep
  <2>4. CASE \E i \in 1..MaxLines : AggregateEntry(i)
    BY <2>4, SeenEntry
  <2>5. CASE SetLastLogTs
    BY <1>0, <2>5, SeenSetTs
  <2>6. CASE Checkpoint \/ FinalFlush \/ \E i \in 1..MaxLines : MonthBoundary(i)
    BY <1>0, <2>6, StepFlushes, SeenFlush
  <2>7. CASE EndRun \/ AbortRun
    BY <1>0, <2>7, StopStops, SeenStop
  <2> QED
    BY <1>3, <2>1, <2>2, <2>3, <2>4, <2>5, <2>6, <2>7, AggKinds DEF Control
<1>4. CASE Crash
  BY <1>0, <1>4, StopStops, SeenStop
<1>5. CASE \E a \in Appendable : AppendLine(a[1], a[2])
  BY <1>5, AppendedTo, SeenAppend
<1> QED
  BY <1>1, <1>2, <1>3, <1>4, <1>5 DEF Next


-----------------------------------------------------------------------------
(* The stream of files leaves out none that still has an entry.            *)

LEMMA PushInTurn ==
  ASSUME NEW q, ChannelType(q), NEW m \in Msg, NEW f, InTurn(q, f),
         NEW sf, IF q = <<>> THEN sf = f ELSE sf = q[Len(q)].file, NoneSkipped(sf, m)
  PROVE  InTurn(Append(q, m), f)
<1> DEFINE r == Append(q, m)
<1>1. q \in Seq(Msg) /\ r \in Seq(Msg) /\ Len(q) \in Nat /\ Len(r) = Len(q) + 1 /\ r # <<>>
  <2>1. q \in Seq(Msg)
    BY DEF ChannelType
  <2> QED
    BY <2>1
<1>2. \A k \in 1..Len(r) : r[k] = IF k = Len(q) + 1 THEN m ELSE q[k]
  BY <1>1
<1> HIDE DEF r
<1>3. NoneSkipped(f, r[1])
  <2>1. CASE q = <<>>
    BY <2>1, <1>1, <1>2
  <2>2. CASE q # <<>>
    BY <2>2, <1>1, <1>2 DEF InTurn
  <2> QED
    BY <2>1, <2>2
<1>4. ASSUME NEW k \in 1..(Len(r) - 1)
      PROVE  NoneSkipped(r[k].file, r[k + 1])
  <2>1. CASE k < Len(q)
    <3>1. k \in 1..(Len(q) - 1) /\ r[k] = q[k] /\ r[k + 1] = q[k + 1]
      BY <2>1, <1>1, <1>2
    <3> QED
      BY <3>1 DEF InTurn
  <2>2. CASE k = Len(q)
    <3>1. r[k] = q[Len(q)] /\ r[k + 1] = m /\ q # <<>>
      BY <2>2, <1>1, <1>2
    <3> QED
      BY <3>1
  <2> QED
    BY <2>1, <2>2, <1>1
<1> QED
  BY <1>3, <1>4 DEF InTurn, r

LEMMA PopInTurn ==
  ASSUME NEW q, ChannelType(q), q # <<>>, NEW f, InTurn(q, f)
  PROVE  NoneSkipped(f, Head(q)) /\ InTurn(Tail(q), Head(q).file)
<1> DEFINE m == Head(q)
           r == Tail(q)
<1>1. /\ q \in Seq(Msg) /\ Len(q) \in Nat /\ Len(q) > 0 /\ m = q[1]
      /\ Len(r) = Len(q) - 1 /\ r \in Seq(Msg)
  <2>1. q \in Seq(Msg) /\ Len(q) \in Nat /\ Len(q) > 0
    BY DEF ChannelType
  <2> QED
    BY <2>1
<1>2. \A k \in 1..Len(r) : r[k] = q[k + 1]
  BY <1>1
<1> HIDE DEF m, r
<1>3. NoneSkipped(f, m)
  BY <1>1 DEF InTurn
<1>4. r # <<>> => NoneSkipped(m.file, r[1])
  <2> SUFFICES ASSUME r # <<>> PROVE NoneSkipped(m.file, r[1])
    OBVIOUS
  <2>1. Len(r) > 0
    BY <1>1
  <2>2. r[1] = q[1 + 1] /\ 1 \in 1..(Len(q) - 1)
    BY <2>1, <1>1, <1>2
  <2> QED
    BY <2>2, <1>1 DEF InTurn
<1>5. ASSUME NEW k \in 1..(Len(r) - 1) PROVE NoneSkipped(r[k].file, r[k + 1])
  <2>1. k \in 1..Len(r) /\ k + 1 \in 1..Len(r) /\ k + 1 \in 1..(Len(q) - 1)
    <3>1. Len(r) \in Nat /\ Len(r) = Len(q) - 1
      BY <1>1
    <3> QED
      BY <3>1
  <2>2. r[k] = q[k + 1] /\ r[k + 1] = q[(k + 1) + 1]
    BY <1>2, <2>1
  <2> QED
    BY <1>1, <2>1, <2>2 DEF InTurn
<1> QED
  BY <1>3, <1>4, <1>5 DEF InTurn, m, r

LEMMA NoneSkippedSame ==
  log' = log /\ plan' = plan => \A f, m : NoneSkipped(f, m)' <=> NoneSkipped(f, m)
BY DEF NoneSkipped, NoneBehind

LEMMA ToParserKeepTurn ==
  ASSUME InTurn(toParser, parser.file), UNCHANGED <<log, plan, toParser>>,
         parser'.file = parser.file
  PROVE  InTurn(toParser, parser.file)'
BY NoneSkippedSame DEF InTurn

LEMMA ToAggKeepTurn ==
  ASSUME InTurn(toAgg, agg.file), UNCHANGED <<log, plan, toAgg>>, agg'.file = agg.file
  PROVE  InTurn(toAgg, agg.file)'
BY NoneSkippedSame DEF InTurn

LEMMA ToParserPushTurn ==
  ASSUME IInv, InTurn(toParser, parser.file), NEW m \in Msg, PushToParser(m), ~loader.done,
         NoneSkipped(loader.file, m), UNCHANGED <<log, plan, parser>>
  PROVE  InTurn(toParser, parser.file)'
<1>1. InTurn(toParser', parser.file)
  <2>1. ChannelType(toParser) /\ Behind(toParser, loader.file, LoaderAt, parser.file, ParserInAt)
    BY DEF IInv, TypeOK, ToParserOK
  <2>2. IF toParser = <<>> THEN loader.file = parser.file
                           ELSE loader.file = toParser[Len(toParser)].file
    BY <2>1 DEF Behind
  <2>3. InTurn(Append(toParser, m), parser.file)
    BY <2>1, <2>2, PushInTurn
  <2> QED
    BY <2>3 DEF PushToParser
<1>2. /\ toParser' # <<>> => NoneSkipped(parser.file, toParser'[1])
      /\ \A f, n : NoneSkipped(f, n)' <=> NoneSkipped(f, n)
  BY <1>1, NoneSkippedSame DEF InTurn
<1>3. \A k \in 1..(Len(toParser') - 1) : NoneSkipped(toParser'[k].file, toParser'[k + 1])
  BY <1>1 DEF InTurn
<1> QED
  BY <1>2, <1>3 DEF InTurn

LEMMA ToParserPopTurn ==
  ASSUME IInv, InTurn(toParser, parser.file), toParser # <<>>, toParser' = Tail(toParser),
         UNCHANGED <<log, plan>>,
         Head(toParser).kind # "done" => parser'.file = Head(toParser).file
  PROVE  InTurn(toParser, parser.file)' /\ NoneSkipped(parser.file, Head(toParser))
<1>1. NoneSkipped(parser.file, Head(toParser)) /\ InTurn(toParser', Head(toParser).file)
  BY PopInTurn DEF IInv, TypeOK
<1>2. CASE Head(toParser).kind = "done"
  <2>1. toParser' = <<>> /\ Len(toParser') = 0
    BY <1>2, ToParserHead, EmptyLen
  <2>2. 1..(0 - 1) = {}
    OBVIOUS
  <2>3. \A k \in 1..(Len(toParser') - 1) : FALSE
    BY <2>1, <2>2
  <2> QED
    BY <2>3, <1>1, <2>1 DEF InTurn
<1>3. CASE Head(toParser).kind # "done"
  <2>1. /\ toParser' # <<>> => NoneSkipped(parser'.file, toParser'[1])
        /\ \A f, n : NoneSkipped(f, n)' <=> NoneSkipped(f, n)
    BY <1>1, <1>3, NoneSkippedSame DEF InTurn
  <2>2. \A k \in 1..(Len(toParser') - 1) : NoneSkipped(toParser'[k].file, toParser'[k + 1])
    BY <1>1 DEF InTurn
  <2> QED
    BY <1>1, <2>1, <2>2 DEF InTurn
<1> QED
  BY <1>2, <1>3

LEMMA ToAggPushTurn ==
  ASSUME IInv, InTurn(toAgg, agg.file), NEW m \in Msg, PushToAgg(m), ~parser.done,
         NoneSkipped(parser.file, m), UNCHANGED <<log, plan, agg>>
  PROVE  InTurn(toAgg, agg.file)'
<1>1. InTurn(toAgg', agg.file)
  <2>1. ChannelType(toAgg) /\ Behind(toAgg, parser.file, ParserOutAt, agg.file, AggAt)
    BY DEF IInv, TypeOK, ToAggOK
  <2>2. IF toAgg = <<>> THEN parser.file = agg.file
                        ELSE parser.file = toAgg[Len(toAgg)].file
    BY <2>1 DEF Behind
  <2>3. InTurn(Append(toAgg, m), agg.file)
    BY <2>1, <2>2, PushInTurn
  <2> QED
    BY <2>3 DEF PushToAgg
<1>2. /\ toAgg' # <<>> => NoneSkipped(agg.file, toAgg'[1])
      /\ \A f, n : NoneSkipped(f, n)' <=> NoneSkipped(f, n)
  BY <1>1, NoneSkippedSame DEF InTurn
<1>3. \A k \in 1..(Len(toAgg') - 1) : NoneSkipped(toAgg'[k].file, toAgg'[k + 1])
  BY <1>1 DEF InTurn
<1> QED
  BY <1>2, <1>3 DEF InTurn

LEMMA ToAggPopTurn ==
  ASSUME IInv, InTurn(toAgg, agg.file), toAgg # <<>>, toAgg' = Tail(toAgg),
         UNCHANGED <<log, plan>>,
         Head(toAgg).kind # "done" => agg'.file = Head(toAgg).file
  PROVE  InTurn(toAgg, agg.file)'
<1>1. InTurn(toAgg', Head(toAgg).file)
  BY PopInTurn DEF IInv, TypeOK
<1>2. CASE Head(toAgg).kind = "done"
  <2>1. toAgg' = <<>> /\ Len(toAgg') = 0
    BY <1>2, ToAggHead, EmptyLen
  <2>2. 1..(0 - 1) = {}
    OBVIOUS
  <2>3. \A k \in 1..(Len(toAgg') - 1) : FALSE
    BY <2>1, <2>2
  <2> QED
    BY <2>3, <2>1 DEF InTurn
<1>3. CASE Head(toAgg).kind # "done"
  <2>1. /\ toAgg' # <<>> => NoneSkipped(agg'.file, toAgg'[1])
        /\ \A f, n : NoneSkipped(f, n)' <=> NoneSkipped(f, n)
    BY <1>1, <1>3, NoneSkippedSame DEF InTurn
  <2>2. \A k \in 1..(Len(toAgg') - 1) : NoneSkipped(toAgg'[k].file, toAgg'[k + 1])
    BY <1>1 DEF InTurn
  <2> QED
    BY <1>1, <2>1, <2>2 DEF InTurn
<1> QED
  BY <1>2, <1>3


LEMMA LoaderFileStartTurn ==
  ASSUME IInv, StreamInv, LoaderFileStart
  PROVE  LoaderInTurn' /\ InTurn(toParser, parser.file)'
<1>1. PICK f \in todo :
        /\ \A g \in todo : f <= g
        /\ PushToParser(FileStart(f, plan[f].offset))
        /\ todo' = todo \ {f}
        /\ loader' = [loader EXCEPT !.open = TRUE, !.file = f, !.pos = plan[f].offset,
                                    !.eof = FALSE]
  BY DEF LoaderFileStart
<1>2. /\ UNCHANGED <<log, plan, mode, parser>> /\ ~loader.done /\ mode = "running"
  BY <1>1, Running DEF LoaderFileStart, LoaderVarsOnly, runVars
<1>3. loader'.file = f /\ ~loader'.eof /\ loader.file < f /\ f \in File /\ todo \subseteq File
  BY <1>1, LoaderFacts DEF IInv, TypeOK, LoaderType, LoaderOK
<1>4. loader.file \in 0..NFiles /\ f \in Nat
  BY <1>3, LoaderFacts, FileFacts
<1>5. ASSUME NEW g \in File, g \notin todo, loader.file < g, g < NFiles
      PROVE  Exhausted(log[g], plan[g].offset)
  BY <1>2, <1>5 DEF StreamInv, LoaderInTurn, NoneBehind
<1>6. LoaderInTurn'
  <2> SUFFICES ASSUME NEW g \in File, g \notin todo', f < g, g < NFiles
               PROVE  Exhausted(log[g], plan[g].offset)
    BY <1>2, <1>3 DEF LoaderInTurn, NoneBehind
  <2>1. g \notin todo /\ loader.file < g
    BY <1>1, <1>3, <1>4, FileFacts
  <2> QED
    BY <1>5, <2>1
<1>7. NoneSkipped(loader.file, FileStart(f, plan[f].offset))
  <2> DEFINE m == FileStart(f, plan[f].offset)
  <2>1. m.kind = "start" /\ m.file = f
    BY DEF FileStart, MsgOf
  <2> HIDE DEF m
  <2>2. ASSUME NEW g \in File, loader.file < g, g < f
        PROVE  Exhausted(log[g], plan[g].offset)
    <3>1. g \notin todo /\ g < NFiles
      BY <1>1, <1>3, <1>4, <2>2, FileFacts
    <3> QED
      BY <1>5, <2>2, <3>1
  <2>3. NoneSkipped(loader.file, m)
    BY <2>1, <2>2 DEF NoneSkipped, NoneBehind
  <2> QED
    BY <2>3 DEF m
<1>8. FileStart(f, plan[f].offset) \in Msg
  BY <1>3, LoaderFacts DEF FileStart, MsgOf, Msg, File
<1> QED
  BY <1>1, <1>2, <1>6, <1>7, <1>8, ToParserPushTurn DEF StreamInv

LEMMA LoaderLinesTurn ==
  ASSUME IInv, StreamInv, LoaderLines
  PROVE  LoaderInTurn' /\ InTurn(toParser, parser.file)'
<1> DEFINE left == Len(log[loader.file]) - loader.pos
           end  == IF left >= LoaderBatch THEN loader.pos + LoaderBatch
                                          ELSE Len(log[loader.file])
<1>1. /\ loader.open /\ ~loader.eof /\ PushToParser(Lines(loader.file, loader.pos + 1, end))
      /\ loader' = [loader EXCEPT !.pos = end, !.eof = left < LoaderBatch]
      /\ UNCHANGED <<log, plan, mode, parser, todo>>
  BY DEF LoaderLines, LoaderVarsOnly, runVars
<1>2. /\ loader.file \in File /\ Len(log[loader.file]) \in Nat /\ loader.pos \in Nat
      /\ loader.pos <= Len(log[loader.file]) /\ ~loader.done
  BY <1>1, LoaderFacts DEF IInv, LoaderOK
<1>3. end \in Nat /\ (left < LoaderBatch => end = Len(log[loader.file]))
  BY <1>2, SizesAssumption
<1> HIDE DEF end
<1>4. /\ loader'.file = loader.file /\ loader'.pos = end
      /\ loader'.eof => end = Len(log[loader.file])
  BY <1>1, <1>3 DEF IInv, TypeOK, LoaderType
<1>5. loader'.eof => Exhausted(log[loader.file], loader'.pos)
  BY <1>2, <1>4 DEF Exhausted
<1>6. LoaderInTurn'
  BY <1>1, <1>4, <1>5 DEF StreamInv, LoaderInTurn, NoneBehind
<1>7. Lines(loader.file, loader.pos + 1, end) \in Msg
  BY <1>2, <1>3 DEF Lines, MsgOf, Msg, File
<1>8. NoneSkipped(loader.file, Lines(loader.file, loader.pos + 1, end))
  BY DEF NoneSkipped, Lines, MsgOf
<1> QED
  BY <1>1, <1>2, <1>6, <1>7, <1>8, ToParserPushTurn DEF StreamInv

LEMMA LoaderFileDoneTurn ==
  ASSUME IInv, StreamInv, LoaderFileDone
  PROVE  LoaderInTurn' /\ InTurn(toParser, parser.file)'
<1> DEFINE c == loader.pos >= plan[loader.file].size
           m == FileDone(loader.file, loader.pos, c)
<1>1. /\ loader.eof \/ loader.pos >= Len(log[loader.file])
      /\ PushToParser(m) /\ loader' = [loader EXCEPT !.open = FALSE] /\ c \in BOOLEAN
      /\ UNCHANGED <<log, plan, mode, parser, todo>>
  BY DEF LoaderFileDone, LoaderVarsOnly, runVars
<1>2. /\ loader.file \in File /\ Len(log[loader.file]) \in Nat /\ loader.pos \in Nat
      /\ loader.pos <= Len(log[loader.file]) /\ ~loader.done /\ loader.open
  BY LoaderFacts DEF IInv, LoaderOK, LoaderFileDone
<1> HIDE DEF c
<1>3. loader'.file = loader.file /\ ~loader'.open
  BY <1>1 DEF IInv, TypeOK, LoaderType
<1>4. LoaderInTurn'
  BY <1>1, <1>3 DEF StreamInv, LoaderInTurn, NoneBehind
<1>5. m \in Msg /\ m.kind = "fdone" /\ m.file = loader.file /\ m.off = loader.pos
  BY <1>1, <1>2 DEF FileDone, MsgOf, Msg, File
<1>6. loader.file < NFiles => Exhausted(log[loader.file], loader.pos)
  <2>1. loader.eof \/ loader.pos >= Len(log[loader.file])
    BY DEF LoaderFileDone
  <2>2. loader.pos >= Len(log[loader.file]) => Exhausted(log[loader.file], loader.pos)
    BY <1>2 DEF Exhausted
  <2> QED
    BY <1>2, <2>1, <2>2 DEF StreamInv, LoaderInTurn, NoneBehind
<1> HIDE DEF m
<1>7. NoneSkipped(loader.file, m)
  BY <1>5, <1>6 DEF NoneSkipped, NoneBehind
<1> QED
  BY <1>1, <1>2, <1>4, <1>5, <1>7, ToParserPushTurn DEF StreamInv

LEMMA LoaderEndTurn ==
  ASSUME IInv, StreamInv, LoaderDone \/ LoaderError
  PROVE  LoaderInTurn' /\ InTurn(toParser, parser.file)'
<1>1. /\ PushToParser(Done) /\ ~loader.done /\ UNCHANGED <<log, plan, mode, parser, todo>>
      /\ loader'.file = loader.file /\ ~loader'.open
  BY DEF LoaderDone, LoaderError, LoaderVarsOnly, runVars, IInv, TypeOK, LoaderType
<1>2. Done \in Msg
  BY SizesAssumption DEF Done, MsgOf, Msg, NoFile
<1>4. NoneSkipped(loader.file, Done)
  BY DEF Done, MsgOf, NoneSkipped
<1>3. LoaderInTurn'
  BY <1>1 DEF StreamInv, LoaderInTurn, NoneBehind
<1> QED
  BY <1>1, <1>2, <1>3, <1>4, ToParserPushTurn DEF StreamInv


LEMMA ParserTurn ==
  ASSUME IInv, StreamInv, ParserStep
  PROVE  StreamInv'
<1>0. UNCHANGED <<log, mode, plan, todo, loader, agg>>
  BY DEF ParserStep, ParserFileStart, ParserTakeLines, ParseLine, ParseLineFull,
         ParserFlushBatch, ParserFileDone, ParserDone, ParserVarsOnly, aggVars, runVars, loadVars
<1>1. LoaderInTurn'
  BY <1>0 DEF StreamInv, LoaderInTurn, NoneBehind
<1>2. InTurn(toParser, parser.file) /\ InTurn(toAgg, agg.file)
  BY DEF StreamInv
<1>3. CASE ParserFileStart \/ ParserFileDone \/ ParserDone
  <2> DEFINE m == Head(toParser)
  <2>1. toParser # <<>> /\ PushToAgg(m) /\ toParser' = Tail(toParser)
    BY <1>3 DEF ParserFileStart, ParserFileDone, ParserDone, AtEnd
  <2>2. m \in Msg /\ Follows(parser.file, ParserInAt, m) /\ ~parser.done
    BY <2>1, ToParserHead
  <2>3. m.kind # "done" => parser'.file = m.file
    <3>1. CASE ParserFileStart
      BY <3>1 DEF ParserFileStart, IInv, TypeOK, ParserType
    <3>2. CASE ParserFileDone
      <4>1. parser'.file = parser.file /\ m.kind = "fdone"
        BY <3>2 DEF ParserFileDone, IInv, TypeOK, ParserType
      <4> QED
        BY <2>2, <4>1 DEF Follows
    <3>3. CASE ParserDone
      BY <3>3 DEF ParserDone
    <3> QED
      BY <1>3, <3>1, <3>2, <3>3
  <2>4. InTurn(toParser, parser.file)' /\ NoneSkipped(parser.file, m)
    BY <1>0, <1>2, <2>1, <2>3, ToParserPopTurn
  <2>5. InTurn(toAgg, agg.file)'
    BY <1>0, <1>2, <2>1, <2>2, <2>4, ToAggPushTurn
  <2> QED
    BY <1>1, <2>4, <2>5 DEF StreamInv
<1>4. CASE ParserTakeLines
  <2> DEFINE m == Head(toParser)
  <2>1. toParser # <<>> /\ m.kind = "lines" /\ toParser' = Tail(toParser) /\ UNCHANGED toAgg
    BY <1>4 DEF ParserTakeLines
  <2>2. Follows(parser.file, ParserInAt, m)
    BY <2>1, ToParserHead
  <2>3. parser'.file = m.file
    <3>1. parser'.file = parser.file
      BY <1>4 DEF ParserTakeLines, IInv, TypeOK, ParserType
    <3> QED
      BY <2>1, <2>2, <3>1 DEF Follows
  <2>4. InTurn(toParser, parser.file)'
    BY <1>0, <1>2, <2>1, <2>3, ToParserPopTurn
  <2>5. InTurn(toAgg, agg.file)'
    BY <1>0, <1>2, <2>1, ToAggKeepTurn
  <2> QED
    BY <1>1, <2>4, <2>5 DEF StreamInv
<1>5. CASE ParseLine \/ ParseLineFull \/ ParserFlushBatch
  <2>1. UNCHANGED toParser /\ parser'.file = parser.file
    BY <1>5 DEF ParseLine, ParseLineFull, ParserFlushBatch, IInv, TypeOK, ParserType
  <2>2. InTurn(toParser, parser.file)'
    BY <1>0, <1>2, <2>1, ToParserKeepTurn
  <2>3. CASE toAgg' = toAgg
    <3>1. InTurn(toAgg, agg.file)'
      BY <1>0, <1>2, <2>3, ToAggKeepTurn
    <3> QED
      BY <1>1, <2>2, <3>1 DEF StreamInv
  <2>4. CASE ParseLineFull \/ ParserFlushBatch
    <3>1. PICK last \in Nat : PushToAgg(Entries(parser.file, parser.from, last, parser.off))
      <4>1. parser.at \in Nat /\ parser.at - 1 \in Nat
        BY ParserFacts
      <4> QED
        BY <2>4, <4>1 DEF ParseLineFull, ParserFlushBatch
    <3>2. ~parser.done
      <4>1. CASE ParseLineFull
        BY <4>1, ParserFacts DEF ParseLineFull
      <4>2. CASE ParserFlushBatch
        BY <4>2, ToParserHead DEF ParserFlushBatch, AtEnd
      <4> QED
        BY <2>4, <4>1, <4>2
    <3>3. Entries(parser.file, parser.from, last, parser.off) \in Msg
      BY ParserFacts DEF Entries, MsgOf, Msg
    <3>4. NoneSkipped(parser.file, Entries(parser.file, parser.from, last, parser.off))
      BY DEF NoneSkipped, Entries, MsgOf
    <3>5. InTurn(toAgg, agg.file)'
      BY <1>0, <1>2, <3>1, <3>2, <3>3, <3>4, ToAggPushTurn
    <3> QED
      BY <1>1, <2>2, <3>5 DEF StreamInv
  <2> QED
    BY <1>5, <2>3, <2>4 DEF ParseLine
<1> QED
  BY <1>3, <1>4, <1>5 DEF ParserStep

LEMMA AggTurn ==
  ASSUME IInv, StreamInv, AggStep, ~(EndRun \/ AbortRun)
  PROVE  StreamInv'
<1>0. AggVarsOnly
  BY DEF AggStep, AggFileStart, AggEntries, AggregateEntry, MonthBoundary, AdvanceMonth,
         SetLastLogTs, FinalizeMonth, NoCheckpoint, Checkpoint, AggFileDone, FinalFlush
<1>1. UNCHANGED <<log, mode, plan, todo, loader, toParser, parser>>
  BY <1>0, AggUnchanged
<1>2. LoaderInTurn'
  BY <1>1 DEF StreamInv, LoaderInTurn, NoneBehind
<1>3. InTurn(toParser, parser.file)'
  BY <1>1, ToParserKeepTurn DEF StreamInv
<1>4. CASE AggFileStart \/ AggEntries \/ AggFileDone \/ FinalFlush
  <2> DEFINE m == Head(toAgg)
  <2>1. toAgg # <<>> /\ toAgg' = Tail(toAgg)
    BY <1>4 DEF AggFileStart, AggEntries, AggFileDone, FinalFlush, Received
  <2>2. Follows(agg.file, AggAt, m)
    BY <2>1, ToAggHead
  <2>3. m.kind # "done" => agg'.file = m.file
    <3>1. CASE AggFileStart
      BY <3>1, AggFacts DEF AggFileStart
    <3>2. CASE AggEntries \/ AggFileDone
      <4>1. agg'.file = agg.file /\ m.kind \in {"entries", "fdone"}
        BY <3>2, AggFacts DEF AggEntries, AggFileDone, Received
      <4> QED
        BY <2>2, <4>1 DEF Follows
    <3>3. CASE FinalFlush
      BY <3>3 DEF FinalFlush, Received
    <3> QED
      BY <1>4, <3>1, <3>2, <3>3
  <2>4. InTurn(toAgg, agg.file)'
    BY <1>1, <2>1, <2>3, ToAggPopTurn DEF StreamInv
  <2> QED
    BY <1>2, <1>3, <2>4 DEF StreamInv
<1>5. CASE ~(AggFileStart \/ AggEntries \/ AggFileDone \/ FinalFlush)
  <2>1. toAgg' = toAgg /\ agg'.file = agg.file
    BY <1>5, AggFacts DEF AggStep, AggregateEntry, MonthBoundary, AdvanceMonth, SetLastLogTs,
                          FinalizeMonth, NoCheckpoint, Checkpoint
  <2>2. InTurn(toAgg, agg.file)'
    BY <1>1, <2>1, ToAggKeepTurn DEF StreamInv
  <2> QED
    BY <1>2, <1>3, <2>2 DEF StreamInv
<1> QED
  BY <1>4, <1>5

\* At the end of a run there is no stream.
LEMMA NoStream ==
  ASSUME toParser' = <<>>, toAgg' = <<>>, LoaderInTurn'
  PROVE  StreamInv'
<1>1. /\ Len(toParser') = 0 /\ Len(toAgg') = 0
      /\ \A k \in 1..(Len(toParser') - 1) : FALSE
      /\ \A k \in 1..(Len(toAgg') - 1) : FALSE
  <2>1. 1..(0 - 1) = {}
    OBVIOUS
  <2> QED
    BY <2>1, EmptyLen
<1> QED
  BY <1>1 DEF StreamInv, InTurn

\* A file that a run leaves out has no entry behind its offset.
LEMMA LeftOut ==
  ASSUME LogsInTurn, IInv, FullInv, OrderInv, StartRun,
         NEW g \in File, g \notin todo', g < NFiles
  PROVE  Exhausted(log[g], plan'[g].offset)
<1>0. OffsetsOK /\ RowsInv /\ SeenInv
  BY DEF FullInv, OrderInv
<1>1. plan'[g].offset = ResumeOffset(g) /\ todo' = Pending \ OrderSkip
  BY DEF StartRun
<1>2. stored[g].offset \in Nat /\ Len(log[g]) \in Nat /\ stored[g].offset <= Len(log[g])
  BY <1>0, ReachedFacts
<1>3. plan'[g].offset = stored[g].offset
  BY <1>1, <1>2 DEF ResumeOffset
<1>4. CASE g \notin Pending
  <2>1. stored[g].offset >= Len(log[g])
    BY <1>4 DEF Pending, MetadataExactMatch
  <2> QED
    BY <1>2, <1>3, <2>1 DEF Exhausted
<1>5. CASE g \in OrderSkip
  <2>1. PICK h \in File : g < h /\ StartsBefore(h, lastLog)
    BY <1>5 DEF OrderSkip, Pending
  <2>2. PICK i \in 1..Len(log[h]) : log[h][i] # Dropped /\ log[h][i] < lastLog
    BY <2>1 DEF StartsBefore, IsFirstKept
  <2>3. ~NoRowFrom(h)
    <3>1. log[h][i] \in Nat /\ lastLog \in Nat
      BY LineType, AggFacts
    <3> QED
      BY <1>0, <2>2, <3>1 DEF SeenInv
  <2>4. PICK k \in File : h <= k /\ stored[k].known
    BY <2>3 DEF NoRowFrom
  <2>5. g < k
    BY <2>1, <2>4, FileFacts
  <2> QED
    BY <1>0, <1>3, <2>4, <2>5 DEF RowsInv, NoneBehind
<1> QED
  BY <1>1, <1>4, <1>5

LEMMA StreamNext ==
  ASSUME LogsInTurn, IInv, FullInv, OrderInv, [Next]_vars
  PROVE  StreamInv'
<1>0. StreamInv
  BY DEF OrderInv
<1>1. CASE UNCHANGED vars \/ EmptyRun
  <2>1. UNCHANGED <<log, mode, plan, todo, loader, toParser, parser, toAgg, agg>>
    BY <1>1 DEF EmptyRun, vars, runVars, loadVars, aggVars
  <2>2. LoaderInTurn'
    BY <1>0, <2>1 DEF StreamInv, LoaderInTurn, NoneBehind
  <2>3. InTurn(toParser, parser.file)' /\ InTurn(toAgg, agg.file)'
    BY <1>0, <2>1, ToParserKeepTurn, ToAggKeepTurn DEF StreamInv
  <2> QED
    BY <2>2, <2>3 DEF StreamInv
<1>2. CASE StartRun
  <2>1. /\ toParser' = <<>> /\ toAgg' = <<>> /\ loader' = IdleLoader /\ log' = log
    BY <1>2 DEF StartRun, IInv, QuietWhenIdle
  <2>2. LoaderInTurn'
    BY <1>2, <2>1, LeftOut DEF LoaderInTurn, NoneBehind, IdleLoader
  <2> QED
    BY <2>1, <2>2, NoStream
<1>3. CASE LoaderStep \/ LoaderError
  <2>1. LoaderInTurn' /\ InTurn(toParser, parser.file)'
    BY <1>0, <1>3, LoaderFileStartTurn, LoaderLinesTurn, LoaderFileDoneTurn, LoaderEndTurn
       DEF LoaderStep
  <2>2. UNCHANGED <<log, plan, toAgg, agg>>
    BY <1>3 DEF LoaderStep, LoaderError, LoaderFileStart, LoaderLines, LoaderFileDone, LoaderDone,
                LoaderVarsOnly, aggVars, runVars
  <2> QED
    BY <1>0, <2>1, <2>2, ToAggKeepTurn DEF StreamInv
<1>4. CASE ParserStep
  BY <1>0, <1>4, ParserTurn
<1>5. CASE AggStep /\ ~(EndRun \/ AbortRun)
  BY <1>0, <1>5, AggTurn
<1>6. CASE EndRun \/ AbortRun \/ Crash
  <2>1. toParser' = <<>> /\ toAgg' = <<>> /\ mode' = "idle" /\ loader' = IdleLoader
    BY <1>6 DEF EndRun, AbortRun, Crash, Stop
  <2>2. LoaderInTurn'
    BY <2>1 DEF LoaderInTurn, IdleLoader
  <2> QED
    BY <2>1, <2>2, NoStream
<1>7. CASE \E a \in Appendable : AppendLine(a[1], a[2])
  <2>1. PICK g \in File, t \in Stamps \cup {Dropped} : <<g, t>> \in Appendable /\ AppendLine(g, t)
    BY <1>7, AppendedTo
  <2>2. UNCHANGED <<mode, plan, todo, loader, toParser, parser, toAgg, agg>>
    BY <2>1, AppendedLine
  <2>3. \A f \in File : \A n : f < NFiles /\ Exhausted(log[f], n) => Exhausted(log'[f], n)
    BY <2>1, BehindStays
  <2>4. LoaderInTurn'
    <3>1. loader.open => loader.file \in File
      BY LoaderFacts
    <3> QED
      BY <1>0, <2>2, <2>3, <3>1 DEF StreamInv, LoaderInTurn, NoneBehind
  <2>5. ASSUME NEW f, NEW m, m.kind # "done" => m.file \in File, NoneSkipped(f, m)
        PROVE  /\ m.kind = "start" =>
                    \A h \in File : f < h /\ h < m.file => Exhausted(log'[h], plan[h].offset)
               /\ m.kind = "fdone" /\ m.file < NFiles => Exhausted(log'[m.file], m.off)
    <3>1. ASSUME m.kind = "start", NEW h \in File, f < h, h < m.file
          PROVE  Exhausted(log'[h], plan[h].offset)
      <4>1. h < NFiles
        <5>1. m.file \in Nat /\ m.file <= NFiles /\ h \in Nat /\ NFiles \in Nat
          BY <2>5, <3>1, FileFacts
        <5> QED
          BY <3>1, <5>1
      <4>2. Exhausted(log[h], plan[h].offset)
        BY <2>5, <3>1 DEF NoneSkipped, NoneBehind
      <4> QED
        BY <2>3, <4>1, <4>2
    <3>2. ASSUME m.kind = "fdone", m.file < NFiles PROVE Exhausted(log'[m.file], m.off)
      <4>1. m.file \in File /\ Exhausted(log[m.file], m.off)
        BY <2>5, <3>2 DEF NoneSkipped, NoneBehind
      <4> QED
        BY <2>3, <3>2, <4>1
    <3> QED
      BY <3>1, <3>2
  <2>6. ASSUME NEW f, NEW m, m.kind # "done" => m.file \in File, NoneSkipped(f, m)
        PROVE  NoneSkipped(f, m)'
    BY <2>2, <2>5, <2>6 DEF NoneSkipped, NoneBehind
  <2>7. /\ \A k \in 1..Len(toParser) : toParser[k].kind # "done" => toParser[k].file \in File
        /\ \A k \in 1..Len(toAgg) : toAgg[k].kind # "done" => toAgg[k].file \in File
    BY DEF IInv, ToParserOK, ToAggOK, CarriesOK, MsgOK
  <2>8. /\ Len(toParser) \in Nat /\ (toParser # <<>> => Len(toParser) > 0)
        /\ Len(toAgg) \in Nat /\ (toAgg # <<>> => Len(toAgg) > 0)
    <3>1. toParser \in Seq(Msg) /\ toAgg \in Seq(Msg)
      BY DEF IInv, TypeOK, ChannelType
    <3> QED
      BY <3>1
  <2>9. InTurn(toParser, parser.file)'
    BY <1>0, <2>2, <2>6, <2>7, <2>8 DEF StreamInv, InTurn
  <2>10. InTurn(toAgg, agg.file)'
    BY <1>0, <2>2, <2>6, <2>7, <2>8 DEF StreamInv, InTurn
  <2> QED
    BY <2>4, <2>9, <2>10 DEF StreamInv
<1> QED
  BY <1>1, <1>2, <1>3, <1>4, <1>5, <1>6, <1>7 DEF Next


-----------------------------------------------------------------------------
(* Months are closed in the order of time.                                 *)

\* The next entry of the batch at hand is the earliest of those to come.
LEMMA NextIsFirst ==
  ASSUME LogsInTurn, IInv, OffsetsOK, OrderInv, agg.active, NEW k \in 1..MaxLines, NextEntry(k),
         NEW f \in File, NEW i \in 1..Len(log[f]), log[f][i] # Dropped, Reached(f) < i
  PROVE  EntryMonth(k) <= MonthOf[log[f][i]]
<1>0. Chronological(log) /\ PassedInv
  BY DEF OrderInv
<1>1. /\ k \in Kept(agg.file, agg.at, agg.hi) /\ \A j \in Kept(agg.file, agg.at, agg.hi) : k <= j
  BY DEF NextEntry
<1>2. PICK g \in File : g = agg.file
  BY AggFacts
<1>3. /\ k \in Nat /\ agg.at <= k /\ k <= agg.hi /\ log[g][k] # Dropped /\ mode = "running"
      /\ k \in 1..Len(log[g]) /\ agg.at \in Nat /\ agg.hi \in Nat
  <2>1. /\ k \in Nat /\ agg.at <= k /\ k <= agg.hi /\ log[g][k] # Dropped /\ mode = "running"
        /\ k <= Len(log[g]) /\ agg.at \in Nat /\ agg.hi \in Nat /\ Len(log[g]) \in Nat
    BY <1>1, <1>2, NextEntryFacts, AggFacts, LoaderFacts
  <2> QED
    BY <2>1
<1>4. CASE f = g
  <2>1. agg.at <= i
    BY <1>2, <1>3, <1>4 DEF Reached
  <2>2. k <= i
    <3>1. CASE i <= agg.hi
      <4>1. i \in Kept(agg.file, agg.at, agg.hi)
        BY <1>2, <1>3, <1>4, <2>1, <3>1 DEF Kept
      <4> QED
        BY <1>1, <4>1
    <3>2. CASE agg.hi < i
      BY <1>3, <3>2
    <3> QED
      BY <1>3, <3>1, <3>2
  <2>3. log[g][k] = log[f][i] \/ log[g][k] <= log[f][i]
    <3>1. k = i \/ k < i
      BY <1>3, <2>2
    <3> QED
      BY <1>0, <1>3, <1>4, <3>1 DEF Chronological
  <2>4. log[g][k] \in Stamps /\ log[f][i] \in Stamps /\ MonthOf[log[g][k]] \in Nat
    BY <1>3, LineType
  <2> QED
    BY <1>2, <2>3, <2>4 DEF LogsInTurn, EntryMonth
<1>5. CASE g < f
  <2>1. log[g][k] <= log[f][i]
    BY <1>0, <1>3, <1>5 DEF Chronological
  <2>2. log[g][k] \in Stamps /\ log[f][i] \in Stamps
    BY <1>3, LineType
  <2> QED
    BY <1>2, <2>1, <2>2 DEF LogsInTurn, EntryMonth
<1>6. CASE f < g
  <2>1. f < NFiles /\ f # agg.file
    BY <1>2, <1>6, FileFacts
  <2>2. Exhausted(log[f], NextOffset(f))
    BY <1>0, <1>2, <1>3, <1>6, <2>1 DEF PassedInv, NoneBehind
  <2>3. Reached(f) = NextOffset(f) /\ Reached(f) \in Nat
    BY <2>1, ReachedFacts DEF Reached
  <2>4. i <= Reached(f)
    BY <2>2, <2>3 DEF Exhausted
  <2> QED
    BY <2>3, <2>4
<1> QED
  BY <1>4, <1>5, <1>6, FileFacts

\* A new line is the latest.
LEMMA NewIsLast ==
  ASSUME LogsInTurn, IInv, OrderInv, NEW h \in File, NEW t \in Stamps,
         <<h, t>> \in Appendable, AppendLine(h, t),
         NEW g \in File, NEW j \in 1..Len(log[g]), log[g][j] # Dropped
  PROVE  MonthOf[log[g][j]] <= MonthOf[t]
<1>0. t # Dropped /\ h = NFiles /\ t \in Nat /\ t \in Stamps \cup {Dropped}
  BY StampsAssumption DEF Dropped, LogsInTurn
<1>1. PICK k \in 1..Len(log[NFiles]) : log[NFiles][k] # Dropped
  BY DEF OrderInv
<1>2. \A n \in 1..Len(log[NFiles]) : log[NFiles][n] <= t
  BY <1>0, NewLine
<1>3. log[g][j] <= t
  <2>1. CASE g = NFiles
    BY <1>2, <2>1
  <2>2. CASE g < NFiles
    <3>1. log[g][j] <= log[NFiles][k] /\ log[NFiles][k] <= t
      BY <1>1, <1>2, <2>2, FileFacts DEF OrderInv, Chronological
    <3>2. log[g][j] \in Nat /\ log[NFiles][k] \in Nat
      BY LineType, FileFacts
    <3> QED
      BY <1>0, <3>1, <3>2
  <2>3. g = NFiles \/ g < NFiles
    <3>1. g \in Nat /\ g <= NFiles /\ NFiles \in Nat
      BY FileFacts, Zenon
    <3> HIDE SizesAssumption, StampsAssumption
    <3> QED
      BY <3>1
  <2> QED
    BY <2>1, <2>2, <2>3
<1>4. log[g][j] \in Stamps
  BY LineType
<1> QED
  BY <1>3, <1>4 DEF LogsInTurn

LEMMA AheadKeep ==
  ASSUME BoundaryAhead, UNCHANGED <<log, month>>,
         agg'.file = agg.file, agg'.at = agg.at, agg'.hi = agg.hi,
         agg'.pc \in {"ts_month", "finalize", "advance"}
           => agg.pc \in {"ts_month", "finalize", "advance"}
  PROVE  BoundaryAhead'
BY DEF BoundaryAhead, NextEntry, EntryMonth, Kept

LEMMA AheadNext ==
  ASSUME IInv, FullInv, BoundaryAhead, [Next]_vars
  PROVE  BoundaryAhead'
<1>0. /\ GapInv /\ OffsetsOK /\ SegmentInv
      /\ agg \in [pc : AggPc, active : BOOLEAN, file : 0..NFiles, at : Nat, hi : Nat, off : Nat]
  BY AggFacts DEF FullInv
<1>1. CASE UNCHANGED vars \/ EmptyRun \/ LoaderStep \/ LoaderError \/ ParserStep
  <2>1. UNCHANGED <<log, month, agg>>
    BY <1>1, ThreadFrame DEF EmptyRun, vars, aggVars
  <2> QED
    BY <2>1, AheadKeep
<1>2. CASE StartRun \/ EndRun \/ AbortRun \/ Crash
  <2>1. agg' = IdleAgg
    BY <1>2, StopStops, StoppedFacts DEF StartRun, IInv, QuietWhenIdle
  <2> QED
    BY <2>1 DEF BoundaryAhead, IdleAgg
<1>3. CASE \/ AggFileStart \/ AggFileDone \/ AggEntries \/ NoCheckpoint \/ Checkpoint \/ FinalFlush
           \/ \E i \in 1..MaxLines : AggregateEntry(i) \/ AdvanceMonth(i)
  <2>1. agg'.pc \in {"recv", "entries", "ts_checkpoint", "ts_final"}
    BY <1>0, <1>3 DEF AggFileStart, AggFileDone, AggEntries, NoCheckpoint, Checkpoint, FinalFlush,
                      AggregateEntry, AdvanceMonth, Received
  <2> QED
    BY <2>1 DEF BoundaryAhead
<1>4. CASE SetLastLogTs \/ FinalizeMonth
  <2>1. /\ agg'.file = agg.file /\ agg'.at = agg.at /\ agg'.hi = agg.hi
        /\ agg'.pc \in {"ts_month", "finalize", "advance"}
             => agg.pc \in {"ts_month", "finalize", "advance"}
        /\ month' = month /\ AggVarsOnly
    BY <1>0, <1>4 DEF SetLastLogTs, FinalizeMonth
  <2> QED
    BY <2>1, AggUnchanged, AheadKeep
<1>5. ASSUME NEW i \in 1..MaxLines, MonthBoundary(i)
      PROVE  BoundaryAhead'
  <2>1. /\ agg' = [agg EXCEPT !.pc = "ts_month"] /\ NextEntry(i) /\ month # EntryMonth(i)
        /\ month' = month /\ AggVarsOnly
    BY <1>5 DEF MonthBoundary
  <2>2. agg'.file = agg.file /\ agg'.at = agg.at /\ agg'.hi = agg.hi /\ log' = log
    BY <1>0, <2>1, AggUnchanged
  <2>3. NextEntry(i)' /\ EntryMonth(i)' # month'
    BY <2>1, <2>2 DEF NextEntry, EntryMonth, Kept
  <2> QED
    BY <2>3 DEF BoundaryAhead
<1>6. CASE \E a \in Appendable : AppendLine(a[1], a[2])
  <2>1. PICK g \in File, t \in Stamps \cup {Dropped} : AppendLine(g, t)
    BY <1>6, AppendedTo
  <2>2. agg' = agg /\ month' = month
    BY <2>1, AppendedLine
  <2>3. SUFFICES ASSUME agg.pc \in {"ts_month", "finalize", "advance"}
                 PROVE  \E i \in 1..MaxLines : NextEntry(i)' /\ EntryMonth(i)' # month'
    BY <2>2 DEF BoundaryAhead
  <2>4. PICK i \in 1..MaxLines : NextEntry(i) /\ EntryMonth(i) # month
    BY <2>3 DEF BoundaryAhead
  <2>5. /\ agg.file \in File /\ agg.hi \in Nat /\ agg.at \in Nat /\ 1 <= agg.at
        /\ agg.hi <= Len(log[agg.file]) /\ Len(log[agg.file]) \in Nat
    BY <1>0, <2>3, AggFacts, LoaderFacts
  <2>6. \A j \in agg.at..agg.hi : log'[agg.file][j] = log[agg.file][j]
    <3>1. \A j \in agg.at..agg.hi : j \in 1..Len(log[agg.file])
      BY <2>5
    <3> QED
      BY <2>1, <2>5, <3>1, AppendedLine
  <2>7. Kept(agg.file, agg.at, agg.hi)' = Kept(agg.file, agg.at, agg.hi)
    BY <2>2, <2>6 DEF Kept
  <2>8. i \in agg.at..agg.hi
    BY <2>4 DEF NextEntry, Kept
  <2>9. log'[agg.file][i] = log[agg.file][i]
    BY <2>6, <2>8
  <2> QED
    BY <2>2, <2>4, <2>7, <2>9 DEF NextEntry, EntryMonth
<1> QED
  BY <1>1, <1>2, <1>3, <1>4, <1>5, <1>6 DEF Next, AggStep


\* The current month, and those that are over, are not past an entry to come.
NotPast(f, i) ==
  /\ \A m \in complete : m < MonthOf[log[f][i]]
  /\ dbMonth <= MonthOf[log[f][i]] /\ month <= MonthOf[log[f][i]]

LEMMA OpenNotPast ==
  ASSUME MonthsOver, NEW f \in File, NEW i \in 1..Len(log[f]), Open(f, i)
  PROVE  NotPast(f, i)
BY DEF MonthsOver, NotPast

\* A step that closes no month.
LEMMA OverKeep ==
  ASSUME IInv, IInv', FullInv, FullInv', FreshInv, MonthsOver, BoundaryAhead',
         Reads \/ Flushes \/ Stops, UNCHANGED <<complete, dbMonth>>,
         month' = month \/ month' = NoMonth \/ month' = dbMonth
  PROVE  MonthsOver'
<1>0. OffsetsOK /\ OffsetsOK' /\ log' = log
  BY DEF FullInv, Reads, Flushes, Stops
<1> SUFFICES ASSUME NEW f \in File, NEW i \in 1..Len(log[f]), Open(f, i)'
             PROVE  NotPast(f, i)'
  BY <1>0 DEF MonthsOver, NotPast
<1>1. Open(f, i)
  BY <1>0, StaysOpen
<1>2. NotPast(f, i) /\ log[f][i] # Dropped
  BY <1>1, OpenNotPast DEF Open
<1>3. MonthOf[log[f][i]] \in Nat
  BY <1>2, LineType
<1> QED
  BY <1>0, <1>2, <1>3 DEF NotPast, NoMonth

\* The first entry of all sets the month.
LEMMA OverEntry ==
  ASSUME LogsInTurn, IInv, IInv', FullInv, FullInv', FreshInv, OrderInv, BoundaryAhead',
         NEW k \in 1..MaxLines, AggregateEntry(k)
  PROVE  MonthsOver'
<1>0. OffsetsOK /\ OffsetsOK' /\ SegmentInv /\ MonthsOver
  BY DEF FullInv, OrderInv
<1>1. /\ month \in {NoMonth, EntryMonth(k)} /\ month' = EntryMonth(k) /\ complete' = complete
      /\ dbMonth' = IF month = NoMonth THEN EntryMonth(k) ELSE dbMonth
      /\ NextEntry(k) /\ acc' = [acc EXCEPT ![agg.file][k] = @ + 1]
      /\ agg' = [agg EXCEPT !.at = k + 1]
  BY DEF AggregateEntry
<1>2. Reads /\ agg.active /\ log' = log
  BY <1>0, AggregateEntryReads DEF Reads
<1>3. CASE month # NoMonth
  <2>1. month' = month /\ dbMonth' = dbMonth
    BY <1>1, <1>3
  <2> QED
    BY <1>0, <1>1, <1>2, <2>1, OverKeep
<1>4. CASE month = NoMonth
  <2> SUFFICES ASSUME NEW f \in File, NEW i \in 1..Len(log[f]), Open(f, i)'
               PROVE  NotPast(f, i)'
    BY <1>2 DEF MonthsOver, NotPast
  <2>0. month' = EntryMonth(k) /\ dbMonth' = EntryMonth(k)
    BY <1>1, <1>4
  <2>1. Open(f, i) /\ NotPast(f, i)
    BY <1>0, <1>2, StaysOpen, OpenNotPast
  <2>2. log[f][i] # Dropped /\ i \in 1..MaxLines
    <3>1. Len(log[f]) \in Nat /\ Len(log[f]) <= MaxLines
      BY <1>0, ReachedFacts
    <3> QED
      BY <2>1, <3>1, SizesAssumption DEF Open
  <2>3. EntryMonth(k) <= MonthOf[log[f][i]]
    <3>1. acc[f][i] = 0
      <4>1. ~(acc[f][i] > 0)
        <5>1. acc[f][i] > 0 => MonthOf[log[f][i]] = NoMonth
          BY <1>0, <1>4, <2>2 DEF SegmentInv, SegmentInMonth
        <5> QED
          BY <2>2, <5>1, LineType
      <4> QED
        BY <2>2, <4>1, LineFacts
    <3>2. Reached(f) < i
      BY <2>1, <3>1 DEF Open
    <3> QED
      BY <1>0, <1>1, <1>2, <2>2, <3>2, NextIsFirst
  <2> QED
    BY <1>1, <1>2, <2>0, <2>1, <2>3 DEF NotPast
<1> QED
  BY <1>3, <1>4

\* Finalizing a month, and going on to the next one.
LEMMA OverClose ==
  ASSUME LogsInTurn, IInv, IInv', FullInv, FullInv', FreshInv, OrderInv, BoundaryAhead',
         FinalizeMonth \/ \E i \in 1..MaxLines : AdvanceMonth(i)
  PROVE  MonthsOver'
<1>0. GapInv /\ OffsetsOK /\ OffsetsOK' /\ SegmentInv /\ MonthsOver
  BY DEF FullInv, OrderInv
<1>1. /\ agg.pc \in {"finalize", "advance"} /\ agg.active /\ acc = NoCount
      /\ Reads /\ log' = log
  <2>1. agg.pc \in {"finalize", "advance"}
    BY DEF FinalizeMonth, AdvanceMonth
  <2>2. Reads
    BY <1>0, ControlReads
  <2> QED
    BY <1>0, <2>1, <2>2, AggFacts DEF SegmentInv, Reads
<1>2. ASSUME NEW f \in File, NEW i \in 1..Len(log[f]), Open(f, i)'
      PROVE  /\ NotPast(f, i) /\ log[f][i] # Dropped /\ MonthOf[log[f][i]] \in Nat
             /\ \A k \in 1..MaxLines : NextEntry(k) => EntryMonth(k) <= MonthOf[log[f][i]]
  <2>1. Open(f, i) /\ NotPast(f, i)
    BY <1>0, <1>1, <1>2, StaysOpen, OpenNotPast
  <2>2. log[f][i] # Dropped /\ i \in 1..MaxLines
    <3>1. Len(log[f]) \in Nat /\ Len(log[f]) <= MaxLines
      BY <1>0, ReachedFacts
    <3> QED
      BY <2>1, <3>1, SizesAssumption DEF Open
  <2>3. Reached(f) < i
    BY <1>1, <2>1, <2>2 DEF Open, NoCount
  <2> QED
    BY <1>0, <1>1, <2>1, <2>2, <2>3, NextIsFirst, LineType
<1>3. CASE FinalizeMonth
  <2>1. complete' = complete \cup {month} /\ UNCHANGED <<dbMonth, month>>
    BY <1>3 DEF FinalizeMonth
  <2>2. PICK k \in 1..MaxLines : NextEntry(k) /\ EntryMonth(k) # month
    BY <1>0, <1>1 DEF MonthsOver, BoundaryAhead
  <2>3. month < EntryMonth(k)
    <3>1. PICK g \in File : g = agg.file
      BY <1>1, AggFacts
    <3>2. k \in Kept(agg.file, agg.at, agg.hi)
      BY <2>2 DEF NextEntry
    <3>3. /\ k \in Nat /\ k <= Len(log[g]) /\ agg.at <= k /\ log[g][k] # Dropped
          /\ Len(log[g]) \in Nat /\ agg.at \in Nat
      BY <1>1, <3>1, <3>2, NextEntryFacts, AggFacts, LoaderFacts
    <3>4. k \in 1..Len(log[g]) /\ Reached(g) < k
      BY <1>1, <3>1, <3>3 DEF Reached
    <3>5. NotPast(g, k)
      BY <1>0, <3>3, <3>4, OpenNotPast DEF Open
    <3>6. MonthOf[log[g][k]] \in Nat /\ month \in Nat
      BY <3>3, <3>4, LineType, AggFacts
    <3> QED
      BY <2>2, <3>1, <3>5, <3>6 DEF NotPast, EntryMonth
  <2>4. ASSUME NEW f \in File, NEW i \in 1..Len(log[f]), Open(f, i)'
        PROVE  NotPast(f, i)'
    <3>1. /\ NotPast(f, i) /\ MonthOf[log[f][i]] \in Nat
          /\ EntryMonth(k) <= MonthOf[log[f][i]]
      BY <1>2, <2>2, <2>4
    <3>2. EntryMonth(k) \in Nat /\ month \in Nat
      <4>1. k \in Kept(agg.file, agg.at, agg.hi)
        BY <2>2 DEF NextEntry
      <4> QED
        BY <1>1, <4>1, NextEntryFacts, AggFacts
    <3>3. month < MonthOf[log[f][i]]
      BY <2>3, <3>1, <3>2
    <3> QED
      BY <1>1, <2>1, <3>1, <3>3 DEF NotPast
  <2> QED
    BY <1>1, <2>4 DEF MonthsOver, NotPast
<1>4. ASSUME NEW k \in 1..MaxLines, AdvanceMonth(k)
      PROVE  MonthsOver'
  <2>1. /\ NextEntry(k) /\ complete' = complete
        /\ dbMonth' = EntryMonth(k) /\ month' = EntryMonth(k)
    BY <1>4 DEF AdvanceMonth
  <2>2. ASSUME NEW f \in File, NEW i \in 1..Len(log[f]), Open(f, i)'
        PROVE  NotPast(f, i)'
    <3>1. NotPast(f, i) /\ EntryMonth(k) <= MonthOf[log[f][i]]
      BY <1>2, <2>1, <2>2
    <3> QED
      BY <1>1, <2>1, <3>1 DEF NotPast
  <2> QED
    BY <1>1, <2>2 DEF MonthsOver, NotPast
<1> QED
  BY <1>3, <1>4

LEMMA OverAppend ==
  ASSUME LogsInTurn, IInv, OrderInv, BoundaryAhead', NEW h \in File,
         NEW t \in Stamps \cup {Dropped}, <<h, t>> \in Appendable, AppendLine(h, t)
  PROVE  MonthsOver'
<1>0. MonthsOver /\ MonthsSeen
  BY DEF OrderInv
<1>1. UNCHANGED <<stored, complete, dbMonth, month, agg, acc, pending>>
  BY AppendedLine
<1>2. \A f \in File : Reached(f)' = Reached(f)
  BY <1>1 DEF Reached, NextOffset
<1>3. ASSUME NEW f \in File, NEW i \in 1..Len(log'[f]), Open(f, i)'
      PROVE  NotPast(f, i)'
  <2>1. log'[f][i] # Dropped
    BY <1>3 DEF Open
  <2>2. CASE i \in 1..Len(log[f]) /\ log'[f][i] = log[f][i]
    <3>1. Open(f, i)
      BY <1>1, <1>2, <1>3, <2>2 DEF Open
    <3> QED
      BY <1>0, <1>1, <2>2, <3>1, OpenNotPast DEF NotPast
  <2>3. CASE f = h /\ log'[f][i] = t
    <3>1. t \in Stamps /\ MonthOf[t] \in Nat
      BY <2>1, <2>3, StampsAssumption
    <3>2. \A m : Seen(m) => m <= MonthOf[t] \/ m \notin Nat
      <4> SUFFICES ASSUME NEW m \in Nat, Seen(m) PROVE m <= MonthOf[t]
        OBVIOUS
      <4>1. PICK g \in File : \E j \in 1..Len(log[g]) :
                                log[g][j] # Dropped /\ m <= MonthOf[log[g][j]]
        BY DEF Seen
      <4>2. PICK j \in 1..Len(log[g]) : log[g][j] # Dropped /\ m <= MonthOf[log[g][j]]
        BY <4>1
      <4>3. MonthOf[log[g][j]] <= MonthOf[t] /\ MonthOf[log[g][j]] \in Nat
        BY <3>1, <4>2, NewIsLast, LineType
      <4> QED
        BY <3>1, <4>2, <4>3
    <3>3. complete \subseteq Nat /\ dbMonth \in Nat /\ month \in Nat
      BY DEF IInv, TypeOK, DbType, AggType
    <3>4. \A m \in complete : m < MonthOf[t]
      <4> SUFFICES ASSUME NEW m \in complete PROVE m < MonthOf[t]
        OBVIOUS
      <4>1. m \in Nat /\ m + 1 \in Nat /\ Seen(m + 1)
        BY <1>0, <3>3 DEF MonthsSeen
      <4>2. m + 1 <= MonthOf[t]
        BY <3>2, <4>1
      <4> QED
        BY <3>1, <4>1, <4>2
    <3>5. dbMonth <= MonthOf[t] /\ month <= MonthOf[t]
      <4>1. dbMonth = NoMonth \/ Seen(dbMonth)
        BY <1>0 DEF MonthsSeen
      <4>2. month = NoMonth \/ Seen(month)
        BY <1>0 DEF MonthsSeen
      <4> QED
        BY <3>1, <3>2, <3>3, <4>1, <4>2 DEF NoMonth
    <3> QED
      BY <1>1, <2>3, <3>4, <3>5 DEF NotPast
  <2> QED
    BY <2>2, <2>3, NewLine
<1> QED
  BY <1>3 DEF MonthsOver, NotPast


LEMMA OverNext ==
  ASSUME LogsInTurn, IInv, IInv', FullInv, FullInv', FreshInv, OrderInv, [Next]_vars
  PROVE  MonthsOver'
<1>0. GapInv /\ OffsetsOK /\ SegmentInv /\ MonthsOver
  BY DEF FullInv, OrderInv
<1>1. BoundaryAhead'
  BY <1>0, AheadNext DEF MonthsOver
<1>2. CASE UNCHANGED vars \/ EmptyRun \/ StartRun \/ LoaderStep \/ LoaderError \/ ParserStep
  <2>1. UNCHANGED <<log, stored, agg, acc, pending, complete, dbMonth>>
    BY <1>2, ThreadFrame DEF EmptyRun, StartRun, vars, dbVars, aggVars
  <2>2. month' = month \/ month' = dbMonth
    BY <1>2, ThreadFrame DEF EmptyRun, StartRun, vars, aggVars
  <2> QED
    BY <1>0, <1>1, <2>1, <2>2, FrameReads, OverKeep
<1>3. CASE AggFileStart \/ AggFileDone \/ AggEntries \/ SetLastLogTs \/ NoCheckpoint
  <2>1. Reads
    BY <1>0, <1>3, AggFileStartReads, AggFileDoneReads, AggEntriesReads, ControlReads
  <2>2. UNCHANGED <<complete, dbMonth, month>>
    BY <1>3 DEF AggFileStart, AggFileDone, AggEntries, SetLastLogTs, NoCheckpoint, dbVars
  <2> QED
    BY <1>0, <1>1, <2>1, <2>2, OverKeep
<1>4. CASE Checkpoint \/ FinalFlush \/ \E i \in 1..MaxLines : MonthBoundary(i)
  <2>1. Flushes /\ UNCHANGED <<complete, dbMonth, month>>
    BY <1>0, <1>4, StepFlushes
  <2> QED
    BY <1>0, <1>1, <2>1, OverKeep
<1>5. CASE \E i \in 1..MaxLines : AggregateEntry(i)
  BY <1>1, <1>5, OverEntry
<1>6. CASE FinalizeMonth \/ \E i \in 1..MaxLines : AdvanceMonth(i)
  BY <1>1, <1>6, OverClose
<1>7. CASE EndRun \/ AbortRun \/ Crash
  <2>1. Stops /\ UNCHANGED <<complete, dbMonth>> /\ month' = NoMonth
    BY <1>7, StopStops, StoppedFacts DEF Stops
  <2> QED
    BY <1>0, <1>1, <2>1, OverKeep
<1>8. CASE \E a \in Appendable : AppendLine(a[1], a[2])
  BY <1>1, <1>8, AppendedTo, OverAppend
<1> QED
  BY <1>2, <1>3, <1>4, <1>5, <1>6, <1>7, <1>8, AggKinds DEF Next, Control

LEMMA SeenEntryMonth ==
  ASSUME IInv, agg.active, NEW k \in 1..MaxLines, NextEntry(k), NEW m, m <= EntryMonth(k)
  PROVE  Seen(m)
<1>1. k \in Kept(agg.file, agg.at, agg.hi)
  BY DEF NextEntry
<1>2. /\ k \in Nat /\ k <= Len(log[agg.file]) /\ log[agg.file][k] # Dropped
      /\ Len(log[agg.file]) \in Nat /\ agg.file \in File
  BY <1>1, NextEntryFacts, AggFacts, LoaderFacts
<1>3. k \in 1..Len(log[agg.file])
  BY <1>2
<1> QED
  BY <1>2, <1>3 DEF Seen, EntryMonth

LEMMA MonthsSeenNext ==
  ASSUME LogsInTurn, IInv, FullInv, OrderInv, [Next]_vars
  PROVE  MonthsSeen'
<1>0. GapInv /\ OffsetsOK /\ SegmentInv /\ MonthsOver /\ MonthsSeen
  BY DEF FullInv, OrderInv
<1>1. \A k \in 1..MaxLines : agg.active /\ NextEntry(k) =>
        EntryMonth(k) \in Nat /\ \A m : m <= EntryMonth(k) => Seen(m)
  <2> SUFFICES ASSUME NEW k \in 1..MaxLines, agg.active, NextEntry(k)
               PROVE  EntryMonth(k) \in Nat /\ \A m : m <= EntryMonth(k) => Seen(m)
    OBVIOUS
  <2>1. k \in Kept(agg.file, agg.at, agg.hi)
    BY DEF NextEntry
  <2> QED
    BY <2>1, SeenEntryMonth, NextEntryFacts
<1>2. CASE /\ log' = log
           /\ complete' = complete
           /\ dbMonth' \in {dbMonth, NoMonth} \/ Seen(dbMonth')
           /\ month' \in {month, dbMonth, NoMonth} \/ Seen(month')
  <2>1. \A m : Seen(m)' <=> Seen(m)
    BY <1>2 DEF Seen
  <2> QED
    BY <1>0, <1>2, <2>1 DEF MonthsSeen
<1>3. CASE UNCHANGED vars \/ EmptyRun \/ StartRun \/ LoaderStep \/ LoaderError \/ ParserStep
  <2>1. /\ UNCHANGED <<log, complete, dbMonth>>
        /\ month' = month \/ month' = dbMonth
    BY <1>3, ThreadFrame DEF EmptyRun, StartRun, vars, dbVars, aggVars
  <2> QED
    BY <1>2, <2>1
<1>4. CASE AggFileStart \/ AggFileDone \/ AggEntries \/ SetLastLogTs \/ NoCheckpoint
  <2>1. UNCHANGED <<complete, dbMonth, month>> /\ AggVarsOnly
    BY <1>4 DEF AggFileStart, AggFileDone, AggEntries, SetLastLogTs, NoCheckpoint, dbVars
  <2> QED
    BY <1>2, <2>1, AggUnchanged
<1>5. CASE Checkpoint \/ FinalFlush \/ \E i \in 1..MaxLines : MonthBoundary(i)
  <2>1. log' = log /\ UNCHANGED <<complete, dbMonth, month>>
    BY <1>0, <1>5, StepFlushes DEF Flushes
  <2> QED
    BY <1>2, <2>1
<1>6. ASSUME NEW k \in 1..MaxLines, AggregateEntry(k) \/ AdvanceMonth(k)
      PROVE  MonthsSeen'
  <2>1. /\ NextEntry(k) /\ agg.pc \in {"entries", "advance"} /\ complete' = complete
        /\ month' = EntryMonth(k) /\ dbMonth' \in {dbMonth, EntryMonth(k)} /\ AggVarsOnly
    BY <1>6 DEF AggregateEntry, AdvanceMonth
  <2>2. agg.active
    BY <2>1, AggFacts
  <2>3. Seen(EntryMonth(k))
    BY <1>1, <2>1, <2>2
  <2> QED
    BY <1>2, <2>1, <2>3, AggUnchanged
<1>7. CASE FinalizeMonth
  <2>1. /\ agg.pc = "finalize" /\ complete' = complete \cup {month}
        /\ UNCHANGED <<dbMonth, month>> /\ AggVarsOnly
    BY <1>7 DEF FinalizeMonth
  <2>2. agg.active /\ log' = log
    BY <2>1, AggFacts, AggUnchanged
  <2>3. PICK k \in 1..MaxLines : NextEntry(k) /\ EntryMonth(k) # month
    BY <1>0, <2>1 DEF MonthsOver, BoundaryAhead
  <2>4. Seen(month + 1)
    <3>1. PICK g \in File : g = agg.file
      BY <2>2, AggFacts
    <3>2. k \in Kept(agg.file, agg.at, agg.hi)
      BY <2>3 DEF NextEntry
    <3>3. /\ k \in Nat /\ k <= Len(log[g]) /\ agg.at <= k /\ log[g][k] # Dropped
          /\ Len(log[g]) \in Nat /\ agg.at \in Nat
      BY <2>2, <3>1, <3>2, NextEntryFacts, AggFacts, LoaderFacts
    <3>4. k \in 1..Len(log[g]) /\ Reached(g) < k
      BY <2>2, <3>1, <3>3 DEF Reached
    <3>5. month <= EntryMonth(k)
      BY <1>0, <3>1, <3>3, <3>4 DEF Open, MonthsOver, EntryMonth
    <3>6. month \in Nat /\ EntryMonth(k) \in Nat
      BY <1>1, <2>2, <2>3, AggFacts
    <3>7. month + 1 <= EntryMonth(k)
      BY <2>3, <3>5, <3>6
    <3> QED
      BY <1>1, <2>2, <2>3, <3>7
  <2>5. \A m : Seen(m)' <=> Seen(m)
    BY <2>2 DEF Seen
  <2> QED
    BY <1>0, <2>1, <2>4, <2>5 DEF MonthsSeen
<1>8. CASE EndRun \/ AbortRun \/ Crash
  <2>1. log' = log /\ UNCHANGED <<complete, dbMonth>> /\ month' = NoMonth
    BY <1>8, StopStops, StoppedFacts DEF Stops
  <2> QED
    BY <1>2, <2>1
<1>9. CASE \E a \in Appendable : AppendLine(a[1], a[2])
  <2>1. PICK g \in File, t \in Stamps \cup {Dropped} : AppendLine(g, t)
    BY <1>9, AppendedTo
  <2>2. UNCHANGED <<complete, dbMonth, month>>
    BY <2>1, AppendedLine
  <2>3. \A f \in File : \A i \in 1..Len(log[f]) :
          i \in 1..Len(log'[f]) /\ log'[f][i] = log[f][i]
    BY <2>1, AppendedLine
  <2>4. \A m : Seen(m) => Seen(m)'
    BY <2>3 DEF Seen
  <2> QED
    BY <1>0, <2>2, <2>4 DEF MonthsSeen
<1> QED
  BY <1>3, <1>4, <1>5, <1>6, <1>7, <1>8, <1>9, AggKinds DEF Next, Control


-----------------------------------------------------------------------------
(* The files a run leaves out.                                             *)

LEMMA SkippedStart ==
  ASSUME LogsInTurn, IInv, FullInv, OrderInv, StartRun, CoverInv
  PROVE  SkippedAreDone'
<1>0. OffsetsOK
  BY DEF FullInv
<1>1. /\ log' = log /\ count' = count /\ skipped' = OrderSkip /\ todo' = Pending \ OrderSkip
      /\ agg = IdleAgg /\ acc = NoCount /\ pending = NoPending
      /\ \A f \in File : plan'[f].offset = ResumeOffset(f) /\ plan'[f].size = Len(log[f])
  BY DEF StartRun, IInv, QuietWhenIdle, dbVars
<1>2. ASSUME NEW f \in OrderSkip, NEW i \in 1..Len(log[f]), log[f][i] # Dropped
      PROVE  count[f][i] >= 1
  <2>1. f \in File /\ f \notin todo' /\ f < NFiles
    <3>1. f \in File /\ \E g \in File : f < g
      BY DEF OrderSkip, Pending
    <3> QED
      BY <1>1, <3>1, FileFacts
  <2>2. /\ stored[f].offset \in Nat /\ Len(log[f]) \in Nat /\ stored[f].offset <= Len(log[f])
        /\ Len(log[f]) <= MaxLines
    BY <1>0, <2>1, ReachedFacts
  <2>3. Exhausted(log[f], stored[f].offset)
    <3>1. plan'[f].offset = stored[f].offset
      BY <1>1, <2>1, <2>2 DEF ResumeOffset
    <3> QED
      BY <2>1, <3>1, LeftOut
  <2>4. Reached(f) = stored[f].offset
    BY <1>1, <2>1 DEF Reached, NextOffset, NoPending, NoRow, IdleAgg
  <2>5. i \in 1..Reached(f) /\ i \in 1..MaxLines
    BY <1>2, <2>2, <2>3, <2>4, SizesAssumption DEF Exhausted
  <2>6. count[f][i] + acc[f][i] > 0
    BY <1>2, <2>1, <2>5 DEF CoverInv, Touched
  <2>7. acc[f][i] = 0 /\ count[f][i] \in Nat
    BY <1>1, <2>1, <2>5, LineFacts DEF NoCount
  <2> QED
    BY <2>6, <2>7
<1>3. OrderSkip \subseteq File
  BY DEF OrderSkip, Pending
<1> QED
  BY <1>1, <1>2, <1>3 DEF SkippedAreDone

\* Steps that are neither the start nor the end of a run.
LEMMA SkippedKeep ==
  ASSUME IInv, IInv', FullInv, SkippedInv, [Next]_vars, UNCHANGED <<plan, skipped>>
  PROVE  SkippedInv'
<1>1. \A f \in File : /\ Len(log[f]) \in Nat /\ Len(log'[f]) \in Nat /\ plan[f].size \in Nat
                      /\ Len(log[f]) <= Len(log'[f])
                      /\ \A i \in 1..Len(log[f]) : log'[f][i] = log[f][i]
  <2>1. CASE log' = log
    BY <2>1, LoaderFacts
  <2>2. CASE \E a \in Appendable : AppendLine(a[1], a[2])
    BY <2>2, AppendedTo, AppendedLine, LoaderFacts
  <2> QED
    BY <2>1, <2>2, StepCounts
<1>2. \A f \in File, i \in 1..MaxLines : count[f][i] >= 1 => count'[f][i] >= 1
  <2>1. \A f \in File, i \in 1..MaxLines : count[f][i] \in Nat /\ acc[f][i] \in Nat
    BY LineFacts
  <2>2. \A f \in File, i \in 1..MaxLines :
          count'[f][i] = count[f][i] \/ count'[f][i] = count[f][i] + acc[f][i]
    <3>1. CASE \E a \in Appendable : AppendLine(a[1], a[2])
      BY <3>1, AppendedTo, AppendedLine
    <3> QED
      BY <3>1, StepCounts
  <2> QED
    BY <2>1, <2>2
<1>3. \A f \in File : plan'[f].size <= Len(log'[f])
  BY <1>1 DEF SkippedInv
<1>4. ASSUME faults' = 0 \/ Lockstep', NEW f \in skipped, NEW i \in 1..plan[f].size,
             log'[f][i] # Dropped
      PROVE  count'[f][i] >= 1
  <2>1. f \in File
    BY DEF IInv, TypeOK, RunType
  <2>2. i \in 1..Len(log[f])
    BY <1>1, <2>1 DEF SkippedInv
  <2>3. Len(log[f]) <= MaxLines /\ Len(log[f]) \in Nat
    BY <2>1, ReachedFacts DEF FullInv
  <2>4. i \in 1..MaxLines
    BY <2>2, <2>3, SizesAssumption
  <2>5. faults = 0 \/ Lockstep
    BY <1>4, Looking
  <2>6. log[f][i] # Dropped
    BY <1>1, <1>4, <2>1, <2>2
  <2> QED
    BY <1>2, <1>4, <2>1, <2>4, <2>5, <2>6 DEF SkippedInv, SkippedAreDone
<1> QED
  BY <1>3, <1>4 DEF SkippedInv, SkippedAreDone

LEMMA SkippedNext ==
  ASSUME LogsInTurn, IInv, IInv', FullInv, OrderInv, [Next]_vars
  PROVE  SkippedInv'
<1>0. SkippedInv
  BY DEF OrderInv
<1>1. CASE StartRun
  <2>1. \A f \in File : plan'[f].size = Len(log'[f]) /\ Len(log[f]) \in Nat /\ log' = log
    BY <1>1, LoaderFacts DEF StartRun
  <2>2. faults' = 0 \/ Lockstep' => SkippedAreDone'
    BY <1>1, Looking, SkippedStart DEF FullInv
  <2> QED
    BY <2>1, <2>2 DEF SkippedInv
<1>2. CASE EndRun \/ AbortRun \/ Crash
  <2>1. plan' = NoPlan /\ skipped' = {} /\ log' = log
    BY <1>2 DEF EndRun, AbortRun, Crash, Stop
  <2>2. \A f \in File : plan'[f].size <= Len(log'[f])
    BY <2>1, LoaderFacts DEF NoPlan
  <2> QED
    BY <2>1, <2>2 DEF SkippedInv, SkippedAreDone
<1>3. CASE UNCHANGED <<plan, skipped>>
  BY <1>0, <1>3, SkippedKeep
<1>4. CASE UNCHANGED vars \/ EmptyRun \/ LoaderStep \/ LoaderError \/ ParserStep
  BY <1>3, <1>4, ThreadFrame DEF EmptyRun, vars, runVars
<1>5. CASE AggStep /\ ~(EndRun \/ AbortRun)
  <2>1. AggVarsOnly
    BY <1>5 DEF AggStep, AggFileStart, AggEntries, AggregateEntry, MonthBoundary, AdvanceMonth,
                SetLastLogTs, FinalizeMonth, NoCheckpoint, Checkpoint, AggFileDone, FinalFlush
  <2> QED
    BY <1>3, <2>1, AggUnchanged
<1>6. CASE \E a \in Appendable : AppendLine(a[1], a[2])
  BY <1>3, <1>6, AppendedTo, AppendedLine
<1> QED
  BY <1>1, <1>2, <1>4, <1>5, <1>6 DEF Next

-----------------------------------------------------------------------------
(* The invariant, and what follows from it.                                *)

LEMMA OrderNext ==
  ASSUME LogsInTurn, IInv, IInv', FullInv, FullInv', FreshInv, OrderInv, [Next]_vars
  PROVE  OrderInv'
<1>1. Chronological(log)' /\ \E i \in 1..Len(log'[NFiles]) : log'[NFiles][i] # Dropped
  <2>1. CASE log' = log
    BY <2>1 DEF OrderInv, Chronological
  <2>2. CASE \E a \in Appendable : AppendLine(a[1], a[2])
    BY <2>2, AppendedTo, ChronologicalNext
  <2> QED
    BY <2>1, <2>2, StepCounts
<1>2. StreamInv' /\ PassedInv' /\ RowsInv' /\ SeenInv'
  BY StreamNext, PassedNext, RowsNext, SeenNext
<1>3. MonthsOver' /\ MonthsSeen' /\ SkippedInv'
  BY OverNext, MonthsSeenNext, SkippedNext
<1> QED
  BY <1>1, <1>2, <1>3 DEF OrderInv

LEMMA InitFresh == Init => FreshInv
<1> SUFFICES ASSUME Init PROVE FreshInv
  OBVIOUS
<1>1. \A f \in File : Reached(f) = 0
  BY DEF Init, Reached, NextOffset, NoPending, NoRow, IdleAgg
<1> QED
  BY <1>1 DEF FreshInv

LEMMA InitOrder == ASSUME LogsInTurn PROVE Init => OrderInv
<1> SUFFICES ASSUME Init PROVE OrderInv
  OBVIOUS
<1>1. /\ log \in Logs /\ stored = [f \in File |-> NoRow] /\ mode = "idle" /\ skipped = {}
      /\ plan = NoPlan /\ loader = IdleLoader /\ toParser = <<>> /\ toAgg = <<>>
      /\ agg = IdleAgg /\ acc = NoCount /\ pending = NoPending
      /\ dbMonth = 0 /\ complete = {} /\ dbSeen = 0 /\ lastLog = 0 /\ month = 0 /\ seen = 0
      /\ Len(toParser) = 0 /\ Len(toAgg) = 0
  BY EmptyLen DEF Init, NoMonth
<1>2. IInv
  BY InitIInv
<1>3. Chronological(log)
  BY <1>1 DEF LogsInTurn
<1>4. \E i \in 1..Len(log[NFiles]) : log[NFiles][i] # Dropped
  BY <1>1, FileFacts, LogsAssumption DEF IsFirstKept
<1>5. StreamInv
  <2>1. 1..(0 - 1) = {}
    OBVIOUS
  <2>2. /\ \A k \in 1..(Len(toParser) - 1) : FALSE
        /\ \A k \in 1..(Len(toAgg) - 1) : FALSE
    BY <1>1, <2>1
  <2> QED
    BY <1>1, <2>2 DEF StreamInv, LoaderInTurn, InTurn, IdleLoader
<1>6. PassedInv /\ RowsInv
  BY <1>1 DEF PassedInv, RowsInv, NoRow
<1>7. \A f \in File : \A i \in 1..Len(log[f]) : 0 <= log[f][i] /\ log[f][i] \in Nat
  BY <1>2, LineType
<1>8. SeenInv
  BY <1>1, <1>7 DEF SeenInv, IdleAgg
<1>9. MonthsOver
  <2>1. \A f \in File : \A i \in 1..Len(log[f]) : Open(f, i) => 0 <= MonthOf[log[f][i]]
    BY <1>2, LineType DEF Open
  <2> QED
    BY <1>1, <2>1 DEF MonthsOver, BoundaryAhead, IdleAgg
<1>10. MonthsSeen
  BY <1>1 DEF MonthsSeen, NoMonth
<1>11. SkippedInv
  <2>1. \A f \in File : plan[f].size <= Len(log[f])
    BY <1>1, <1>2, LoaderFacts DEF NoPlan
  <2> QED
    BY <1>1, <2>1 DEF SkippedInv, SkippedAreDone
<1> QED
  BY <1>3, <1>4, <1>5, <1>6, <1>8, <1>9, <1>10, <1>11 DEF OrderInv

\* The three inductive invariants hold in every state, the last one for logs
\* that are written one after the other.
THEOREM RunsInvariant == Spec => []RunsInv
<1>1. Init => RunsInv
  BY InitIInv, InitFull, InitFresh, InitOrder DEF RunsInv
<1>2. RunsInv /\ [Next]_vars => RunsInv'
  <2> SUFFICES ASSUME RunsInv, [Next]_vars PROVE RunsInv'
    OBVIOUS
  <2>1. IInv /\ FullInv /\ FreshInv /\ (LogsInTurn => OrderInv)
    BY DEF RunsInv
  <2>2. IInv'
    BY <2>1, NextIInv
  <2>3. FullInv'
    BY <2>1, <2>2, NextFull
  <2>4. FreshInv'
    BY <2>1, <2>2, <2>3, FreshNext
  <2>5. LogsInTurn => OrderInv'
    BY <2>1, <2>2, <2>3, OrderNext
  <2> QED
    BY <2>2, <2>3, <2>4, <2>5 DEF RunsInv
<1> QED
  BY <1>1, <1>2, PTL DEF Spec

\* Once finalize_month has closed a month of logs written one after the
\* other, no flush adds a line to it, whatever crashes, read errors and runs
\* again there are.
THEOREM MonthsStayClosed ==
  ASSUME LogsInTurn
  PROVE  Spec => ClosedMonthsStayClosed
<1>1. RunsInv /\ [Next]_vars =>
        [\A f \in File, i \in 1..MaxLines :
           count'[f][i] # count[f][i] => MonthOf[log[f][i]] \notin complete]_vars
  <2> SUFFICES ASSUME RunsInv, [Next]_vars, NEW f \in File, NEW i \in 1..MaxLines,
                      count'[f][i] # count[f][i]
               PROVE  MonthOf[log[f][i]] \notin complete
    OBVIOUS
  <2>1. IInv /\ MonthsOver
    BY DEF RunsInv, OrderInv
  <2>2. CASE \E a \in Appendable : AppendLine(a[1], a[2])
    BY <2>1, <2>2, AppendedTo, AppendedLine
  <2>3. CASE count'[f][i] = count[f][i] + acc[f][i]
    <3>1. count[f][i] \in Nat /\ acc[f][i] \in Nat
      BY <2>1, LineFacts
    <3>2. acc[f][i] > 0
      BY <2>3, <3>1
    <3>3. i <= Len(log[f]) /\ log[f][i] # Dropped /\ Len(log[f]) \in Nat
      BY <2>1, <3>1, <3>2, LineFacts, LoaderFacts DEF Touched
    <3>4. i \in 1..Len(log[f])
      BY <3>3
    <3>5. NotPast(f, i)
      BY <2>1, <3>2, <3>3, <3>4, OpenNotPast DEF Open
    <3>6. MonthOf[log[f][i]] \in Nat
      BY <2>1, <3>3, <3>4, LineType
    <3> QED
      BY <3>5, <3>6 DEF NotPast
  <2> QED
    BY <2>1, <2>2, <2>3, StepCounts
<1> QED
  BY <1>1, RunsInvariant, PTL DEF Spec, ClosedMonthsStayClosed

\* What the order-based skip leaves out of a run was entirely counted when
\* the run was planned, for logs written one after the other, as long as no
\* fault has lost a line.
THEOREM NothingSkippedByOrder ==
  ASSUME LogsInTurn
  PROVE  Spec => [](faults = 0 \/ Lockstep => SkippedAreDone)
<1>1. RunsInv => (faults = 0 \/ Lockstep => SkippedAreDone)
  BY DEF RunsInv, OrderInv, SkippedInv
<1> QED
  BY <1>1, RunsInvariant, PTL
=============================================================================
