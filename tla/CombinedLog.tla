------------------------------ MODULE CombinedLog ------------------------------
(***************************************************************************)
(* The parser of the combined log format, parse_line.                      *)
(*                                                                         *)
(* Data abstraction.  A line is a sequence of pieces.  Space, brackets,    *)
(* quote and newline are pieces of their own; any other piece stands for a *)
(* run of bytes without one of them, and where a line may be torn there is *)
(* a border of pieces.  What digits mean is given by functions on texts.   *)
(* A byte that the code skips unseen is a space in every line that has it. *)
(***************************************************************************)
EXTENDS Naturals, SequencesExt

CONSTANTS
  TimeOf,     \* texts of 26 bytes and more with a month -> [day, hour], or
              \* NoTime if another of its numbers is none
  StatusOf,   \* texts that begin with three digits -> status
  BytesOf,    \* digits -> number
  MillisOf,   \* digits and dots -> milliseconds: seconds with a dot, else microseconds
  NonAscii    \* pieces with bytes outside ASCII

Space == " "
Quote == "\""
Newline == "\n"

NoTime == [day |-> 0, hour |-> 0]
None == [parsed |-> "none"]
Panic == [parsed |-> "panic"]

Methods == {"GET", "HEAD", "OPTIONS", "POST", "PATCH", "PUT", "DELETE", "CONNECT", "PROPFIND", "PRI"}

\* Where a scan ends that starts at i and finds nothing.
ScanEnd(b, i) == IF i > Len(b) THEN i ELSE Len(b) + 1

Find(b, i, c) == Min({j \in i..Len(b) : b[j] = c} \cup {ScanEnd(b, i)})
SkipSpaces(b, i) == Min({j \in i..Len(b) : b[j] # Space} \cup {ScanEnd(b, i)})

At(b, i, c) == i \in DOMAIN b /\ b[i] = c
Text(b, i, j) == SubSeq(b, i, j - 1)
TextOf(f, t) == IF t \in DOMAIN f THEN {f[t]} ELSE {}

\* Where each field begins and ends, as far as the line goes.
Spans(b) ==
  LET ipEnd     == Find(b, 1, Space)
      open      == Find(b, Find(b, ipEnd + 1, Space) + 1, Space) + 1
      shut      == Find(b, open + 1, "]")
      reqEnd    == Find(b, shut + 3, Quote)
      status    == SkipSpaces(b, reqEnd + 2)
      statusEnd == Find(b, status, Space)
      bytes     == SkipSpaces(b, statusEnd + 1)
      bytesEnd  == Find(b, bytes, Space)
      referer   == SkipSpaces(b, bytesEnd + 1)
      refEnd    == Find(b, referer + 1, Quote)
      agent     == SkipSpaces(b, refEnd + 2)
      agentEnd  == Find(b, agent + 1, Quote)
  IN [ipEnd |-> ipEnd, open |-> open, shut |-> shut, reqEnd |-> reqEnd,
      status |-> status, statusEnd |-> statusEnd, bytes |-> bytes, bytesEnd |-> bytesEnd,
      referer |-> referer, refEnd |-> refEnd, agent |-> agent, agentEnd |-> agentEnd]

Request(b, s) == Text(b, s.shut + 3, s.reqEnd)

\* Address, user, time stamp, request and status.
HeadParses(b, s) ==
  /\ s.ipEnd > 1
  /\ At(b, s.open, "[") /\ s.shut + 2 <= Len(b) /\ b[s.shut + 1] = Space
  /\ Text(b, s.open + 1, s.shut) \in DOMAIN TimeOf
  /\ At(b, s.shut + 2, Quote) /\ s.reqEnd \in (s.shut + 4)..Len(b)
  /\ ToSet(Request(b, s)) \cap NonAscii = {}
  /\ Head(Request(b, s)) \in Methods /\ At(Request(b, s), 2, Space)
  /\ s.status < s.statusEnd
  /\ Text(b, s.status, s.statusEnd) \in DOMAIN StatusOf

\* The slice of the size begins after the end of a line that ends with the status.
SizeOutOfRange(b, s) == s.bytes > Len(b) + 1

PathEnd(req) == Find(req, Find(req, 1, Space) + 1, Space)

\* Mutant: the quote that closes the user agent is not looked for.
TailParsesLoosely(b, s) ==
  /\ At(b, s.referer, Quote) /\ s.refEnd <= Len(b)
  /\ At(b, s.agent, Quote)
  /\ PathEnd(Request(b, s)) < Len(Request(b, s))

\* Referer and user agent; a request has method, path and protocol.
TailParses(b, s) ==
  /\ At(b, s.referer, Quote) /\ s.refEnd <= Len(b)
  /\ At(b, s.agent, Quote) /\ s.agentEnd <= Len(b)
  /\ PathEnd(Request(b, s)) < Len(Request(b, s))

\* find_kv_ms: the digits after the first "us=", wherever it stands.
MillisIn(tail) ==
  LET digits(i) == Min({j \in i..Len(tail) : <<tail[j]>> \notin DOMAIN MillisOf} \cup {ScanEnd(tail, i)})
      from == Find(tail, 1, "us=") + 1
  IN IF from > Len(tail) THEN {} ELSE TextOf(MillisOf, Text(tail, from, digits(from)))

LogEntry(b, s) ==
  LET req == Request(b, s)
      methodEnd == Find(req, 1, Space)
      size == TextOf(BytesOf, Text(b, s.bytes, s.bytesEnd))
  IN [parsed  |-> "entry",
      ip      |-> Text(b, 1, s.ipEnd),
      time    |-> TimeOf[Text(b, s.open + 1, s.shut)],
      method  |-> Text(req, 1, methodEnd),
      path    |-> Text(req, methodEnd + 1, PathEnd(req)),
      proto   |-> SubSeq(req, PathEnd(req) + 1, Len(req)),
      status  |-> StatusOf[Text(b, s.status, s.statusEnd)],
      bytes   |-> IF size = {} THEN 0 ELSE CHOOSE n \in size : TRUE,
      referer |-> Text(b, s.referer + 1, s.refEnd),
      agent   |-> Text(b, s.agent + 1, s.agentEnd),
      millis  |-> MillisIn(SubSeq(b, s.agentEnd + 1, Len(b)))]

ParseLine(b) ==
  LET s == Spans(b) IN
  CASE ~HeadParses(b, s)     -> None
    [] HeadParses(b, s) /\ SizeOutOfRange(b, s) -> Panic
    [] OTHER -> IF TailParses(b, s) THEN LogEntry(b, s) ELSE None
=============================================================================
