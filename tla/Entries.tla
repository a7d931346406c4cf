-------------------------------- MODULE Entries --------------------------------
(***************************************************************************)
(* From a line to the counters: the parser thread parses each line, leaves *)
(* out what is before the rollback target, bots and what the rules drop;   *)
(* the aggregator adds the entry to the tables of its accumulators, which  *)
(* checkpoints merge into the database.  The web server may be writing the *)
(* last line when it is read: its rest is read by the next run.            *)
(*                                                                         *)
(* Data abstraction.  What the user-agent and country databases say of a   *)
(* text is given by functions.  A batch of equal lines is read in a step,  *)
(* and sampling keeps or drops it as a whole.  Response times over         *)
(* LastMilli are in the overflow of a histogram.                           *)
(***************************************************************************)
EXTENDS CombinedLog, Rules

CONSTANTS
  Lines,        \* lines as they were meant: the text of each field
  Malformed,    \* other lines, as pieces
  Configs,      \* rules, bot filter, rollback target (a day, 0 if none) and
                \* tables that are kept, one in a behaviour
  Cuts,         \* where the last line may be torn: after so many pieces
  Copies,       \* sizes of a batch
  Bots,         \* user agents that are bots
  FamilyOf,     \* user agent -> family
  OctetOf,      \* digits -> 0..255
  AddressesV6,  \* texts of IPv6 addresses
  CountryOf,    \* address -> country, "--" if unknown
  LastMilli,    \* BUCKET_COUNT - 1, 60000
  Percentile,   \* 95
  MaxReads, MaxFlushes  \* bounds: batches read, flushes

ASSUME ConfigsAssumption == \A c \in Configs : c.rules \in Seq(ToSet(c.rules))

ASSUME NumbersAssumption ==
  /\ LastMilli \in Nat /\ Percentile \in 1..100 /\ Copies \subseteq Nat \ {0}
  /\ \A t \in DOMAIN BytesOf : BytesOf[t] \in Nat
  /\ \A t \in DOMAIN MillisOf : MillisOf[t] \in Nat

\* What ends a field is not in it, and the size and the digits end where they should.
WellFormed(l) ==
  /\ \A t \in {l.ip, l.time, l.method, l.path, l.proto, l.status, l.size, l.referer, l.agent, l.millis} :
       t \in Seq(ToSet(t))
  /\ <<>> \notin {l.ip, l.proto, l.status, l.size}
  /\ \A t \in {l.ip, l.path, l.status, l.size} : Space \notin ToSet(t)
  /\ \A t \in {l.method, l.path, l.proto, l.referer, l.agent} : Quote \notin ToSet(t)
  /\ \A t \in {<<Space>>, l.method, l.path, l.proto} : ToSet(t) \cap NonAscii = {}
  /\ l.time \in DOMAIN TimeOf /\ "]" \notin ToSet(l.time)
  /\ \E m \in Methods : l.method = <<m>>
  /\ l.status \in DOMAIN StatusOf
  /\ IF l.size = <<"-">> THEN l.size \notin DOMAIN BytesOf ELSE l.size \in DOMAIN BytesOf
  /\ <<Newline>> \notin DOMAIN MillisOf
  /\ l.millis # <<>> =>
       l.millis \in DOMAIN MillisOf /\ \A p \in ToSet(l.millis) : <<p>> \in DOMAIN MillisOf

ASSUME LinesAssumption == \A l \in Lines : WellFormed(l)

VARIABLES
  config,
  phase,        \* "start", "running", "refused" or "panicked"
  rest,         \* what is left of the torn line, <<>> if nothing
  rows,         \* accumulators: bag of <<table, key>>, a hit each
  bytes,        \* and of bandwidth, for the tables that have it
  stored,       \* the rows that checkpoints merged into the database
  ruleStats,    \* bag of <<rule, effect>>
  botFiltered,
  \* History.
  log,          \* bag of [entry, kept]: whole lines as they were meant
  torn,         \* the torn line, where, and what was made of its two parts
  reads, flushes

vars == <<config, phase, rest, rows, bytes, stored, ruleStats, botFiltered, log, torn, reads, flushes>>
counters == <<rows, bytes, ruleStats, botFiltered>>

NotTorn == [cut |-> 0, line |-> {}, first |-> None, later |-> None, kept |-> 0]

Init ==
  /\ config \in Configs
  /\ phase = "start"
  /\ rest = <<>>
  /\ rows = EmptyBag /\ bytes = EmptyBag /\ stored = EmptyBag
  /\ ruleStats = EmptyBag /\ botFiltered = 0
  /\ log = EmptyBag /\ torn = NotTorn
  /\ reads = 0 /\ flushes = 0

-----------------------------------------------------------------------------
(* Lines as they were meant. *)

Written(l) ==
  l.ip \o <<Space, "-", Space, "-", Space, "[">> \o l.time \o <<"]", Space, Quote>> \o l.method \o <<Space>>
  \o l.path \o <<Space>> \o l.proto \o <<Quote, Space>> \o l.status \o <<Space>> \o l.size
  \o <<Space, Quote>> \o l.referer \o <<Quote, Space, Quote>> \o l.agent \o <<Quote>>
  \o (IF l.millis = <<>> THEN <<>> ELSE <<Space, "us=">> \o l.millis) \o <<Newline>>

Meant(l) ==
  [parsed |-> "entry", ip |-> l.ip, time |-> TimeOf[l.time], method |-> l.method, path |-> l.path,
   proto |-> l.proto, status |-> StatusOf[l.status],
   bytes |-> IF l.size = <<"-">> THEN 0 ELSE BytesOf[l.size],
   referer |-> l.referer, agent |-> l.agent,
   millis |-> IF l.millis = <<>> THEN {} ELSE {MillisOf[l.millis]}]

-----------------------------------------------------------------------------
(* The aggregator. *)

Times(b, n) == [x \in DOMAIN b |-> n * b[x]]

\* The text before a piece of S.
Before(t, S) == SubSeq(t, 1, Min({i \in DOMAIN t : t[i] \in S} \cup {Len(t) + 1}) - 1)

StripQuery(path) == Before(path, {"?"})

\* extract_host_from_url: after "://", up to a slash, a colon or a question mark.
HostOf(url) ==
  LET host == Before(SubSeq(url, Find(url, 1, "://") + 1, Len(url)), {"/", ":", "?"})
  IN IF host = <<>> THEN {} ELSE {host}

\* Four octets, or what the library takes for an address.
IsAddress(t) ==
  \/ /\ Len(t) = 7
     /\ \A i \in {2, 4, 6} : t[i] = "."
     /\ \A i \in {1, 3, 5, 7} : <<t[i]>> \in DOMAIN OctetOf
  \/ t \in AddressesV6

Country(t) == IF IsAddress(t) /\ t \in DOMAIN CountryOf THEN CountryOf[t] ELSE "--"
Family(agent) == IF agent \in DOMAIN FamilyOf THEN FamilyOf[agent] ELSE "Unknown"

MethodIndex(m) ==
  IF m \in {<<x>> : x \in Methods \ {"PROPFIND", "PRI"}} THEN m[1] ELSE "other"

ProtoIndex(p) ==
  CASE p \in {<<"HTTP/2">>, <<"HTTP/2.0">>} -> "2.0"
    [] p \in {<<"HTTP/3">>, <<"HTTP/3.0">>} -> "3.0"
    [] p = <<"HTTP/1.1">> -> "1.1"
    [] p = <<"HTTP/1.0">> -> "1.0"
    [] OTHER -> "other"

\* Everything that is not 2xx, 3xx or 4xx is counted as 5xx.
StatusClass(s) == IF s \div 100 \in 2..4 THEN s \div 100 ELSE 5

\* What the top tables count: a table that is off or hidden counts nothing.
TopRows(e, hide) ==
  LET shown(t) == t \notin hide /\ (t \in config.tables \/ t = "top_countries") IN
  (IF shown("top_urls") THEN {<<"top_urls", StripQuery(e.path)>>} ELSE {})
  \cup (IF "error_urls" \in config.tables /\ e.status >= 400 /\ "top_urls" \notin hide
        THEN {<<"error_urls", <<StripQuery(e.path), e.status>>>>} ELSE {})
  \cup (IF shown("top_hosts") THEN {<<"top_hosts", e.ip>>} ELSE {})
  \cup (IF shown("top_agents") THEN {<<"top_agents", Family(e.agent)>>} ELSE {})
  \cup (IF shown("top_refs") THEN {<<"top_refs", h>> : h \in HostOf(e.referer)} ELSE {})
  \cup (IF shown("top_countries") THEN {<<"top_countries", Country(e.ip)>>} ELSE {})

\* Samples of the histograms of the site's days and of the URLs.
TimedRows(e, hide) ==
  IF "timing" \in hide THEN {}
  ELSE {<<"hist", <<e.time.day, Min({ms, LastMilli + 1})>>>> : ms \in e.millis}
       \cup (IF "top_urls" \in config.tables \ hide
             THEN {<<"url_times", <<StripQuery(e.path), ms>>>> : ms \in e.millis} ELSE {})

SiteRows(e) ==
  {<<"hourly", e.time>>, <<"class", <<e.time, StatusClass(e.status)>>>>,
   <<"status", e.status>>, <<"methods", MethodIndex(e.method)>>, <<"protocols", ProtoIndex(e.proto)>>}

\* A bucket hides URLs and times, but counts agents and countries all the same.
BucketRows(e, hide, b) ==
  IF b = <<>> THEN {}
  ELSE {<<"bucket", b>>, <<"bucket_hourly", <<b, e.time>>>>, <<"bucket_status", <<b, e.status>>>>,
        <<"bucket_agents", <<b, Family(e.agent)>>>>, <<"bucket_countries", <<b, Country(e.ip)>>>>,
        <<"bucket_methods", <<b, MethodIndex(e.method)>>>>,
        <<"bucket_protocols", <<b, ProtoIndex(e.proto)>>>>}
       \cup (IF "top_urls" \in config.tables \ hide
             THEN {<<"bucket_urls", <<b, StripQuery(e.path)>>>>} ELSE {})
       \cup (IF "timing" \in hide THEN {}
             ELSE {<<"bucket_hist", <<b, e.time.day, Min({ms, LastMilli + 1})>>>> : ms \in e.millis})

WithBandwidth ==
  {"hourly", "top_urls", "error_urls", "top_hosts", "top_agents", "top_countries",
   "bucket", "bucket_hourly", "bucket_urls", "bucket_agents", "bucket_countries"}

RowsOf(e, m) ==
  SiteRows(e) \cup TopRows(e, m.hide) \cup TimedRows(e, m.hide) \cup BucketRows(e, m.hide, m.bucket)

\* aggregate_entry, for n equal entries; an entry without a time is left out.
AggregateEntry(e, m, n) ==
  LET added == IF e.time = NoTime THEN {} ELSE RowsOf(e, m) IN
  /\ rows' = rows (+) Times(SetToBag(added), n)
  /\ bytes' = bytes (+) [r \in {x \in added : x[1] \in WithBandwidth /\ e.bytes > 0} |-> n * e.bytes]

-----------------------------------------------------------------------------
(* The parser thread. *)

BeforeTarget(e) == e.time # NoTime /\ e.time.day < config.skipBefore
FilteredBot(e) == config.botFilter /\ e.agent \in Bots

NotKept(stats, bots) ==
  /\ ruleStats' = ruleStats (+) stats
  /\ botFiltered' = botFiltered + bots
  /\ UNCHANGED <<rows, bytes>>

\* run_parser for n equal lines: are they kept?
Parse(b, n, kept) ==
  LET e == ParseLine(b) IN
  CASE e.parsed = "panic" -> ~kept /\ phase' = "panicked" /\ UNCHANGED counters
    [] e.parsed = "none" -> ~kept /\ UNCHANGED phase /\ UNCHANGED counters
    [] e.parsed = "entry" /\ BeforeTarget(e) -> ~kept /\ UNCHANGED phase /\ UNCHANGED counters
    [] e.parsed = "entry" /\ ~BeforeTarget(e) /\ FilteredBot(e) ->
         ~kept /\ UNCHANGED phase /\ NotKept(EmptyBag, n)
    [] OTHER ->
         \E m \in Apply(EnabledRules(config.rules), e) :
           LET stats == Times(m.effects, n) IN
           /\ kept = ~m.dropped
           /\ UNCHANGED phase
           /\ IF kept
              THEN AggregateEntry(e, m, n) /\ ruleStats' = ruleStats (+) stats /\ UNCHANGED botFiltered
              ELSE NotKept(stats, 0)

Logged(e, kept, n) == log' = log (+) Times(SetToBag({[entry |-> e, kept |-> kept]}), n)

\* What is not an entry is not in the log.
LoggedIfEntry(b, kept) ==
  IF ParseLine(b).parsed = "entry" THEN Logged(ParseLine(b), kept, 1) ELSE UNCHANGED log

-----------------------------------------------------------------------------
(* Actions. *)

\* The rules are compiled when the program starts.
Start ==
  /\ phase = "start"
  /\ phase' = IF Compiles(config.rules) THEN "running" ELSE "refused"
  /\ UNCHANGED <<config, rest, stored, counters, log, torn, reads, flushes>>

Reading ==
  /\ phase = "running" /\ reads < MaxReads
  /\ reads' = reads + 1
  /\ UNCHANGED <<config, stored, flushes>>

Read(l, n) ==
  /\ Reading
  /\ \E kept \in BOOLEAN : Parse(Written(l), n, kept) /\ Logged(Meant(l), kept, n)
  /\ UNCHANGED <<rest, torn>>

ReadMalformed(b) ==
  /\ Reading
  /\ \E kept \in BOOLEAN : Parse(b, 1, kept) /\ LoggedIfEntry(b, kept)
  /\ UNCHANGED <<rest, torn>>

\* The web server has written the line up to the cut when the file ends.
ReadTorn(l, cut) ==
  /\ Reading /\ torn.cut = 0 /\ cut < Len(Written(l))
  /\ LET b == SubSeq(Written(l), 1, cut) IN
       \E kept \in BOOLEAN :
         /\ Parse(b, 1, kept) /\ LoggedIfEntry(b, kept)
         /\ torn' = [cut |-> cut, line |-> l, first |-> ParseLine(b), later |-> None,
                     kept |-> IF kept THEN 1 ELSE 0]
         /\ rest' = SubSeq(Written(l), cut + 1, Len(Written(l)))

\* The next run reads on where the last has stopped.
ReadRest ==
  /\ Reading /\ rest # <<>>
  /\ \E kept \in BOOLEAN :
       /\ Parse(rest, 1, kept) /\ LoggedIfEntry(rest, kept)
       /\ torn' = [torn EXCEPT !.later = ParseLine(rest), !.kept = @ + IF kept THEN 1 ELSE 0]
  /\ rest' = <<>>

\* A checkpoint, or the end of a run.
Flush ==
  /\ phase = "running" /\ flushes < MaxFlushes
  /\ stored' = stored (+) rows
  /\ rows' = EmptyBag
  /\ flushes' = flushes + 1
  /\ UNCHANGED <<config, phase, rest, bytes, ruleStats, botFiltered, log, torn, reads>>

Next ==
  \/ Start
  \/ \E l \in Lines, n \in Copies : Read(l, n)
  \/ \E b \in Malformed : ReadMalformed(b)
  \/ \E l \in Lines, cut \in Cuts : ReadTorn(l, cut)
  \/ ReadRest
  \/ Flush

Spec == Init /\ [][Next]_vars

-----------------------------------------------------------------------------
(* Queries of the pages. *)

AllRows == rows (+) stored

\* How many members of a bag T holds for.
Total(b, T(_)) == SumFunctionOnSet(b, {r \in BagToSet(b) : T(r)})

Samples(day) == {r[2][2] : r \in {x \in BagToSet(AllRows) : x[1] = "hist" /\ x[2][1] = day}}
SamplesUpTo(day, ms) ==
  Total(AllRows, LAMBDA r : r[1] = "hist" /\ r[2][1] = day /\ r[2][2] <= ms)

Ceiling(a, b) == (a + b - 1) \div b

\* Mutant: rounded down.
PercentileRankDown(count) == Max({1, (Percentile * count) \div 100})

PercentileRank(count) == Max({1, Ceiling(Percentile * count, 100)})

\* ResponseTimeHistogram::percentile, LastMilli + 1 standing for u32::MAX.
PercentileOf(day) ==
  LET rank == PercentileRank(SamplesUpTo(day, LastMilli + 1)) IN
  Min({ms \in Samples(day) : ms <= LastMilli /\ SamplesUpTo(day, ms) >= rank} \cup {LastMilli + 1})

-----------------------------------------------------------------------------
(* What the rules of the configuration say of an entry. *)

Declared == EnabledRules(config.rules)

\* The first bucket rule that holds for an entry without a bucket names it.
BucketAt(e, i) ==
  LET givers == {j \in 1..(i - 1) : Declared[j].action.kind = "bucket" /\ RuleMatches(Declared[j], e, <<>>)}
  IN IF givers = {} THEN <<>> ELSE Declared[Min(givers)].action.name

HoldingAt(e, kind) ==
  {i \in DOMAIN Declared : Declared[i].action.kind = kind /\ RuleMatches(Declared[i], e, BucketAt(e, i))}
Holding(e, kind) == {Declared[i].action : i \in HoldingAt(e, kind)}

\* The first sample rule that holds, and whether others hold as well.
FirstSample(e) ==
  {Declared[i].action : i \in {j \in HoldingAt(e, "sample") : \A k \in HoldingAt(e, "sample") : j <= k}}
SampledAgain(e) == \E i, j \in HoldingAt(e, "sample") : i < j

RulesDrop(e) == Holding(e, "ignore") # {} \/ \E a \in FirstSample(e) : a.rate = 0
RulesMayDrop(e) == Holding(e, "ignore") # {} \/ \E a \in FirstSample(e) : a.rate < 100
LeftOut(e) == BeforeTarget(e) \/ FilteredBot(e)

HiddenIn(e) == UNION {a.tables : a \in Holding(e, "hide")}
BucketOf(e) == BucketAt(e, Len(Declared) + 1)

Weight(S) == SumFunctionOnSet(log, S)
Seen == BagToSet(log)
Counted == {x \in Seen : x.kept /\ x.entry.time # NoTime}
CountedIf(P(_)) == Weight({x \in Counted : P(x.entry)})

TotalOf(table) == Total(AllRows, LAMBDA r : r[1] = table)
BucketTotal(b) == Total(AllRows, LAMBDA r : r = <<"bucket", b>>)
TotalInBucket(table, b) == Total(AllRows, LAMBDA r : r[1] = table /\ r[2][1] = b)

\* Entries that no rule hides from a table, that are in a bucket, and that have
\* a response time on a day, or one up to some number.
ShownIn(table) == CountedIf(LAMBDA e : table \notin HiddenIn(e))
InBucket(b) == CountedIf(LAMBDA e : BucketOf(e) = b)
TimedOn(day) == CountedIf(LAMBDA e : e.time.day = day /\ "timing" \notin HiddenIn(e) /\ e.millis # {})
TimedOnUpTo(day, ms) ==
  CountedIf(LAMBDA e : /\ e.time.day = day /\ "timing" \notin HiddenIn(e)
                       /\ \E n \in e.millis : n <= ms)

\* An entry that several sample rules hold for is excepted: a later one may drop it.
KeepsOrDropsAsDeclared ==
  /\ \A x \in Seen :
       IF x.kept THEN ~LeftOut(x.entry) /\ ~RulesDrop(x.entry)
       ELSE LeftOut(x.entry) \/ RulesMayDrop(x.entry) \/ SampledAgain(x.entry)
  /\ Total(ruleStats, LAMBDA r : r[2] = "ignored") = Weight({x \in Seen : ~x.kept /\ ~LeftOut(x.entry)})
  /\ botFiltered = Weight({x \in Seen : ~BeforeTarget(x.entry) /\ FilteredBot(x.entry)})

TablesAsDeclared ==
  /\ \A t \in {"hourly", "class", "status", "methods", "protocols"} :
       TotalOf(t) = CountedIf(LAMBDA e : TRUE)
  /\ Total(bytes, LAMBDA r : r[1] = "hourly") =
       SumFunction([x \in Counted |-> log[x] * x.entry.bytes])
  /\ \A t \in {"top_urls", "top_hosts", "top_agents"} \cap config.tables :
       TotalOf(t) = ShownIn(t)
  /\ TotalOf("top_countries") = ShownIn("top_countries")
  /\ \A b \in {r.action.name : r \in {x \in ToSet(Declared) : x.action.kind = "bucket"}} :
       /\ BucketTotal(b) = InBucket(b)
       /\ \A t \in {"bucket_hourly", "bucket_status", "bucket_agents", "bucket_countries"} :
            TotalInBucket(t, b) = InBucket(b)

\* The percentage of a day's response times is at or below the percentile, and
\* below it there is no time of which that is so.
PercentilesAsDeclared ==
  \A day \in {x.entry.time.day : x \in Counted} :
    TimedOn(day) > 0 =>
      /\ PercentileOf(day) <= LastMilli =>
           100 * TimedOnUpTo(day, PercentileOf(day)) >= Percentile * TimedOn(day)
      /\ \A x \in Counted : \A ms \in x.entry.millis :
           ms < PercentileOf(day) /\ ms <= LastMilli =>
             100 * TimedOnUpTo(day, ms) < Percentile * TimedOn(day)

-----------------------------------------------------------------------------
(* Properties. *)

\* Whatever the rules, their order and what the checkpoints have merged: a line
\* is dropped only if the rollback target, the bot filter or a rule says so; each
\* table counts the lines that no rule hides from it and each bucket those that
\* the first rule for a bucket gives it; the percentiles are those of the lines.
\* Of the sample rules that hold the first decides, but where there are several.
CountedAsDeclared ==
  phase # "start" => KeepsOrDropsAsDeclared /\ TablesAsDeclared /\ PercentilesAsDeclared

\* A line that is read in two parts is never counted twice.  A first part that is
\* counted has all its fields right but the response time, which may be missing or
\* too small; a rest that is counted has lost only a part of the address.  The
\* parser survives unless the first part ends with the status.
TornLines ==
  torn.cut > 0 =>
    LET meant == Meant(torn.line)
        written == Written(torn.line)
    IN /\ torn.kept <= 1
       /\ torn.first.parsed = "entry" =>
            /\ torn.first = [meant EXCEPT !.millis = torn.first.millis]
            /\ \A ms \in torn.first.millis : \E n \in meant.millis : ms <= n
       /\ torn.later.parsed = "entry" =>
            /\ torn.later = [meant EXCEPT !.ip = torn.later.ip]
            /\ IsSuffix(torn.later.ip, meant.ip)
            /\ torn.first.parsed = "none"
       /\ torn.first.parsed = "panic" =>
            SubSeq(written, 1, torn.cut) = Before(written, ToSet(torn.line.status)) \o torn.line.status
       /\ torn.later.parsed # "panic"

\* A malformed line is skipped: the parser thread goes on.
MalformedIsSkipped == phase # "panicked"
=============================================================================
