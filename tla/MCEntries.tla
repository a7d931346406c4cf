------------------------------ MODULE MCEntries ------------------------------
(* Constants of the runs of Entries. *)
EXTENDS Entries

MCTimeOf ==
  (<<"10/Oct/2024:13:55:36", " ", "+0200">> :> [day |-> 1, hour |-> 13]) @@
  (<<"11/Oct/2024:00:10:00", " ", "+0200">> :> [day |-> 2, hour |-> 0]) @@
  (<<"1x/Oct/2024:00:10:00", " ", "+0200">> :> NoTime)
MCStatusOf ==
  (<<"200">> :> 200) @@ (<<"404">> :> 404) @@ (<<"500">> :> 500) @@ (<<"200", Newline>> :> 200)
MCBytesOf == (<<"512">> :> 512) @@ (<<"7">> :> 7)
MCMillisOf ==
  (<<"0.">> :> 0) @@ (<<"0.", "2">> :> 200) @@ (<<"0.", "2", "5">> :> 250) @@ (<<"2">> :> 0) @@ (<<"5">> :> 0) @@
  (<<"2", "5">> :> 0) @@ (<<"1500">> :> 1) @@ (<<"61.000">> :> 61000)
MCOctetOf == (<<"10">> :> 10) @@ (<<"0">> :> 0) @@ (<<"1">> :> 1)
MCV6 == {<<"2001::1">>}
MCLower == ("API" :> "api") @@ ("api" :> "api") @@ ("pages" :> "pages")
MCCountryOf == (<<"10", ".", "0", ".", "0", ".", "1">> :> "SE")
MCFamilyOf == (<<"Mozilla">> :> "Firefox") @@ (<<"curl">> :> "Unknown")
MCBots == {<<"curl">>}

Line(ip, time, method, path, status, size, referer, agent, millis) ==
  [ip |-> ip, time |-> time, method |-> <<method>>, path |-> path, proto |-> <<"HTTP/1.1">>,
   status |-> <<status>>, size |-> <<size>>, referer |-> referer, agent |-> agent, millis |-> millis]

Day1 == <<"10/Oct/2024:13:55:36", " ", "+0200">>
Day2 == <<"11/Oct/2024:00:10:00", " ", "+0200">>
Here == <<"10", ".", "0", ".", "0", ".", "1">>

MCLines ==
  {Line(Here, Day1, "GET", <<"/a", "?", "q">>, "200", "512", <<"https", "://", "site", "/", "x">>,
        <<"Mozilla", " ", "x">>, <<"0.", "2", "5">>),
   Line(<<"2001::1">>, Day2, "POST", <<"/api", "/v1">>, "500", "-", <<"-">>, <<"curl">>, <<"1500">>),
   Line(<<"host">>, Day2, "PROPFIND", <<"/api">>, "404", "7", <<>>, <<"Mozilla">>, <<"61.000">>),
   Line(Here, <<"1x/Oct/2024:00:10:00", " ", "+0200">>, "GET", <<"/b">>, "200", "7", <<"-">>, <<"-">>, <<>>)}

MCMalformed ==
  {<<Newline>>,
   SubSeq(Written(CHOOSE l \in MCLines : l.millis = <<>>), 1, 18) \o <<Quote, Newline>>}

EarlyEnds ==
  {<<"host", " ", "-", " ", "-", " ", "[">> \o Day1 \o
   <<"]", " ", Quote, "GET", " ", "/a", " ", "HTTP/1.1", Quote, " ", "200", Newline>>}

Pieces == UNION {ToSet(Written(l)) : l \in MCLines}
MCSizeOf == [p \in Pieces |-> IF p \in {"/", "?", "-", " ", ".", "x"} THEN 1 ELSE 4]

-----------------------------------------------------------------------------
(* Rules. *)

Str(t) == [t |-> "str", v |-> t]
Num(n) == [t |-> "num", v |-> n]
List(s) == [t |-> "list", v |-> s]
If(field, op, value) == [field |-> field, op |-> op, value |-> value]
Rule(name, mode, conditions, action) ==
  [name |-> name, enabled |-> TRUE, mode |-> mode, conditions |-> conditions, action |-> action]
Ignore == [kind |-> "ignore"]
Hide(tables) == [kind |-> "hide", tables |-> tables]
Sample(rate) == [kind |-> "sample", rate |-> rate]
Bucket(name) == [kind |-> "bucket", name |-> name]
Config(rules, bots, skipBefore, tables) ==
  [rules |-> rules, botFilter |-> bots, skipBefore |-> skipBefore, tables |-> tables]

AllTables == {"top_urls", "error_urls", "top_hosts", "top_agents", "top_refs"}

\* Buckets, and rules that look at the bucket before and after it is given.
BucketRules ==
  <<Rule("early", "all", <<If("bucket", "eq", Str(<<"api">>))>>, Ignore),
    Rule("api", "all", <<If("url", "starts_with", Str(<<"/api">>))>>, Bucket(<<"api">>)),
    Rule("all", "any", <<If("status", "gte", Num(400)), If("agent", "eq", Str(<<>>))>>, Bucket(<<"pages">>)),
    Rule("hide", "all", <<If("bucket", "in", List(<<Str(<<"api">>)>>))>>, Hide({"top_urls", "timing"})),
    Rule("late", "all", <<If("bucket", "neq", Str(<<"api">>)), If("referer", "contains", Str(<<"site">>)),
                          If("url", "ends_with", Str(<<"?", "q">>)), If("response_time", "neq", Num(250))>>, Ignore),
    Rule("last", "all", <<If("response_time", "between", List(<<Num(0), Num(1)>>)),
                          If("user_agent", "len_lte", Num(4))>>, Hide({"top_agents"}))>>

SampleRules ==
  <<Rule("half", "all", <<If("method", "not_in", List(<<Str(<<"POST">>)>>))>>, Sample(50)),
    Rule("none", "any", <<If("status", "eq", Num(404)), If("bytes", "lt", Num(5))>>, Sample(0)),
    Rule("hide", "all", <<If("user_agent", "matches", [t |-> "regex", v |-> {<<"Mozilla">>, <<"curl">>}])>>,
         Hide({"top_hosts", "top_countries"}))>>

Refused(rule) == Config(<<rule>>, FALSE, 0, {})
Always == <<If("ip", "neq", Str(<<>>))>>

MCConfigs ==
  {Config([BucketRules EXCEPT ![3].conditions[2].field = "user_agent"], FALSE, 0, AllTables),
   Config(SampleRules, TRUE, 0, AllTables \ {"top_hosts"}),
   Config(<<[Rule("off", "all", <<>>, Ignore) EXCEPT !.enabled = FALSE]>>, TRUE, 2, AllTables),
   Config(BucketRules, FALSE, 0, {}),
   Config(<<Rule("a", "all", Always, Bucket(<<"API">>)), Rule("b", "all", Always, Bucket(<<"api", "!">>))>>,
          FALSE, 0, {}),
   Refused(Rule("empty", "any", <<>>, Ignore)),
   Refused(Rule("slug", "all", Always, Bucket(<<"!">>))),
   Refused(Rule("range", "all", <<If("bytes", "between", List(<<Num(2), Num(1)>>))>>, Ignore)),
   Refused(Rule("rate", "all", Always, Sample(101)))}

MCCuts == 1..50
WholeCopies == {1, 19}
=============================================================================
