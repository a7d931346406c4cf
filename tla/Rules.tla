--------------------------------- MODULE Rules ---------------------------------
(***************************************************************************)
(* The rules of the configuration: which are accepted, and what a set of   *)
(* them makes of a log entry.                                              *)
(*                                                                         *)
(* Data abstraction.  Texts are sequences of pieces, as in CombinedLog.  A *)
(* value of the configuration is tagged "str", "num", "bool", "list" or    *)
(* "regex"; a regular expression is the set of texts it is found in, {} if *)
(* it does not compile.  A sample rate is a percentage.                    *)
(***************************************************************************)
EXTENDS Naturals, SequencesExt, Bags, TLC

CONSTANTS
  SizeOf,  \* piece -> its length in bytes
  Lower    \* letters and digits -> the same in lower case

StringFields == {"ip", "method", "url", "referer", "user_agent", "proto"}
NumericFields == {"status", "bytes", "response_time"}
HideTargets == {"top_urls", "top_hosts", "top_refs", "top_agents", "top_countries", "timing"}

NumberOps == {"eq", "neq", "gt", "lt", "gte", "lte"}
TextOps   == {"eq", "neq", "starts_with", "ends_with", "contains", "matches"}
LengthOps == {"len_gt", "len_lt", "len_gte", "len_lte", "len_eq"}
ListOps   == {"in", "not_in"}

-----------------------------------------------------------------------------
(* Compilation. *)

IsText(v)   == v.t \in {"str", "num", "bool"}
IsNumber(v) == v.t = "num"
IsList(v, Is(_)) == v.t = "list" /\ \A i \in DOMAIN v.v : Is(v.v[i])
IsRange(v)  == IsList(v, IsNumber) /\ Len(v.v) = 2 /\ v.v[1].v <= v.v[2].v

AsText(v) == IF v.t = "num" THEN <<ToString(v.v)>> ELSE v.v

\* The operators a field has, with the values they take.
ConditionCompiles(c) ==
  CASE c.field = "bucket" ->
         \/ c.op \in {"eq", "neq"} /\ IsText(c.value)
         \/ c.op \in ListOps /\ IsList(c.value, IsText)
    [] c.field \in NumericFields ->
         \/ c.op \in NumberOps /\ IsNumber(c.value)
         \/ c.op = "between" /\ IsRange(c.value)
         \/ c.op \in ListOps /\ IsList(c.value, IsNumber)
    [] c.field \in StringFields ->
         \/ c.op \in TextOps \ {"matches"} /\ IsText(c.value)
         \/ c.op = "matches" /\ c.value.t = "regex" /\ c.value.v # {}
         \/ c.op \in LengthOps /\ IsNumber(c.value)
         \/ c.op = "len_between" /\ IsRange(c.value)
         \/ c.op \in ListOps /\ IsList(c.value, IsText)
    [] OTHER -> FALSE

\* Lower case, with a dash for every run of other characters inside.
Slug(name) ==
  LET dashed == FoldLeft(LAMBDA s, p :
                  IF p \in DOMAIN Lower THEN Append(s, Lower[p])
                  ELSE IF s = <<>> \/ Last(s) = "-" THEN s ELSE Append(s, "-"), <<>>, name)
  IN IF dashed # <<>> /\ Last(dashed) = "-" THEN Front(dashed) ELSE dashed

BucketNameValid(name) == name # <<>> /\ ToSet(name) \cap {"/", "\\"} = {}

ActionCompiles(a) ==
  CASE a.kind = "ignore" -> TRUE
    [] a.kind = "hide"   -> a.tables \subseteq HideTargets
    [] a.kind = "sample" -> a.rate \in 0..100
    [] a.kind = "bucket" -> BucketNameValid(a.name)
    [] OTHER -> FALSE

RuleCompiles(r) ==
  /\ r.conditions # <<>> /\ \A i \in DOMAIN r.conditions : ConditionCompiles(r.conditions[i])
  /\ ActionCompiles(r.action)

\* The rules that are not switched off.
EnabledRules(raw) ==
  LET enabled[k \in 0..Len(raw)] ==
        IF k = 0 THEN <<>>
        ELSE IF raw[k].enabled THEN Append(enabled[k - 1], raw[k]) ELSE enabled[k - 1]
  IN enabled[Len(raw)]

\* No two bucket rules, even of one name, have the same slug, and none an empty one.
SlugsValid(rules) ==
  LET buckets == {i \in DOMAIN rules : rules[i].action.kind = "bucket"}
      slug(i) == Slug(rules[i].action.name)
  IN \A i \in buckets : slug(i) # <<>> /\ \A j \in buckets \ {i} : slug(i) # slug(j)

\* RuleSet::compile succeeds, with EnabledRules(raw).
Compiles(raw) ==
  LET rules == EnabledRules(raw)
  IN (\A i \in DOMAIN rules : RuleCompiles(rules[i])) /\ SlugsValid(rules)

-----------------------------------------------------------------------------
(* Conditions. *)

TextSize(t) == FoldLeft(LAMBDA n, p : n + SizeOf[p], 0, t)
HasInside(t, u) == \E i \in 0..Len(t) : i + Len(u) <= Len(t) /\ SubSeq(t, i + 1, i + Len(u)) = u

FieldText(e, field, bucket) ==
  CASE field = "bucket"     -> bucket
    [] field = "ip"         -> e.ip
    [] field = "method"     -> e.method
    [] field = "url"        -> e.path
    [] field = "referer"    -> e.referer
    [] field = "user_agent" -> e.agent
    [] field = "proto"      -> e.proto

\* An entry may have no response time.
FieldNumbers(e, field) ==
  CASE field = "status" -> {e.status} [] field = "bytes" -> {e.bytes} [] OTHER -> e.millis

Compares(n, op, v) ==
  CASE op \in {"eq", "len_eq"}   -> n = v.v
    [] op = "neq"                -> n # v.v
    [] op \in {"gt", "len_gt"}   -> n > v.v
    [] op \in {"lt", "len_lt"}   -> n < v.v
    [] op \in {"gte", "len_gte"} -> n >= v.v
    [] op \in {"lte", "len_lte"} -> n <= v.v
    [] op \in {"between", "len_between"} -> n \in v.v[1].v..v.v[2].v
    [] op = "in"     -> \E i \in DOMAIN v.v : n = v.v[i].v
    [] op = "not_in" -> \A i \in DOMAIN v.v : n # v.v[i].v

TextHolds(t, op, v) ==
  CASE op = "eq"          -> t = AsText(v)
    [] op = "neq"         -> t # AsText(v)
    [] op = "starts_with" -> IsPrefix(AsText(v), t)
    [] op = "ends_with"   -> IsSuffix(AsText(v), t)
    [] op = "contains"    -> HasInside(t, AsText(v))
    [] op = "matches"     -> t \in v.v
    [] op = "in"          -> \E i \in DOMAIN v.v : t = AsText(v.v[i])
    [] op = "not_in"      -> \A i \in DOMAIN v.v : t # AsText(v.v[i])
    [] OTHER              -> Compares(TextSize(t), op, v)

\* No operator, "neq" and "not_in" included, holds for a number that is missing.
ConditionMatches(c, e, bucket) ==
  IF c.field \in NumericFields
  THEN \E n \in FieldNumbers(e, c.field) : Compares(n, c.op, c.value)
  ELSE TextHolds(FieldText(e, c.field, bucket), c.op, c.value)

RuleMatches(r, e, bucket) ==
  IF r.mode = "all"
  THEN \A i \in DOMAIN r.conditions : ConditionMatches(r.conditions[i], e, bucket)
  ELSE \E i \in DOMAIN r.conditions : ConditionMatches(r.conditions[i], e, bucket)

-----------------------------------------------------------------------------
(* Evaluation. *)

NoRules == [bucket |-> <<>>, hide |-> {}, dropped |-> FALSE, effects |-> EmptyBag]

Noted(m, r, effect) == [m EXCEPT !.effects = @ (+) SetToBag({<<r.name, effect>>})]

\* What becomes of m when a rule that matches acts; a sample may keep or drop.
Acted(m, r) ==
  CASE r.action.kind = "ignore" -> {[Noted(m, r, "ignored") EXCEPT !.dropped = TRUE]}
    [] r.action.kind = "hide"   -> {[Noted(m, r, "hidden") EXCEPT !.hide = @ \cup r.action.tables]}
    [] r.action.kind = "bucket" ->
         {IF m.bucket = <<>> THEN [Noted(m, r, "bucketed") EXCEPT !.bucket = r.action.name] ELSE m}
    [] r.action.kind = "sample" ->
         (IF r.action.rate > 0 THEN {m} ELSE {})
         \cup (IF r.action.rate < 100 THEN {[Noted(m, r, "ignored") EXCEPT !.dropped = TRUE]} ELSE {})

\* Mutant: conditions on the bucket do not see the one just given.
ApplyBlind(rules, e) ==
  LET after[k \in 0..Len(rules)] ==
        IF k = 0 THEN {NoRules}
        ELSE UNION {IF ~m.dropped /\ RuleMatches(rules[k], e, <<>>)
                    THEN Acted(m, rules[k]) ELSE {m} : m \in after[k - 1]}
  IN after[Len(rules)]

\* RuleSet::apply: each rule in turn, until one drops the entry.
Apply(rules, e) ==
  LET after[k \in 0..Len(rules)] ==
        IF k = 0 THEN {NoRules}
        ELSE UNION {IF ~m.dropped /\ RuleMatches(rules[k], e, m.bucket)
                    THEN Acted(m, rules[k]) ELSE {m} : m \in after[k - 1]}
  IN after[Len(rules)]
=============================================================================
