----------------------------- MODULE Evaluation -----------------------------
(***************************************************************************)
(* The rule engine of the health check, as operators: how a cell is read   *)
(* (evaluative/coerce.py), what one rule says of one value (threshold.py,  *)
(* presence.py, enum_rule.py, format_rule.py), how the verdicts of several *)
(* layers are resolved (engine.py, db/rule_overrides.py) and how row rules *)
(* judge the rows of a table (row_match.py).                               *)
(*                                                                         *)
(* A partial result is a set of at most one element: {} stands for the     *)
(* code's None.  Numbers are in tenths, so that 11.4 is 114.  A text is a  *)
(* record of the word before its first digit, its leading run of dotted    *)
(* integers (one digit each after the first) and what follows; words are   *)
(* compared as the code compares them, stripped and in lower case.         *)
(*                                                                         *)
(* `now` is the moment an evaluation reads the clock, as a day number; day *)
(* 0 is the epoch.  A collection and a dry run each have their own.        *)
(***************************************************************************)
EXTENDS Integers, Sequences, FiniteSets, SequencesExt

None == [k |-> "none"]
Number(n) == [k |-> "number", n |-> n]
Text(pre, comps, post) == [k |-> "text", pre |-> pre, comps |-> comps, post |-> post]
Word(w) == Text(w, <<>>, "")
Date(year, day) == [k |-> "date", year |-> year, day |-> day]

\* An upper bound of every number a model uses: the code's +inf.
Unlimited == 100000
AbsentWords == {"", "n/a", "-", "none"}
UnlimitedWords == {"unlimited", "no limit"}

IsWord(v) == v.k = "text" /\ v.comps = <<>>
is_absent(v) == v.k = "none" \/ (IsWord(v) /\ v.pre \in AbsentWords)

\* "0 TB" is 0, "11.4.5" is 11.4, "v11" is no number, "Unlimited" is +inf.
to_number(v) ==
  CASE v.k = "number" -> {v.n}
    [] v.k = "date" -> {10 * v.year}
    [] is_absent(v) -> {}
    [] IsWord(v) /\ v.pre \in UnlimitedWords -> {Unlimited}
    [] v.k = "text" /\ v.pre = "" /\ v.comps # <<>> ->
         {10 * v.comps[1] + IF Len(v.comps) > 1 THEN v.comps[2] ELSE 0}
    [] OTHER -> {}

\* A purely numeric cell is an epoch in seconds, which reads as day 0.
age_days(v, now) ==
  CASE v.k = "date" -> {now - v.day}
    [] v.k = "number" -> {now}
    [] v.k = "text" /\ v.pre = "" /\ v.post = "" /\ Len(v.comps) \in {1, 2} -> {now}
    [] OTHER -> {}

\* The last component is dropped when a unit or a suffix is glued to it.
parse_version(v) ==
  CASE v.k = "number" -> {<<v.n \div 10, v.n % 10>>}
    [] v.k = "text" -> LET c == IF v.post = "" THEN v.comps ELSE Front(v.comps)
                       IN  IF c = <<>> THEN {} ELSE {c}
    [] OTHER -> {}

Component(ver, i) == IF i <= Len(ver) THEN ver[i] ELSE 0
VersionBefore(a, b) ==
  \E i \in 1..(IF Len(a) > Len(b) THEN Len(a) ELSE Len(b)) :
    /\ Component(a, i) < Component(b, i)
    /\ \A j \in 1..(i - 1) : Component(a, j) = Component(b, j)
compare_versions(a, b) ==
  {IF VersionBefore(x, y) THEN -1 ELSE IF VersionBefore(y, x) THEN 1 ELSE 0 :
     x \in parse_version(a), y \in parse_version(b)}

-----------------------------------------------------------------------------
(* One rule, one value.  A verdict is a record [layer, rule_id, severity]. *)

Severities == {"muted", "good", "info", "warning", "critical"}
SeverityRank == [muted |-> -1, good |-> 0, info |-> 1, warning |-> 2, critical |-> 3]
NoId == "(no id)"
Verdict(layer, id, sev) == [layer |-> layer, rule_id |-> id, severity |-> sev]

\* The most severe member; ties are one severity.
Worst(sevs) == CHOOSE s \in sevs : \A t \in sevs : SeverityRank[t] <= SeverityRank[s]

Compare(op, a, b) ==
  CASE op = ">=" -> a >= b [] op = ">" -> a > b [] op = "<=" -> a <= b [] op = "<" -> a < b

\* value is {} for None.
evaluate_threshold_rule(rule, value, layer) ==
  LET met == {b \in rule.bands : \E v \in value : Compare(rule.comparison, v, b.at)}
  IN  Verdict(layer, rule.rule_id,
        IF value = {} /\ rule.mute_on_sentinel THEN "muted"
        ELSE IF met = {} THEN rule.default_severity
        ELSE Worst({b.severity : b \in met}))

IsSet(v) == v # None /\ v # Word("")
evaluate_presence_rule(rule, v, layer) ==
  Verdict(layer, rule.rule_id,
          IF IsSet(v) THEN rule.severity_when_present ELSE rule.severity_when_missing)

evaluate_enum_rule(rule, v, layer) ==
  Verdict(layer, rule.rule_id,
    IF rule.allowed_values = {} THEN rule.severity_when_allowed
    ELSE IF ~IsSet(v) THEN rule.severity_when_missing
    ELSE IF v \in rule.allowed_values THEN rule.severity_when_allowed
    ELSE rule.severity_when_disallowed)

\* A pattern is the set of the values it matches; {} is no pattern.
evaluate_format_rule(rule, v, layer) ==
  Verdict(layer, rule.rule_id,
    IF rule.pattern = {} THEN rule.severity_when_match
    ELSE IF ~IsSet(v) THEN rule.severity_when_missing
    ELSE IF v \in rule.pattern THEN rule.severity_when_match
    ELSE rule.severity_when_no_match)

\* number is what the caller made of the value for a threshold rule.
evaluate_rule(rule, v, number) ==
  LET layer == "template_default" IN
  CASE rule.kind = "threshold" -> evaluate_threshold_rule(rule, number, layer)
    [] rule.kind = "presence" -> evaluate_presence_rule(rule, v, layer)
    [] rule.kind = "enum" -> evaluate_enum_rule(rule, v, layer)
    [] rule.kind = "format" -> evaluate_format_rule(rule, v, layer)

\* An entry is inline (a rule with its target) or [ref, target]; the registry
\* is a function from rule ids to definitions.  {} when the code raises.
resolve_rule(entry, registry) ==
  IF "ref" \notin DOMAIN entry THEN {entry}
  ELSE IF "kind" \in DOMAIN entry \/ entry.ref \notin DOMAIN registry THEN {}
  ELSE LET def == registry[entry.ref]
       IN  {[f \in DOMAIN def \cup {"target"} |->
               IF f = "target" THEN entry.target ELSE def[f]]}

-----------------------------------------------------------------------------
(* Layers: vendor, template, override.                                     *)

\* rows are the overrides of one customer and subject version: a row of the
\* project beats a standing one (project_id NULL) of the same section and rule.
load_section_overrides(rows, project, section) ==
  LET mine == {r \in rows : r.section = section /\ r.project \in {project, "NULL"}}
  IN  {r \in mine : r.project = project \/
         \A q \in mine : q.rule_id = r.rule_id => q.project = "NULL"}

build_override_verdict(o) == Verdict("override", o.rule_id, o.severity)

\* Mutant: an override is one more verdict and replaces none.
surviving_all(chain) == Range(chain)

\* The verdicts that survive: the last one per rule id, and every anonymous one.
surviving(chain) ==
  {chain[i] : i \in {j \in DOMAIN chain :
     \/ chain[j].rule_id = NoId
     \/ \A l \in (j + 1)..Len(chain) : chain[l].rule_id # chain[j].rule_id}}

resolve_headline(chain) ==
  LET judged == {v.severity : v \in surviving(chain)} \ {"muted"}
  IN  IF judged = {} THEN "muted" ELSE Worst(judged)

\* [severity, chain]; severity is {} when nothing judged the value.
evaluate(v, number, rules, overrides) ==
  LET chain == [i \in DOMAIN rules |-> evaluate_rule(rules[i], v, number)]
                 \o SetToSeq({build_override_verdict(o) : o \in overrides})
  IN  [severity |-> IF chain = <<>> THEN {} ELSE {resolve_headline(chain)},
       chain |-> chain]

\* The recommendation of the first rule that has one and whose verdict survives
\* unmuted.  An anonymous rule finds no survivor: it is looked up by its id.
surface_recommendation(rules, judged) ==
  LET Fires(r) == /\ r.recommendation # {}
                  /\ r.rule_id # NoId
                  /\ \E w \in surviving(judged.chain) :
                       w.rule_id = r.rule_id /\ w.severity # "muted"
      first == {i \in DOMAIN rules : Fires(rules[i]) /\ \A j \in 1..(i - 1) : ~Fires(rules[j])}
  IN  IF judged.severity \subseteq {"muted"} THEN {}
      ELSE UNION {rules[i].recommendation : i \in first}

\* What is chosen of the first n elements of s, for each n, and of all.
AtPlacesUpTo(s, places) ==
  LET upto[n \in 0..Len(s)] ==
        IF n = 0 THEN <<>>
        ELSE IF n \in places THEN Append(upto[n - 1], s[n]) ELSE upto[n - 1]
  IN  upto

AtPlaces(s, places) == AtPlacesUpTo(s, places)[Len(s)]

-----------------------------------------------------------------------------
(* Row rules.  A row is a function from columns to cells, a condition       *)
(* [target, operator, value, value2] with a literal cell or a [ref].        *)

Cell(row, col) == IF col \in DOMAIN row THEN row[col] ELSE None
operand(p, row) == IF p.value.k = "ref" THEN Cell(row, p.value.col) ELSE p.value

\* Numbers when both are numbers, else the text without regard to case.
equal(raw, op) ==
  IF to_number(raw) # {} /\ to_number(op) # {}
  THEN to_number(raw) = to_number(op)
  ELSE raw = op

\* The words a cell shows, for `contains`.
Words(v) == IF v.k = "text" THEN {v.pre, v.post} ELSE {""}

\* A comparison with an absent cell is false; these judge the absence themselves.
JudgeAbsence == {"exists", "not_exists", "version_lt", "version_gte"}

\* {TRUE}, {FALSE}, or {} when a version cannot be read: of the operators that do
\* not ask what day it is.
timeless_value(p, row) ==
  LET raw == Cell(row, p.target)
      opnd == operand(p, row)
      cmp == compare_versions(raw, opnd)
      Holds(R(_, _)) == \E a \in to_number(raw), b \in to_number(opnd) : R(a, b)
  IN IF p.operator \notin JudgeAbsence /\ is_absent(raw) THEN {FALSE}
     ELSE
     CASE p.operator = "exists" -> {~is_absent(raw)}
       [] p.operator = "not_exists" -> {is_absent(raw)}
       [] p.operator = "version_lt" -> {c < 0 : c \in cmp}
       [] p.operator = "version_gte" -> {c >= 0 : c \in cmp}
       [] p.operator = "eq" -> {equal(raw, opnd)}
       [] p.operator = "ne" -> {~equal(raw, opnd)}
       [] p.operator = "contains" -> {Words(opnd) \subseteq Words(raw) \cup {""}}
       [] p.operator = "not_contains" -> {~(Words(opnd) \subseteq Words(raw) \cup {""})}
       [] p.operator = "between" ->
            {\E a \in to_number(raw), lo \in to_number(p.value), hi \in to_number(p.value2) :
               lo <= a /\ a <= hi}
       [] p.operator = "lt" -> {Holds(LAMBDA a, b : a < b)}
       [] p.operator = "lte" -> {Holds(LAMBDA a, b : a <= b)}
       [] p.operator = "gt" -> {Holds(LAMBDA a, b : a > b)}
       [] p.operator = "gte" -> {Holds(LAMBDA a, b : a >= b)}

predicate_value(p, row, now) ==
  IF p.operator = "stale_days" /\ ~is_absent(Cell(row, p.target))
  THEN {\E a \in age_days(Cell(row, p.target), now), t \in to_number(p.value) : 10 * a > t}
  ELSE timeless_value(p, row)

\* A condition that cannot be read never matches.
matches_conditions(conds, row, now) ==
  \A i \in DOMAIN conds : predicate_value(conds[i], row, now) = {TRUE}

\* A definite exclusion wins over what cannot be read.
RowState(values) ==
  IF {FALSE} \in values THEN "no_match"
  ELSE IF {} \in values THEN "unevaluable" ELSE "match"
rule_row_state(conds, row, now) ==
  RowState({predicate_value(conds[i], row, now) : i \in DOMAIN conds})

\* Mutant: rows are always numbered.
row_ref_position(row, i) == Number(10 * (i - 1))

\* The row's id, else its position, counted from 0, in the rows it is given.
row_ref(row, i) ==
  IF is_absent(Cell(row, "id")) THEN Number(10 * (i - 1)) ELSE row["id"]

CountHolds(op, a, b) ==
  CASE op = "lt" -> a < b [] op = "lte" -> a <= b [] op = "gt" -> a > b
    [] op = "gte" -> a >= b [] op = "eq" -> a = b [] op = "ne" -> a # b

\* A finding is [rule_id, severity, row_ref]; row_ref is {} for a count.
Finding(rule, ref) == [rule_id |-> rule.rule_id, severity |-> rule.severity, row_ref |-> ref]

\* Findings are kept as a set: nothing depends on their order.
evaluate_row_rule(rule, rows, now) ==
  LET matched == {i \in DOMAIN rows : matches_conditions(rule.conditions, rows[i], now)}
  IN  CASE rule.emit = "count" ->
             IF CountHolds(rule.count_operator, 10 * Cardinality(matched), rule.count_value)
             THEN {Finding(rule, {})} ELSE {}
        [] rule.emit = "per_row" -> {Finding(rule, {row_ref(rows[i], i)}) : i \in matched}

\* A row out of scope is not evaluated; one with findings has the worst of them.
RowVerdict(in_scope, severities, unreadable) ==
  IF ~in_scope THEN "not_evaluated"
  ELSE IF severities # {} THEN Worst(severities)
  ELSE IF unreadable THEN "not_evaluated" ELSE "good"

\* Findings and unreadable rows count for every row that carries their reference.
JudgeRows(rules, rows, ref, within, findings, now) ==
  LET SevsOf(x) == {f.severity : f \in {g \in findings : g.row_ref = {x}}}
      Unreadable(x) ==
        \E i \in DOMAIN rows, r \in DOMAIN rules :
          /\ within[i] /\ ref[i] = x
          /\ rule_row_state(rules[r].conditions, rows[i], now) = "unevaluable"
  IN  [findings |-> findings,
       per_row |-> [i \in DOMAIN rows |->
         [row_ref |-> ref[i], in_scope |-> within[i],
          verdict |-> RowVerdict(within[i], SevsOf(ref[i]), Unreadable(ref[i]))]]]

\* The findings of a section and, for every row, [row_ref, in_scope, verdict].
\* The rules see the rows in scope only: a row without an id is numbered among
\* those, while per_row numbers it among all rows.
evaluate_section_rows(rules, rows, scope, now) ==
  LET scoped == AtPlaces(rows, {i \in DOMAIN rows : matches_conditions(scope, rows[i], now)})
  IN  JudgeRows(rules, rows,
                [i \in DOMAIN rows |-> row_ref(rows[i], i)],
                [i \in DOMAIN rows |-> matches_conditions(scope, rows[i], now)],
                UNION {evaluate_row_rule(rules[r], scoped, now) : r \in DOMAIN rules}, now)
=============================================================================
