------------------------------ MODULE Sections ------------------------------
(***************************************************************************)
(* From the rows an extractor returns to the sections of a canonical       *)
(* artifact (extractors/conformance.py, metric_section.py, card_section.py,*)
(* chart_section.py, commcell_enrich.py, result_to_artifact.py) and the    *)
(* dry run of the row rules over the stored artifact                       *)
(* (evaluative/subject_eval.py).                                           *)
(*                                                                         *)
(* Rows are functions from columns to cells.  A builder that raises        *)
(* returns {}, otherwise the singleton of what it built: one raising       *)
(* section ends the whole collection.                                      *)
(***************************************************************************)
EXTENDS Evaluation, FiniteSetsExt

-----------------------------------------------------------------------------
(* Conformance: the first aspect that fails, or "".                        *)

TypeAccepts(type, v) ==
  \/ v = None
  \/ CASE type \in {"int", "float", "number"} -> v.k = "number"
       [] type = "string" -> v.k \in {"text", "date"}
       [] OTHER -> TRUE

cardinality_violation(count, card) ==
  IF "exact" \in DOMAIN card THEN count # card.exact
  ELSE \/ "min" \in DOMAIN card /\ count < card.min
       \/ "max" \in DOMAIN card /\ count > card.max

\* A field is present when some row has its key, whatever the cell holds.
check_conformance(rows, conf) ==
  LET present == UNION {DOMAIN rows[i] : i \in DOMAIN rows}
      Everywhere(P(_)) == \A i \in DOMAIN rows : P(rows[i])
  IN IF ~(conf.required_fields \subseteq present) THEN "missing_required_field"
     ELSE IF \E f \in DOMAIN conf.field_types :
               ~Everywhere(LAMBDA r : TypeAccepts(conf.field_types[f], Cell(r, f)))
     THEN "type_mismatch"
     ELSE IF \E f \in DOMAIN conf.enums :
               ~Everywhere(LAMBDA r : Cell(r, f) \in conf.enums[f] \cup {None})
     THEN "unknown_enum_value"
     ELSE IF cardinality_violation(Len(rows), conf.cardinality) THEN "cardinality_mismatch" ELSE ""

-----------------------------------------------------------------------------
(* Metric sections.                                                        *)

MinOfSet(S) == CHOOSE x \in S : \A y \in S : x <= y
MaxOfSet(S) == CHOOSE x \in S : \A y \in S : x >= y

\* latest and first take the row that has the key, be its cell None; the others
\* reduce the cells that hold something.
aggregate(rows, field, agg) ==
  LET having == {i \in DOMAIN rows : field \in DOMAIN rows[i]}
      present == {i \in having : rows[i][field] # None}
      values == {rows[i][field].n : i \in present}
      sum == MapThenSumSet(LAMBDA p : p[2], {<<i, rows[i][field].n>> : i \in present})
  IN IF agg \in {"latest", "first"}
     THEN IF having = {} THEN None
          ELSE rows[IF agg = "latest" THEN MaxOfSet(having) ELSE MinOfSet(having)][field]
     ELSE IF present = {} THEN None
     ELSE CASE agg = "sum" -> Number(sum)
            [] agg = "avg" -> Number(sum \div Cardinality(present))
            [] agg = "max" -> Number(MaxOfSet(values))
            [] agg = "min" -> Number(MinOfSet(values))

\* A CEL expression over the items computed so far, here a quotient in percent:
\* it raises on null and on a zero divisor unless sentinel_when caught it.
derive_cel(item, computed) ==
  LET a == computed[item.num] b == computed[item.den] IN
  IF item.sentinel_when # "" /\ computed[item.sentinel_when] = {None} THEN {None}
  ELSE IF a \cup b \subseteq {None} \/ None \in a \cup b \/ b = {Number(0)} THEN {}
  ELSE {Number((100 * (CHOOSE x \in a : TRUE).n) \div (CHOOSE y \in b : TRUE).n)}

\* The items' values in their declared order; {} for one that raised.
metric_values(spec, rows) ==
  LET FieldValue(item) ==
        LET v == aggregate(rows, item.field, item.agg)
        IN  {IF v \in spec.sentinel THEN None ELSE v}
      upto[n \in 0..Len(spec.items)] ==
        IF n = 0 THEN <<>>
        ELSE LET item == spec.items[n]
                 before == upto[n - 1]
             IN  [id \in DOMAIN before \cup {item.id} |->
                    IF id # item.id THEN before[id]
                    ELSE IF item.source = "field" THEN FieldValue(item)
                    ELSE derive_cel(item, before)]
  IN upto[Len(spec.items)]

\* Rule entries grouped by target.  They raise when a reference does not resolve,
\* a target is unknown, or one target has inline and referenced rules.
template_rules(entries, registry, targets) ==
  LET resolved == [i \in DOMAIN entries |-> resolve_rule(entries[i], registry)]
      Kind(i) == IF "ref" \in DOMAIN entries[i] THEN "ref" ELSE "inline"
      bad == \E i \in DOMAIN entries :
               \/ resolved[i] = {}
               \/ entries[i].target \notin targets
               \/ \E j \in DOMAIN entries : /\ entries[j].target = entries[i].target
                                            /\ Kind(i) # Kind(j)
      Pick(s) == CHOOSE x \in s : TRUE
  IN IF bad THEN {}
     ELSE {[t \in targets |-> LET mine == AtPlaces(resolved, {i \in DOMAIN entries : entries[i].target = t})
                              IN  [i \in DOMAIN mine |-> Pick(mine[i])]]}

\* The layers of one target; the overrides that name one of its rules apply.
judge(v, number, rules, overrides) ==
  LET mine == {o \in overrides : \E i \in DOMAIN rules : rules[i].rule_id = o.rule_id}
      judged == evaluate(v, number, rules, mine)
  IN  [severity |-> judged.severity, chain |-> judged.chain,
       recommendation |-> surface_recommendation(rules, judged)]

Unjudged == [severity |-> {}, chain |-> <<>>, recommendation |-> {}]

NumberOf(v) == IF v.k = "number" THEN {v.n} ELSE {}

\* A threshold compared with a text raises too.
build_metric_section(spec, rows, registry, overrides) ==
  LET values == metric_values(spec, rows)
      ids == DOMAIN values
      ValueOf(id) == CHOOSE x \in values[id] : TRUE
      Compared(rules) == {id \in ids : \E i \in DOMAIN rules[id] : rules[id][i].kind = "threshold"}
  IN IF \E id \in ids : values[id] = {} THEN {}
     ELSE {[type |-> "metric", face |-> spec.face, severity |-> {},
            items |-> [id \in ids |->
               [value |-> ValueOf(id),
                judged |-> judge(ValueOf(id), NumberOf(ValueOf(id)), rules[id], overrides)]]] :
            rules \in {r \in template_rules(spec.rules, registry, ids) :
                         \A id \in Compared(r) : ValueOf(id).k \in {"none", "number"}}}

worst_metric_severity(section) ==
  LET sevs == (UNION {section.items[id].judged.severity : id \in DOMAIN section.items}) \ {"muted"}
  IN  IF sevs = {} THEN {} ELSE {Worst(sevs)}

-----------------------------------------------------------------------------
(* Card sections.                                                          *)

\* A number, or a text that is nothing but one.
coerce_number(v) ==
  IF v.k = "text" /\ (v.pre # "" \/ v.post # "" \/ Len(v.comps) \notin {1, 2}) THEN {}
  ELSE IF v.k \in {"number", "text"} THEN to_number(v) ELSE {}

\* hex and epoch_to_iso reshape what int() reads and leave everything else alone.
coerce_item_value(v, type) ==
  LET whole == CASE v.k = "number" -> {v.n \div 10}
                 [] v.k = "text" /\ v.pre = "" /\ v.post = "" /\ Len(v.comps) = 1 -> {v.comps[1]}
                 [] OTHER -> {}
  IN  IF whole = {} \/ type = "" THEN v
      ELSE CASE type = "hex" -> Text("hex", SetToSeq(whole), "")
             [] type = "epoch_to_iso" -> Date(1970, 0)

card_values(spec, rows) ==
  LET row == IF rows = <<>> THEN <<>> ELSE rows[1]
      Value(it) == IF it.agg = "" THEN Cell(row, it.field) ELSE aggregate(rows, it.field, it.agg)
      fields == {spec.items[i].field : i \in DOMAIN spec.items}
      LastOf(f) == MaxOfSet({i \in DOMAIN spec.items : spec.items[i].field = f})
  IN [f \in fields |-> LET it == spec.items[LastOf(f)] IN coerce_item_value(Value(it), it.type)]

\* With a threshold rule on a field every rule of the field sees the number, so
\* a presence rule beside it finds a text missing.
apply_per_field_rules(values, rules, overrides) ==
  [f \in DOMAIN values |->
     LET v == values[f]
         needs_number == \E i \in DOMAIN rules[f] : rules[f][i].kind = "threshold"
         seen == IF ~needs_number THEN v
                 ELSE IF coerce_number(v) = {} THEN None
                 ELSE Number(CHOOSE n \in coerce_number(v) : TRUE)
     IN  [value |-> v, judged |-> judge(seen, NumberOf(seen), rules[f], overrides)]]

rollup_section_severity(items) ==
  LET sevs == UNION {items[f].judged.severity : f \in DOMAIN items}
  IN  IF sevs \ {"muted"} # {} THEN {Worst(sevs \ {"muted"})} ELSE sevs

\* The older form, one rule for the section, sees the number of the raw field.
section_rule_severity(spec, rows, registry, overrides) ==
  {LET raw == IF rows = <<>> THEN None ELSE Cell(rows[1], r.target)
       number == coerce_number(raw)
       seen == IF number = {} THEN None ELSE Number(CHOOSE n \in number : TRUE)
   IN  judge(seen, number, <<r>>, overrides).severity : r \in resolve_rule(spec.rule, registry)}

JudgedCard(items) ==
  [type |-> "card", items |-> items, severity |-> rollup_section_severity(items)]

build_card_section(spec, rows, registry, overrides) ==
  LET values == card_values(spec, rows)
      Plain == [f \in DOMAIN values |->
                  [value |-> values[f], judged |-> Unjudged]]
      PlainCard(sev) == [type |-> "card", items |-> Plain, severity |-> sev]
  IN IF spec.rules # <<>>
     THEN {JudgedCard(apply_per_field_rules(values, rules, overrides)) :
             rules \in template_rules(spec.rules, registry, DOMAIN values)}
     ELSE IF "rule" \in DOMAIN spec
     THEN {PlainCard(sev) : sev \in section_rule_severity(spec, rows, registry, overrides)}
     ELSE {PlainCard({})}

-----------------------------------------------------------------------------
(* Chart sections: a gap is {}; every series is as long as the labels.     *)

build_chart_section(spec, rows) ==
  LET Point(v) == IF v \in spec.gap_values THEN {} ELSE coerce_number(v)
  IN  {[type |-> "chart",
        labels |-> [i \in DOMAIN rows |-> Cell(rows[i], spec.label)],
        series |-> [s \in spec.series |-> [i \in DOMAIN rows |-> Point(Cell(rows[i], s))]],
        severity |-> {}]}

-----------------------------------------------------------------------------
(* The artifact.  A result is [sections, spec, failures, registry,         *)
(* overrides, row_rules, scope]: rows and specs by section id, the row     *)
(* rules and the scope that were loaded when the collection began.         *)

\* A finding is never muted: whatever is not one of the others is info.
FindingSeverity(s) == IF s \in {"critical", "warning", "good"} THEN s ELSE "info"

build_finding(section, row) ==
  LET sev == Cell(row, "severity")
  IN  [id |-> <<section, Cell(row, "parameter")>>, category |-> section,
       severity |-> IF sev.k = "text" THEN FindingSeverity(sev.pre) ELSE "info"]

build_compliance_finding(section, f) ==
  [id |-> <<f.rule_id, f.row_ref>>, category |-> section,
   severity |-> FindingSeverity(f.severity)]

build_section(result, s) ==
  LET rows == result.sections[s] spec == result.spec[s]
      overrides == load_section_overrides(result.overrides, result.project, s)
  IN CASE spec.output_as = "metric" -> build_metric_section(spec, rows, result.registry, overrides)
       [] spec.output_as = "card" -> build_card_section(spec, rows, result.registry, overrides)
       [] spec.output_as = "chart" -> build_chart_section(spec, rows)
       [] spec.output_as = "findings" ->
            {[type |-> "findings", items |-> [i \in DOMAIN rows |-> build_finding(s, rows[i])],
              severity |-> {}]}
       [] OTHER -> {[type |-> "table", items |-> rows, severity |-> {}]}

\* Mutant: a warning is not a status.
overall_status_critical(severities) == IF "critical" \in severities THEN "critical" ELSE "good"

overall_status(severities) ==
  IF "critical" \in severities THEN "critical"
  ELSE IF "warning" \in severities THEN "warning" ELSE "good"

\* {} when no metric or card carries a severity that is not muted.
verdict_overall_status(built) ==
  LET sevs == UNION {CASE b.type = "metric" -> worst_metric_severity(b)
                       [] b.type = "card" -> b.severity \ {"muted"}
                       [] OTHER -> {} : b \in built}
  IN  IF sevs = {} THEN {} ELSE {overall_status(sevs)}

HasData(b) == \/ b.type = "table" /\ b.items # <<>>
              \/ b.type = "chart" /\ DOMAIN b.series # {}

\* The staging section of observed identity is consumed: the declared name wins
\* over what the report shows, and a placeholder stands for neither.
enrich_commcell_info(built, declared) ==
  IF "_commcell_observed" \notin DOMAIN built THEN built
  ELSE LET rows == built["_commcell_observed"].items
           seen == IF rows = <<>> THEN None ELSE Cell(rows[1], "commcell_name")
           name == IF declared \notin {None, Word("unknown commcell")} THEN declared
                   ELSE IF IsSet(seen) THEN seen ELSE Word("unknown commcell")
       IN [s \in (DOMAIN built \ {"_commcell_observed"}) \cup {"commcell_info"} |->
             IF s # "commcell_info" THEN built[s]
             ELSE [type |-> "metric", face |-> "meta", severity |-> {},
                   items |-> [i \in {"commcell_name"} |->
                                [value |-> name, judged |-> Unjudged]]]]

RowsOf(result, s) == IF s \in DOMAIN result.sections THEN result.sections[s] ELSE <<>>
ScopeOf(result, s) == IF s \in DOMAIN result.scope THEN result.scope[s] ELSE <<>>

\* Findings, status and verdicts of what was built and of the judged tables.
assemble_artifact(result, built, judged, now) ==
  LET compliance == UNION {{build_compliance_finding(s, f) : f \in judged[s].findings} :
                             s \in DOMAIN judged}
      Transcribed(s) == IF built[s].type = "findings" THEN Range(built[s].items) ELSE {}
      findings == compliance \cup UNION {Transcribed(s) : s \in DOMAIN built}
      hasFindings == compliance # {} \/ \E s \in DOMAIN built : built[s].type = "findings"
      verdict == verdict_overall_status(Range(built))
  IN  [sections |-> enrich_commcell_info(built, result.commcell_name),
       compliance |-> compliance,
       verdicts |-> [s \in {t \in DOMAIN judged \cap DOMAIN built : built[t].type = "table"} |->
                       judged[s].per_row],
       status |-> IF hasFindings THEN overall_status({f.severity : f \in findings})
                  ELSE IF verdict # {} THEN CHOOSE v \in verdict : TRUE
                  ELSE IF \E b \in Range(built) : HasData(b) THEN "good" ELSE "unknown",
       evaluation |-> [s \in DOMAIN judged |->
          [scope |-> ScopeOf(result, s),
           checks |-> {[rule_id |-> r.rule_id, severity |-> r.severity] :
                         r \in Range(result.row_rules[s])}]],
       failures |-> result.failures, source |-> result.source, imported_at |-> now]

\* {} when a section raised.
artifact_of_parts(result, parts, now) ==
  IF {} \in Range(parts) THEN {}
  ELSE {assemble_artifact(result,
          [s \in DOMAIN parts |-> CHOOSE b \in parts[s] : TRUE],
          [s \in DOMAIN result.row_rules |->
             evaluate_section_rows(result.row_rules[s], RowsOf(result, s), ScopeOf(result, s),
                                   now)], now)}
result_to_artifact(result, now) ==
  artifact_of_parts(result, [s \in DOMAIN result.sections |-> build_section(result, s)], now)

-----------------------------------------------------------------------------
\* Mutant: the dry run sees every row.
evaluate_subject_unscoped(artifact, row_rules, scope, now) ==
  [s \in DOMAIN row_rules |->
     evaluate_section_rows(row_rules[s],
       IF s \in DOMAIN artifact.sections /\ artifact.sections[s].type = "table"
       THEN artifact.sections[s].items ELSE <<>>, <<>>, now)]

\* The dry run reads the tables of the stored artifact, today's rules and the clock.
evaluate_subject(artifact, row_rules, scope, now) ==
  [s \in DOMAIN row_rules |->
     evaluate_section_rows(row_rules[s],
       IF s \in DOMAIN artifact.sections /\ artifact.sections[s].type = "table"
       THEN artifact.sections[s].items ELSE <<>>,
       IF s \in DOMAIN scope THEN scope[s] ELSE <<>>, now)]
=============================================================================
