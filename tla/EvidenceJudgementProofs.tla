----------------------- MODULE EvidenceJudgementProofs -----------------------
(***************************************************************************)
(* What a page says of the rules and the waivers, for every catalog and    *)
(* every set of projects: a waiver silences its rule and the rule only,    *)
(* and the tile of a subject warns where its page does.                    *)
(***************************************************************************)
EXTENDS EvidenceProofs

(* Severities, what a single rule says of a target, and how a template's  *)
(* entries become the rules of its targets.                                *)

LEMMA WorstIn ==
    ASSUME NEW X, X \subseteq Severities, X # {}
    PROVE  Worst(X) \in X /\ \A t \in X : SeverityRank[t] <= SeverityRank[Worst(X)]
<1>1. \E s \in X : \A t \in X : SeverityRank[t] <= SeverityRank[s]
  <2>1. CASE "critical" \in X
    BY <2>1 DEF Severities, SeverityRank
  <2>2. CASE "critical" \notin X /\ "warning" \in X
    BY <2>2 DEF Severities, SeverityRank
  <2>3. CASE "critical" \notin X /\ "warning" \notin X /\ "info" \in X
    BY <2>3 DEF Severities, SeverityRank
  <2>4. CASE "critical" \notin X /\ "warning" \notin X /\ "info" \notin X /\ "good" \in X
    BY <2>4 DEF Severities, SeverityRank
  <2>5. CASE "critical" \notin X /\ "warning" \notin X /\ "info" \notin X /\ "good" \notin X
    <3>1. \A s \in X : s = "muted"
      BY <2>5 DEF Severities
    <3>2. QED
      BY <3>1 DEF SeverityRank
  <2>6. QED
    BY <2>1, <2>2, <2>3, <2>4, <2>5
<1>2. QED
  BY <1>1 DEF Worst

(* A valid rule gives a severity of the scale.                             *)
LEMMA ValidRuleJudges ==
    ASSUME NEW rule, RuleIsValid(rule), NEW v, NEW number
    PROVE  /\ evaluate_rule(rule, v, number).severity \in Severities
           /\ evaluate_rule(rule, v, number) =
                Verdict("template_default", rule.rule_id, evaluate_rule(rule, v, number).severity)
<1>1. CASE rule.kind = "threshold"
  <2> DEFINE met == {b \in rule.bands : \E x \in number : Compare(rule.comparison, x, b.at)}
             sev == IF number = {} /\ rule.mute_on_sentinel THEN "muted"
                    ELSE IF met = {} THEN rule.default_severity
                    ELSE Worst({b.severity : b \in met})
  <2>1. evaluate_rule(rule, v, number) = Verdict("template_default", rule.rule_id, sev)
    BY <1>1 DEF evaluate_rule, evaluate_threshold_rule
  <2>2. {b.severity : b \in rule.bands} \subseteq Severities /\ rule.default_severity \in Severities
    BY <1>1 DEF RuleIsValid, SeveritiesOf, RuleFields
  <2>3. met # {} => Worst({b.severity : b \in met}) \in Severities
    <3> SUFFICES ASSUME met # {} PROVE Worst({b.severity : b \in met}) \in Severities
      OBVIOUS
    <3> DEFINE X == {b.severity : b \in met}
    <3>1. X \subseteq Severities /\ X # {}
      BY <2>2
    <3> HIDE DEF X
    <3>2. Worst(X) \in Severities
      BY <3>1, WorstIn
    <3>3. QED
      BY <3>2 DEF X
  <2>4. sev \in Severities
    BY <2>2, <2>3 DEF Severities
  <2> HIDE DEF sev
  <2>5. QED
    BY <2>1, <2>4 DEF Verdict
<1>2. CASE rule.kind = "presence"
  <2>1. rule.severity_when_present \in Severities /\ rule.severity_when_missing \in Severities
    BY <1>2 DEF RuleIsValid, SeveritiesOf, RuleFields
  <2>2. QED
    BY <1>2, <2>1 DEF evaluate_rule, evaluate_presence_rule, Verdict
<1>3. CASE rule.kind = "enum"
  <2>1. /\ rule.severity_when_allowed \in Severities /\ rule.severity_when_missing \in Severities
        /\ rule.severity_when_disallowed \in Severities
    BY <1>3 DEF RuleIsValid, SeveritiesOf, RuleFields
  <2>2. QED
    BY <1>3, <2>1 DEF evaluate_rule, evaluate_enum_rule, Verdict
<1>4. CASE rule.kind = "format"
  <2>1. /\ rule.severity_when_match \in Severities /\ rule.severity_when_missing \in Severities
        /\ rule.severity_when_no_match \in Severities
    BY <1>4 DEF RuleIsValid, SeveritiesOf, RuleFields
  <2>2. QED
    BY <1>4, <2>1 DEF evaluate_rule, evaluate_format_rule, Verdict
<1>5. rule.kind \in {"threshold", "presence", "enum", "format"}
  BY DEF RuleIsValid, RuleFields
<1>6. QED
  BY <1>1, <1>2, <1>3, <1>4, <1>5

(* A definition with the target of the entry that refers to it.            *)
Bound(def, target) == [f \in DOMAIN def \cup {"target"} |-> IF f = "target" THEN target ELSE def[f]]

(* It is as valid and says the same.                                       *)
LEMMA BoundSaysTheSame ==
    ASSUME NEW def, RuleIsValid(def), NEW target, NEW v, NEW number
    PROVE  /\ RuleIsValid(Bound(def, target))
           /\ Bound(def, target).rule_id = def.rule_id
           /\ Bound(def, target).recommendation = def.recommendation
           /\ evaluate_rule(Bound(def, target), v, number) = evaluate_rule(def, v, number)
<1> DEFINE r == Bound(def, target)
<1>0. /\ {"rule_id", "kind", "recommendation"} \subseteq DOMAIN def
      /\ def.kind \in {"threshold", "presence", "enum", "format"}
      /\ RuleFields[def.kind] \subseteq DOMAIN def /\ SeveritiesOf(def) \subseteq Severities
  BY DEF RuleIsValid, RuleFields
<1>1. DOMAIN r = DOMAIN def \cup {"target"} /\ \A f \in DOMAIN def : f # "target" => r[f] = def[f]
  BY DEF Bound
<1> HIDE DEF r
<1>2. r.rule_id = def.rule_id /\ r.kind = def.kind /\ r.recommendation = def.recommendation
  BY <1>0, <1>1
<1>3. \A f \in RuleFields[def.kind] : f # "target" /\ r[f] = def[f]
  BY <1>0, <1>1 DEF RuleFields
<1>4. RuleIsValid(r)
  <2>1. SeveritiesOf(r) = SeveritiesOf(def)
    <3>1. CASE def.kind = "threshold"
      <4>1. r.bands = def.bands
        BY <1>3, <3>1 DEF RuleFields
      <4>2. QED
        BY <1>2, <1>3, <4>1 DEF SeveritiesOf
    <3>2. CASE def.kind # "threshold"
      BY <1>2, <1>3, <3>2 DEF SeveritiesOf
    <3>3. QED
      BY <3>1, <3>2
  <2>2. QED
    BY <1>0, <1>1, <1>2, <2>1 DEF RuleIsValid, RuleFields
<1>5. evaluate_rule(r, v, number) = evaluate_rule(def, v, number)
  <2>1. CASE def.kind = "threshold"
    <3>1. /\ r.bands = def.bands /\ r.comparison = def.comparison
          /\ r.default_severity = def.default_severity /\ r.mute_on_sentinel = def.mute_on_sentinel
      BY <1>3, <2>1 DEF RuleFields
    <3>2. QED
      BY <1>2, <2>1, <3>1 DEF evaluate_rule, evaluate_threshold_rule
  <2>2. CASE def.kind = "presence"
    <3>1. r.severity_when_present = def.severity_when_present /\ r.severity_when_missing = def.severity_when_missing
      BY <1>3, <2>2 DEF RuleFields
    <3>2. QED
      BY <1>2, <2>2, <3>1 DEF evaluate_rule, evaluate_presence_rule
  <2>3. CASE def.kind = "enum"
    <3>1. /\ r.allowed_values = def.allowed_values /\ r.severity_when_allowed = def.severity_when_allowed
          /\ r.severity_when_missing = def.severity_when_missing
          /\ r.severity_when_disallowed = def.severity_when_disallowed
      BY <1>3, <2>3 DEF RuleFields
    <3>2. QED
      BY <1>2, <2>3, <3>1 DEF evaluate_rule, evaluate_enum_rule
  <2>4. CASE def.kind = "format"
    <3>1. /\ r.pattern = def.pattern /\ r.severity_when_match = def.severity_when_match
          /\ r.severity_when_missing = def.severity_when_missing
          /\ r.severity_when_no_match = def.severity_when_no_match
      BY <1>3, <2>4 DEF RuleFields
    <3>2. QED
      BY <1>2, <2>4, <3>1 DEF evaluate_rule, evaluate_format_rule
  <2>5. QED
    BY <1>0, <2>1, <2>2, <2>3, <2>4
<1>6. QED
  BY <1>2, <1>4, <1>5 DEF r

(* The rule of an entry. *)
RuleOf(e) == IF "ref" \in DOMAIN e THEN Bound(Registry[e.ref], e.target) ELSE e
EntriesFor(entries, t) == {e \in Range(entries) : e.target = t}
RulesFor(entries, t) == {RuleOf(e) : e \in EntriesFor(entries, t)}

(* The rules of a target are those of its entries, in some order.          *)
LEMMA TemplateRulesAre ==
    ASSUME NEW entries, entries \in Seq(Range(entries)), NEW targets,
           NEW rules \in template_rules(entries, Registry, targets)
    PROVE  /\ DOMAIN rules = targets
           /\ \A t \in targets :
                rules[t] \in Seq(RulesFor(entries, t)) /\ Range(rules[t]) = RulesFor(entries, t)
           /\ \A e \in Range(entries) : "ref" \in DOMAIN e => e.ref \in DOMAIN Registry
<1> DEFINE resolved == [i \in DOMAIN entries |-> resolve_rule(entries[i], Registry)]
           Pick(s) == CHOOSE x \in s : TRUE
           mine(t) == AtPlaces(resolved, {i \in DOMAIN entries : entries[i].target = t})
<1>1. /\ rules = [t \in targets |-> [i \in DOMAIN mine(t) |-> Pick(mine(t)[i])]]
      /\ \A i \in DOMAIN entries : resolved[i] # {}
  BY DEF template_rules
<1>2. \A i \in DOMAIN entries : resolved[i] = {RuleOf(entries[i])}
  <2> SUFFICES ASSUME NEW i \in DOMAIN entries PROVE resolved[i] = {RuleOf(entries[i])}
    OBVIOUS
  <2>1. resolve_rule(entries[i], Registry) # {}
    BY <1>1
  <2>2. QED
    BY <2>1 DEF resolve_rule, RuleOf, Bound
<1>3. \A i \in DOMAIN entries : "ref" \in DOMAIN entries[i] => entries[i].ref \in DOMAIN Registry
  BY <1>1 DEF resolve_rule
<1>4. resolved \in Seq(Range(resolved)) /\ DOMAIN resolved = DOMAIN entries
  <2>1. DOMAIN entries = 1 .. Len(entries) /\ Len(entries) \in Nat
    OBVIOUS
  <2>2. \A i \in DOMAIN entries : resolved[i] \in Range(resolved)
    BY DEF Range
  <2>3. QED
    BY <2>1, <2>2
<1> HIDE DEF resolved
<1>5. ASSUME NEW t \in targets
      PROVE  rules[t] \in Seq(RulesFor(entries, t)) /\ Range(rules[t]) = RulesFor(entries, t)
  <2> DEFINE places == {i \in DOMAIN entries : entries[i].target = t}
             m == mine(t)
             R == RulesFor(entries, t)
  <2>1. m \in Seq({resolved[k] : k \in places \cap DOMAIN resolved})
    BY <1>4, AtPlacesType
  <2>2. Range(m) = {resolved[k] : k \in places \cap DOMAIN resolved}
    BY <1>4, AtPlacesRange
  <2>3. rules[t] = [i \in DOMAIN m |-> Pick(m[i])]
    BY <1>1
  <2> HIDE DEF m
  <2>4. ASSUME NEW i \in DOMAIN m PROVE \E k \in places : m[i] = {RuleOf(entries[k])}
    <3>1. m[i] \in Range(m)
      BY DEF Range
    <3>2. PICK k \in places \cap DOMAIN resolved : m[i] = resolved[k]
      BY <2>2, <3>1
    <3>3. QED
      BY <1>2, <3>2
  <2>5. \A k \in places : \E i \in DOMAIN m : m[i] = {RuleOf(entries[k])}
    <3> SUFFICES ASSUME NEW k \in places PROVE \E i \in DOMAIN m : m[i] = {RuleOf(entries[k])}
      OBVIOUS
    <3>1. resolved[k] \in Range(m) /\ resolved[k] = {RuleOf(entries[k])}
      BY <1>2, <1>4, <2>2
    <3>2. QED
      BY <3>1 DEF Range
  <2>6. \A k \in places : RuleOf(entries[k]) \in R
    BY DEF RulesFor, EntriesFor, Range
  <2>7. \A x \in R : \E k \in places : x = RuleOf(entries[k])
    BY DEF RulesFor, EntriesFor, Range
  <2>8. \A x : Pick({x}) = x
    OBVIOUS
  <2> HIDE DEF places, R
  <2>9. ASSUME NEW i \in DOMAIN m PROVE rules[t][i] \in R
    <3>1. PICK k \in places : m[i] = {RuleOf(entries[k])}
      BY <2>4
    <3>2. rules[t][i] = RuleOf(entries[k])
      BY <2>3, <2>8, <3>1
    <3>3. QED
      BY <2>6, <3>2
  <2>10. DOMAIN m = 1 .. Len(m) /\ Len(m) \in Nat
    BY <2>1
  <2>11. rules[t] \in Seq(R)
    BY <2>3, <2>9, <2>10
  <2>12. \A x \in R : \E i \in DOMAIN m : rules[t][i] = x
    BY <2>3, <2>5, <2>7, <2>8
  <2>13. DOMAIN rules[t] = DOMAIN m
    BY <2>3
  <2>14. Range(rules[t]) = R
    BY <2>9, <2>12, <2>13 DEF Range
  <2>15. QED
    BY <2>11, <2>14 DEF R
<1>6. QED
  BY <1>1, <1>3, <1>5 DEF Range

-----------------------------------------------------------------------------
(* What survives of a template's verdicts and of one verdict per waived    *)
(* rule after them: the latter, and the former where no rule is waived.    *)
LEMMA Survivors ==
    ASSUME NEW X, NEW t \in Seq(X), NEW e \in Seq(X),
           \A x \in X : x.rule_id # NoId,
           \A i, k \in DOMAIN t : t[i].rule_id = t[k].rule_id => t[i] = t[k],
           \A i, k \in DOMAIN e : e[i].rule_id = e[k].rule_id => i = k
    PROVE  surviving(t \o e) =
             Range(e) \cup {x \in Range(t) : \A y \in Range(e) : y.rule_id # x.rule_id}
<1> DEFINE c == t \o e
           n == Len(t)
           m == Len(e)
           LastAt(j) == \A l \in (j + 1) .. Len(c) : c[l].rule_id # c[j].rule_id
<1>1. /\ n \in Nat /\ m \in Nat /\ DOMAIN t = 1 .. n /\ DOMAIN e = 1 .. m
      /\ Len(c) = n + m /\ DOMAIN c = 1 .. (n + m)
  OBVIOUS
<1>2. /\ \A i \in 1 .. n : i \in DOMAIN c /\ c[i] = t[i] /\ t[i] \in X
      /\ \A k \in 1 .. m : n + k \in DOMAIN c /\ c[n + k] = e[k] /\ e[k] \in X
  BY <1>1
<1>3. \A i \in DOMAIN c : i \in 1 .. n \/ (i - n \in 1 .. m /\ n + (i - n) = i)
  BY <1>1
<1> HIDE DEF c, n, m
<1>4. surviving(c) = {c[j] : j \in {i \in DOMAIN c : LastAt(i)}}
  <2>1. \A i \in DOMAIN c : c[i].rule_id # NoId
    BY <1>2, <1>3
  <2>2. {j \in DOMAIN c : \/ c[j].rule_id = NoId
                          \/ \A l \in (j + 1) .. Len(c) : c[l].rule_id # c[j].rule_id}
          = {i \in DOMAIN c : LastAt(i)}
    BY <2>1
  <2>3. QED
    BY <2>2 DEF surviving
<1>5. ASSUME NEW j \in DOMAIN c, LastAt(j)
      PROVE  c[j] \in Range(e) \cup {x \in Range(t) : \A y \in Range(e) : y.rule_id # x.rule_id}
  <2>1. CASE j \in 1 .. n
    <3>1. c[j] = t[j] /\ t[j] \in Range(t)
      BY <1>1, <1>2, <2>1 DEF Range
    <3>2. ASSUME NEW k \in 1 .. m PROVE e[k].rule_id # c[j].rule_id
      <4>1. n + k \in (j + 1) .. Len(c) /\ c[n + k] = e[k]
        BY <1>1, <1>2, <2>1
      <4>2. QED
        BY <1>5, <4>1
    <3>3. QED
      BY <1>1, <3>1, <3>2 DEF Range
  <2>2. CASE j - n \in 1 .. m /\ n + (j - n) = j
    BY <1>1, <1>2, <2>2 DEF Range
  <2>3. QED
    BY <1>3, <2>1, <2>2
<1>6. ASSUME NEW k \in 1 .. m PROVE \E j \in DOMAIN c : LastAt(j) /\ c[j] = e[k]
  <2>1. ASSUME NEW l \in (n + k + 1) .. Len(c) PROVE c[l].rule_id # c[n + k].rule_id
    <3>1. l - n \in 1 .. m /\ n + (l - n) = l /\ l - n # k
      BY <1>1, <2>1
    <3>2. c[l] = e[l - n] /\ c[n + k] = e[k]
      BY <1>2, <3>1
    <3>3. QED
      BY <1>1, <3>1, <3>2
  <2>2. QED
    BY <1>2, <2>1
<1>7. ASSUME NEW i \in 1 .. n, \A y \in Range(e) : y.rule_id # t[i].rule_id
      PROVE  \E j \in DOMAIN c : LastAt(j) /\ c[j] = t[i]
  <2> DEFINE same == {k \in 1 .. n : t[k].rule_id = t[i].rule_id}
             g == MaxOfSet(same)
  <2>1. same \subseteq 1 .. n /\ same # {}
    OBVIOUS
  <2>2. g \in same /\ \A k \in same : g >= k
    <3> HIDE DEF same
    <3>1. QED
      BY <1>1, <2>1, GreatestIn
  <2> HIDE DEF g
  <2>3. g \in 1 .. n /\ t[g] = t[i]
    BY <1>1, <2>2
  <2>4. ASSUME NEW l \in (g + 1) .. Len(c) PROVE c[l].rule_id # t[i].rule_id
    <3>1. CASE l \in 1 .. n
      <4>1. ~(g >= l)
        BY <1>1, <2>3, <3>1
      <4>2. l \notin same
        BY <2>2, <4>1
      <4>3. QED
        BY <1>2, <3>1, <4>2
    <3>2. CASE l \notin 1 .. n
      <4>1. l \in DOMAIN c
        BY <1>1, <2>3
      <4>2. l - n \in 1 .. m /\ n + (l - n) = l
        BY <1>3, <3>2, <4>1
      <4>3. c[l] = e[l - n] /\ e[l - n] \in Range(e)
        BY <1>1, <1>2, <4>2 DEF Range
      <4>4. QED
        BY <1>7, <4>3
    <3>3. QED
      BY <3>1, <3>2
  <2>5. g \in DOMAIN c /\ c[g] = t[i]
    BY <1>2, <2>3
  <2>6. QED
    BY <2>4, <2>5
<1>8. surviving(c) \subseteq Range(e) \cup {x \in Range(t) : \A y \in Range(e) : y.rule_id # x.rule_id}
  BY <1>4, <1>5
<1>9. Range(e) \subseteq surviving(c)
  BY <1>1, <1>4, <1>6 DEF Range
<1>10. {x \in Range(t) : \A y \in Range(e) : y.rule_id # x.rule_id} \subseteq surviving(c)
  BY <1>1, <1>4, <1>7 DEF Range
<1>11. QED
  BY <1>8, <1>9, <1>10 DEF c

(* Overrides of one rule in a project. *)
NamedIn(waivers, r) == {o.severity : o \in {q \in waivers : q.rule_id = r}}

(* Those a section loads are those that apply.                             *)
LEMMA LoadedAreWaived ==
    ASSUME NEW p, NEW s, NEW r
    PROVE  NamedIn(load_section_overrides(overrides, p, s), r) = Waived(p, s, r)
<1> DEFINE mine == {o \in overrides : o.section = s /\ o.project \in {p, "NULL"}}
           of(q) == {o \in overrides : o.section = s /\ o.rule_id = r /\ o.project = q}
           loaded == {o \in load_section_overrides(overrides, p, s) : o.rule_id = r}
<1>1. loaded = {o \in mine : /\ o.rule_id = r
                             /\ \/ o.project = p
                                \/ \A q \in mine : q.rule_id = o.rule_id => q.project = "NULL"}
  BY DEF load_section_overrides
<1>2. loaded = IF of(p) # {} THEN of(p) ELSE of("NULL")
  <2>1. CASE of(p) # {}
    <3>1. PICK o \in mine : o.rule_id = r /\ o.project = p
      BY <2>1
    <3>2. \A q \in loaded : q \in of(p)
      BY <1>1, <3>1
    <3>3. of(p) \subseteq loaded
      BY <1>1
    <3>4. QED
      BY <2>1, <3>2, <3>3
  <2>2. CASE of(p) = {}
    BY <1>1, <2>2
  <2>3. QED
    BY <2>1, <2>2
<1>3. NamedIn(load_section_overrides(overrides, p, s), r) = {o.severity : o \in loaded}
  BY DEF NamedIn
<1>4. Waived(p, s, r) = IF {o.severity : o \in of(p)} # {} THEN {o.severity : o \in of(p)}
                        ELSE {o.severity : o \in of("NULL")}
  BY DEF Waived
<1> HIDE DEF loaded, of
<1>5. QED
  BY <1>2, <1>3, <1>4

(* They are of known severities, and one for each rule.                    *)
Keyed(waivers) ==
  /\ IsFiniteSet(waivers) /\ \A o \in waivers : o.severity \in Severities
  /\ \A o, q \in waivers : o.rule_id = q.rule_id => o = q

LEMMA LoadedAreKeyed ==
    ASSUME WaiversAreKeyed, overrides \in Waivers, NEW p, NEW s
    PROVE  Keyed(load_section_overrides(overrides, p, s))
<1> DEFINE L == load_section_overrides(overrides, p, s)
<1>1. /\ L \subseteq overrides /\ IsFiniteSet(overrides)
      /\ \A o \in overrides : o.severity \in Severities
      /\ \A o, q \in overrides : SameOverride(o, q) => o = q
  BY EvidenceAssumption DEF load_section_overrides, WaiversAreKeyed
<1>2. IsFiniteSet(L)
  BY <1>1, FS_Subset
<1>3. \A o, q \in L : o.rule_id = q.rule_id => o.section = q.section /\ o.project = q.project
  BY DEF load_section_overrides
<1>4. QED
  BY <1>1, <1>2, <1>3 DEF Keyed, SameOverride

-----------------------------------------------------------------------------
(* What the verdicts of a target's rules and the waivers leave to it.      *)
Verdicts(v, number, rules) == [i \in DOMAIN rules |-> evaluate_rule(rules[i], v, number)]
Naming(waivers, rules) == {o \in waivers : \E i \in DOMAIN rules : rules[i].rule_id = o.rule_id}
ChainOf(v, number, rules, waivers) ==
  Verdicts(v, number, rules) \o SetToSeq({build_override_verdict(o) : o \in Naming(waivers, rules)})

(* Rules of the registry, bound to a target. *)
BoundTo(ids, target) == {Bound(Registry[r], target) : r \in ids}

(* A rule of the registry says what its waiver says, or its own verdict.   *)
OwnSay(r, v, number, waivers) ==
  IF NamedIn(waivers, r) # {} THEN NamedIn(waivers, r)
  ELSE {evaluate_rule(Registry[r], v, number).severity}

LEMMA JudgeIs ==
    ASSUME NEW v, NEW number, NEW rules, NEW waivers
    PROVE  LET chain == ChainOf(v, number, rules, waivers)
               severity == IF chain = <<>> THEN {} ELSE {resolve_headline(chain)}
           IN  judge(v, number, rules, waivers) =
                 [severity |-> severity, chain |-> chain,
                  recommendation |-> surface_recommendation(rules, [severity |-> severity, chain |-> chain])]
  BY DEF judge, evaluate, ChainOf, Verdicts, Naming

(* The verdicts of waivers that name a rule.                               *)
LEMMA OverrideVerdicts ==
    ASSUME NEW rules, NEW waivers, Keyed(waivers)
    PROVE  LET V == {build_override_verdict(o) : o \in Naming(waivers, rules)}
               e == SetToSeq(V)
           IN  /\ e \in Seq(V) /\ Range(e) = V
               /\ \A i, k \in DOMAIN e : e[i].rule_id = e[k].rule_id => i = k
<1> DEFINE N == Naming(waivers, rules)
           V == {build_override_verdict(o) : o \in N}
           e == SetToSeq(V)
<1>1. IsFiniteSet(V)
  <2>1. IsFiniteSet(N)
    BY FS_Subset DEF Keyed, Naming
  <2> HIDE DEF N
  <2> DEFINE f == [o \in N |-> build_override_verdict(o)]
  <2>2. f \in Surjection(N, V)
    BY DEF Surjection
  <2>3. QED
    BY <2>1, <2>2, FS_Surjection
<1>2. \A x, y \in V : x.rule_id = y.rule_id => x = y
  BY DEF Keyed, Naming, build_override_verdict, Verdict
<1> HIDE DEF V
<1>3. e \in Seq(V) /\ Range(e) = V /\ \A i, k \in DOMAIN e : e[i] = e[k] => i = k
  BY <1>1, Enumerated
<1> HIDE DEF e
<1>4. \A i \in DOMAIN e : e[i] \in V
  BY <1>3
<1>5. QED
  BY <1>2, <1>3, <1>4 DEF V, e

(* Every rule of a target has one verdict that survives, and it says what  *)
(* the rule says once it may be waived.                                    *)
EachSurvives(ids, v, number, rules, waivers) ==
  LET left == surviving(ChainOf(v, number, rules, waivers))
  IN  /\ \A w \in left : w.rule_id \in ids /\ OwnSay(w.rule_id, v, number, waivers) = {w.severity}
      /\ \A r \in ids : \E w \in left : w.rule_id = r
      /\ \A r \in ids : OwnSay(r, v, number, waivers) \subseteq Severities
      /\ ChainOf(v, number, rules, waivers) = <<>> <=> ids = {}

LEMMA SurvivorsSay ==
    ASSUME RegistryIsValid, NEW ids \in SUBSET DOMAIN Registry, NEW target,
           NEW rules, rules \in Seq(Range(rules)),
           Range(rules) = BoundTo(ids, target),
           NEW waivers, Keyed(waivers), NEW v, NEW number
    PROVE  EachSurvives(ids, v, number, rules, waivers)
<1> DEFINE T == Verdicts(v, number, rules)
           V == {build_override_verdict(o) : o \in Naming(waivers, rules)}
           E == SetToSeq(V)
           left == surviving(ChainOf(v, number, rules, waivers))
           Sev(r) == evaluate_rule(Registry[r], v, number).severity
           Own(r) == OwnSay(r, v, number, waivers)
           U == {Verdict("template_default", r, Sev(r)) : r \in ids}
<1>1. ASSUME NEW i \in DOMAIN rules
      PROVE  /\ rules[i].rule_id \in ids
             /\ T[i] = Verdict("template_default", rules[i].rule_id, Sev(rules[i].rule_id))
  <2>1. rules[i] \in Range(rules)
    BY DEF Range
  <2>2. PICK r \in ids : rules[i] = Bound(Registry[r], target)
    BY <2>1 DEF BoundTo
  <2>3. RuleIsValid(Registry[r]) /\ Registry[r].rule_id = r
    BY DEF RegistryIsValid
  <2>4. rules[i].rule_id = r /\ evaluate_rule(rules[i], v, number) = evaluate_rule(Registry[r], v, number)
    BY <2>2, <2>3, BoundSaysTheSame
  <2>5. evaluate_rule(Registry[r], v, number) = Verdict("template_default", r, Sev(r))
    BY <2>3, ValidRuleJudges
  <2>6. T[i] = evaluate_rule(rules[i], v, number)
    BY DEF Verdicts
  <2>7. QED
    BY <2>4, <2>5, <2>6
<1>2. ASSUME NEW r \in ids PROVE \E i \in DOMAIN rules : rules[i].rule_id = r
  <2>1. Bound(Registry[r], target) \in Range(rules)
    BY DEF BoundTo
  <2>2. PICK i \in DOMAIN rules : rules[i] = Bound(Registry[r], target)
    BY <2>1 DEF Range
  <2>3. RuleIsValid(Registry[r]) /\ Registry[r].rule_id = r
    BY DEF RegistryIsValid
  <2>4. Bound(Registry[r], target).rule_id = r
    BY <2>3, BoundSaysTheSame
  <2>5. QED
    BY <2>2, <2>4
<1>3. DOMAIN T = DOMAIN rules /\ DOMAIN rules = 1 .. Len(rules) /\ Len(rules) \in Nat
  BY DEF Verdicts
<1>4. E \in Seq(V) /\ Range(E) = V /\ \A i, k \in DOMAIN E : E[i].rule_id = E[k].rule_id => i = k
  BY OverrideVerdicts
<1>5. ASSUME NEW o \in waivers, o.rule_id \in ids
      PROVE  build_override_verdict(o) \in V
  BY <1>2, <1>5 DEF Naming
<1>6. ASSUME NEW x \in V
      PROVE  /\ x.rule_id \in ids /\ x.rule_id # NoId
             /\ Own(x.rule_id) = {x.severity} /\ x.severity \in Severities
  <2>1. PICK o \in Naming(waivers, rules) : x = build_override_verdict(o)
    OBVIOUS
  <2>2. o \in waivers /\ o.rule_id \in ids
    BY <1>1 DEF Naming
  <2>3. x.rule_id = o.rule_id /\ x.severity = o.severity
    BY <2>1 DEF build_override_verdict, Verdict
  <2>4. o.severity \in Severities /\ \A q \in waivers : q.rule_id = o.rule_id => q = o
    BY <2>2 DEF Keyed
  <2>5. NamedIn(waivers, o.rule_id) = {o.severity}
    BY <2>2, <2>4 DEF NamedIn
  <2>6. QED
    BY <2>2, <2>3, <2>4, <2>5 DEF OwnSay, RegistryIsValid
<1>7. ASSUME NEW r \in ids, NamedIn(waivers, r) # {} PROVE \E x \in V : x.rule_id = r
  <2>1. PICK o \in waivers : o.rule_id = r
    BY <1>7 DEF NamedIn
  <2>2. build_override_verdict(o).rule_id = r
    BY <2>1 DEF build_override_verdict, Verdict
  <2>3. QED
    BY <1>5, <2>1, <2>2
<1> HIDE DEF T, V, E, Own
<1>8. /\ T \in Seq(U) /\ \A i \in DOMAIN T : T[i].rule_id = rules[i].rule_id
      /\ \A i, k \in DOMAIN T : T[i].rule_id = T[k].rule_id => T[i] = T[k]
  <2>1. \A i \in DOMAIN T : T[i] \in U /\ T[i].rule_id = rules[i].rule_id
    BY <1>1, <1>3 DEF Verdict
  <2>2. DOMAIN T = 1 .. Len(rules) /\ Len(rules) \in Nat
    BY <1>3
  <2>3. T = [i \in DOMAIN rules |-> T[i]]
    BY DEF T, Verdicts
  <2>4. T \in Seq(U)
    <3> HIDE DEF U
    <3>1. QED
      BY <1>3, <2>1, <2>2, <2>3
  <2>5. QED
    BY <1>1, <1>3, <2>1, <2>4
<1>9. \A x \in U : x.rule_id \in ids /\ x.rule_id # NoId /\ x.severity = Sev(x.rule_id) /\ Sev(x.rule_id) \in Severities
  <2>1. \A r \in ids : r # NoId /\ Sev(r) \in Severities
    BY ValidRuleJudges DEF RegistryIsValid
  <2>2. QED
    BY <2>1 DEF Verdict
<1>10. Range(T) \subseteq U /\ \A r \in ids : \E x \in Range(T) : x.rule_id = r
  <2> HIDE DEF U
  <2>1. Range(T) \subseteq U
    BY <1>8 DEF Range
  <2>2. QED
    BY <1>2, <1>3, <1>8, <2>1 DEF Range
<1>11. left = V \cup {x \in Range(T) : \A y \in V : y.rule_id # x.rule_id}
  <2> DEFINE X == U \cup V
  <2>1. \A x \in X : x.rule_id # NoId
    BY <1>6, <1>9
  <2>2. T \in Seq(X) /\ E \in Seq(X)
    <3> HIDE DEF U
    <3>1. QED
      BY <1>4, <1>8
  <2> HIDE DEF X
  <2>3. surviving(T \o E) = Range(E) \cup {x \in Range(T) : \A y \in Range(E) : y.rule_id # x.rule_id}
    BY <1>4, <1>8, <2>1, <2>2, Survivors
  <2>4. ChainOf(v, number, rules, waivers) = T \o E
    BY DEF ChainOf, T, E, V
  <2>5. QED
    BY <1>4, <2>3, <2>4
<1>12. ASSUME NEW w \in left PROVE w.rule_id \in ids /\ Own(w.rule_id) = {w.severity}
  <2>1. CASE w \in V
    BY <1>6, <2>1
  <2>2. CASE w \in Range(T) /\ \A y \in V : y.rule_id # w.rule_id
    <3>1. w \in U
      BY <1>10, <2>2
    <3>2. NamedIn(waivers, w.rule_id) = {}
      BY <1>7, <1>9, <2>2, <3>1
    <3>3. QED
      BY <1>9, <3>1, <3>2 DEF Own, OwnSay
  <2>3. QED
    BY <1>11, <2>1, <2>2
<1>13. ASSUME NEW r \in ids PROVE (\E w \in left : w.rule_id = r) /\ Own(r) \subseteq Severities
  <2>1. CASE \E x \in V : x.rule_id = r
    BY <1>6, <1>11, <2>1
  <2>2. CASE \A x \in V : x.rule_id # r
    <3>1. PICK x \in Range(T) : x.rule_id = r
      BY <1>10
    <3>2. NamedIn(waivers, r) = {}
      BY <1>7, <2>2
    <3>3. x \in U
      BY <1>10, <3>1
    <3> HIDE DEF left, U
    <3>4. x \in left
      BY <1>11, <2>2, <3>1
    <3>5. Own(r) = {Sev(r)} /\ Sev(r) \in Severities
      BY <1>9, <3>1, <3>2, <3>3 DEF Own, OwnSay
    <3>6. QED
      BY <3>1, <3>4, <3>5
  <2>3. QED
    BY <2>1, <2>2
<1>14. ChainOf(v, number, rules, waivers) = <<>> <=> ids = {}
  <2>1. ChainOf(v, number, rules, waivers) = T \o E
    BY DEF ChainOf, T, E, V
  <2>2. CASE ids = {}
    <3>1. DOMAIN rules = {} /\ V = {}
      BY <1>1, <1>6, <2>2
    <3>2. Len(T) = 0
      BY <1>3, <1>8, <3>1
    <3>3. E \in Seq({})
      BY <1>4, <3>1
    <3> HIDE DEF U
    <3>4. T = <<>> /\ E = <<>>
      BY <1>8, <3>2, <3>3
    <3>5. QED
      BY <2>1, <2>2, <3>4
  <2>3. CASE ids # {}
    <3>1. DOMAIN T # {}
      BY <1>2, <1>3, <2>3
    <3> HIDE DEF U
    <3>2. Len(T) >= 1 /\ Len(T \o E) = Len(T) + Len(E) /\ Len(E) \in Nat /\ Len(T) \in Nat
      BY <1>4, <1>8, <3>1
    <3>3. T \o E # <<>>
      BY <3>2
    <3>4. QED
      BY <2>1, <2>3, <3>3
  <2>4. QED
    BY <2>2, <2>3
<1>15. QED
  BY <1>12, <1>13, <1>14 DEF Own, EachSurvives

-----------------------------------------------------------------------------
LEMMA BoundKeeps ==
    ASSUME NEW def, RuleIsValid(def), NEW target
    PROVE  /\ RuleIsValid(Bound(def, target)) /\ Bound(def, target).rule_id = def.rule_id
           /\ Bound(def, target).recommendation = def.recommendation
<1>1. /\ RuleIsValid(Bound(def, target)) /\ Bound(def, target).rule_id = def.rule_id
      /\ Bound(def, target).recommendation = def.recommendation
      /\ evaluate_rule(Bound(def, target), None, {}) = evaluate_rule(def, None, {})
  BY BoundSaysTheSame
<1>2. QED
  BY <1>1

(* What is loud of it, and the advice of the rules that are.               *)
OwnLoud(ids, v, number, waivers) == (UNION {OwnSay(r, v, number, waivers) : r \in ids}) \ {"muted"}
OwnAdvice(ids, v, number, waivers) ==
  UNION {Registry[r].recommendation : r \in {q \in ids : "muted" \notin OwnSay(q, v, number, waivers)}}

Sound(judged, ids, v, number, waivers) ==
  LET loud == OwnLoud(ids, v, number, waivers)
      advice == OwnAdvice(ids, v, number, waivers)
  IN  /\ judged.severity = IF ids = {} THEN {} ELSE IF loud = {} THEN {"muted"} ELSE {Worst(loud)}
      /\ judged.recommendation \subseteq advice
      /\ advice # {} => judged.recommendation # {}

(* The headline is the worst of what the rules say, and the advice that of *)
(* a rule that is not silent.                                              *)
LEMMA TargetIsJudged ==
    ASSUME RegistryIsValid, NEW ids \in SUBSET DOMAIN Registry, NEW target,
           NEW rules, rules \in Seq(Range(rules)),
           Range(rules) = BoundTo(ids, target),
           NEW waivers, Keyed(waivers), NEW v, NEW number
    PROVE  Sound(judge(v, number, rules, waivers), ids, v, number, waivers)
<1> DEFINE chain == ChainOf(v, number, rules, waivers)
           left == surviving(chain)
           severity == IF chain = <<>> THEN {} ELSE {resolve_headline(chain)}
           judged == judge(v, number, rules, waivers)
           Own(r) == OwnSay(r, v, number, waivers)
           loud == (UNION {Own(r) : r \in ids}) \ {"muted"}
           heard == {q \in ids : "muted" \notin Own(q)}
           Fires(r) == /\ r.recommendation # {} /\ r.rule_id # NoId
                       /\ \E w \in left : w.rule_id = r.rule_id /\ w.severity # "muted"
           first == {i \in DOMAIN rules : Fires(rules[i]) /\ \A j \in 1 .. (i - 1) : ~Fires(rules[j])}
<1>1. /\ \A w \in left : w.rule_id \in ids /\ Own(w.rule_id) = {w.severity}
      /\ \A r \in ids : \E w \in left : w.rule_id = r
      /\ \A r \in ids : Own(r) \subseteq Severities
      /\ chain = <<>> <=> ids = {}
  <2>1. EachSurvives(ids, v, number, rules, waivers)
    BY SurvivorsSay
  <2>2. QED
    BY <2>1 DEF EachSurvives
<1>2. judged = [severity |-> severity, chain |-> chain,
                recommendation |-> surface_recommendation(rules, [severity |-> severity, chain |-> chain])]
  BY JudgeIs
<1>3. judged.recommendation =
        IF severity \subseteq {"muted"} THEN {} ELSE UNION {rules[i].recommendation : i \in first}
  BY <1>2 DEF surface_recommendation
<1> HIDE DEF chain, Own
<1>4. {w.severity : w \in left} = UNION {Own(r) : r \in ids}
  <2> HIDE DEF left
  <2>1. ASSUME NEW w \in left PROVE w.severity \in UNION {Own(r) : r \in ids}
    BY <1>1
  <2>2. ASSUME NEW r \in ids, NEW x \in Own(r) PROVE \E w \in left : x = w.severity
    <3>1. PICK w \in left : w.rule_id = r
      BY <1>1
    <3>2. Own(r) = {w.severity}
      BY <1>1, <3>1
    <3>3. QED
      BY <3>2
  <2> DEFINE said == {w.severity : w \in left}
  <2>3. \A x \in said : x \in UNION {Own(r) : r \in ids}
    BY <2>1
  <2>4. \A r \in ids : \A x \in Own(r) : x \in said
    BY <2>2
  <2> HIDE DEF said
  <2>5. said = UNION {Own(r) : r \in ids}
    BY <2>3, <2>4
  <2>6. QED
    BY <2>5 DEF said
<1>5. resolve_headline(chain) = IF loud = {} THEN "muted" ELSE Worst(loud)
  <2>1. {w.severity : w \in surviving(chain)} \ {"muted"} = loud
    BY <1>4
  <2> HIDE DEF loud, left
  <2>2. QED
    BY <2>1 DEF resolve_headline
<1>6. severity = IF ids = {} THEN {} ELSE IF loud = {} THEN {"muted"} ELSE {Worst(loud)}
  BY <1>1, <1>5
<1>7. loud \subseteq Severities
  BY <1>1
<1>8. ASSUME NEW i \in DOMAIN rules
      PROVE  \E r \in ids : rules[i].rule_id = r /\ rules[i].recommendation = Registry[r].recommendation /\ r # NoId
  <2>1. rules[i] \in Range(rules)
    BY DEF Range
  <2>2. PICK r \in ids : rules[i] = Bound(Registry[r], target)
    BY <2>1 DEF BoundTo
  <2>3. RuleIsValid(Registry[r]) /\ Registry[r].rule_id = r /\ r # NoId
    BY DEF RegistryIsValid
  <2>4. QED
    BY <2>2, <2>3, BoundKeeps
<1>9. ASSUME NEW r \in ids
      PROVE  \E i \in DOMAIN rules : rules[i].rule_id = r /\ rules[i].recommendation = Registry[r].recommendation
  <2>1. PICK i \in DOMAIN rules : rules[i] = Bound(Registry[r], target)
    BY DEF Range, BoundTo
  <2>2. RuleIsValid(Registry[r]) /\ Registry[r].rule_id = r
    BY DEF RegistryIsValid
  <2>3. QED
    BY <2>1, <2>2, BoundKeeps
<1> HIDE DEF left
<1>10. ASSUME NEW i \in DOMAIN rules
       PROVE  Fires(rules[i]) <=> rules[i].recommendation # {} /\ rules[i].rule_id \in heard
  <2>1. rules[i].rule_id \in ids /\ rules[i].rule_id # NoId
    BY <1>8
  <2>2. (\E w \in left : w.rule_id = rules[i].rule_id /\ w.severity # "muted") <=> "muted" \notin Own(rules[i].rule_id)
    <3>1. PICK w \in left : w.rule_id = rules[i].rule_id
      BY <1>1, <2>1
    <3>2. \A x \in left : x.rule_id = rules[i].rule_id => Own(rules[i].rule_id) = {x.severity}
      BY <1>1
    <3>3. QED
      BY <3>1, <3>2
  <2>3. QED
    BY <2>1, <2>2
<1> HIDE DEF Fires
<1>11. judged.recommendation \subseteq UNION {Registry[r].recommendation : r \in heard}
  <2> SUFFICES ASSUME NEW x \in judged.recommendation
               PROVE  \E r \in heard : x \in Registry[r].recommendation
    OBVIOUS
  <2> HIDE DEF judged
  <2>1. PICK i \in first : x \in rules[i].recommendation
    BY <1>3
  <2>2. Fires(rules[i]) /\ i \in DOMAIN rules
    OBVIOUS
  <2>3. QED
    BY <1>8, <1>10, <2>1, <2>2
<1>12. ASSUME UNION {Registry[r].recommendation : r \in heard} # {} PROVE judged.recommendation # {}
  <2> DEFINE firing == {i \in DOMAIN rules : Fires(rules[i])}
  <2>1. PICK r \in heard : Registry[r].recommendation # {}
    BY <1>12
  <2>2. PICK i \in firing : rules[i].rule_id = r
    BY <1>9, <1>10, <2>1
  <2>3. DOMAIN rules = 1 .. Len(rules) /\ Len(rules) \in Nat
    OBVIOUS
  <2>4. PICK m \in firing : \A n \in firing : m <= n
    <3>1. firing \subseteq 0 .. Len(rules) /\ firing # {}
      BY <2>2, <2>3
    <3> HIDE DEF firing
    <3>2. QED
      BY <2>3, <3>1, Least
  <2>5. m \in first
    <3>1. ASSUME NEW j \in 1 .. (m - 1) PROVE ~Fires(rules[j])
      <4>1. j \in DOMAIN rules /\ ~(m <= j)
        BY <2>3
      <4>2. QED
        BY <2>4, <4>1
    <3>2. QED
      BY <3>1
  <2>6. rules[m].recommendation # {}
    BY <1>10
  <2>7. ~(severity \subseteq {"muted"})
    <3>1. PICK w \in left : w.rule_id = r
      BY <1>1
    <3>2. Own(r) = {w.severity} /\ w.severity # "muted"
      BY <1>1, <2>1, <3>1
    <3>3. w.severity \in loud /\ ids # {}
      <4>1. w.severity \in Own(r) /\ r \in ids
        BY <3>2
      <4>2. QED
        BY <3>2, <4>1
    <3> HIDE DEF loud, severity
    <3>4. Worst(loud) \in loud
      BY <1>7, <3>3, WorstIn
    <3>5. severity = {Worst(loud)}
      BY <1>6, <3>3
    <3>6. Worst(loud) # "muted"
      BY <3>4 DEF loud
    <3>7. QED
      BY <3>5, <3>6
  <2> HIDE DEF first, severity, judged
  <2>8. judged.recommendation = UNION {rules[k].recommendation : k \in first}
    BY <1>3, <2>7
  <2>9. QED
    BY <2>5, <2>6, <2>8
<1>13. judged.severity = severity
  BY <1>2
<1>14. QED
  <2> HIDE DEF judged, severity
  <2>1. OwnLoud(ids, v, number, waivers) = loud
    BY DEF OwnLoud, Own
  <2>2. OwnAdvice(ids, v, number, waivers) = UNION {Registry[r].recommendation : r \in heard}
    BY DEF OwnAdvice, Own
  <2> HIDE DEF loud, heard
  <2>3. Sound(judged, ids, v, number, waivers)
    BY <1>6, <1>11, <1>12, <1>13, <2>1, <2>2 DEF Sound
  <2>4. QED
    BY <2>3 DEF judged

(* The same of the rules that target an item of a section.                 *)
LEMMA ItemIsJudged ==
    ASSUME RegistryIsValid, WaiversAreKeyed, overrides \in Waivers, NEW p, NEW s, NEW target,
           NEW rules, rules \in Seq(Range(rules)),
           Targeting(s, target) \subseteq DOMAIN Registry,
           Range(rules) = BoundTo(Targeting(s, target), target), NEW v
    PROVE  JudgedByItsRules(p, s,
             [value |-> v, judged |-> judge(v, NumberOf(v), rules, load_section_overrides(overrides, p, s))],
             Targeting(s, target))
<1> DEFINE waivers == load_section_overrides(overrides, p, s)
           ids == Targeting(s, target)
           number == NumberOf(v)
           judged == judge(v, number, rules, waivers)
           item == [value |-> v, judged |-> judged]
           Own(r) == OwnSay(r, v, number, waivers)
           loud == OwnLoud(ids, v, number, waivers)
           advice == OwnAdvice(ids, v, number, waivers)
<1>1. Keyed(waivers)
  BY LoadedAreKeyed
<1>2. \A r : Own(r) = Says(p, s, r, v)
  BY LoadedAreWaived DEF OwnSay, Says
<1>3. /\ judged.severity = IF ids = {} THEN {} ELSE IF loud = {} THEN {"muted"} ELSE {Worst(loud)}
      /\ judged.recommendation \subseteq advice
      /\ advice # {} => judged.recommendation # {}
  <2>1. ids \in SUBSET DOMAIN Registry
    OBVIOUS
  <2> HIDE DEF waivers, ids, number, judged
  <2>2. Sound(judge(v, number, rules, waivers), ids, v, number, waivers)
    BY <1>1, <2>1, TargetIsJudged DEF ids
  <2>3. QED
    BY <2>2 DEF Sound, judged
<1> HIDE DEF judged, ids
<1>4. Loud(p, s, ids, v) = loud /\ Advice(p, s, ids, v) = advice
  BY <1>2 DEF Loud, Advice, OwnLoud, OwnAdvice
<1>5. item.value = v /\ item.judged = judged
  OBVIOUS
<1> HIDE DEF loud, advice, item
<1>6. JudgedByItsRules(p, s, item, ids)
  BY <1>3, <1>4, <1>5 DEF JudgedByItsRules
<1>7. QED
  BY <1>6 DEF item, judged, ids

(* A metric section that was built has the items its rules judge.          *)
LEMMA MetricIsJudged ==
    ASSUME RegistryIsValid, EntriesAreValid, WaiversAreKeyed, overrides \in Waivers, NEW j, Whole(j),
           NEW s \in DOMAIN j.sections, s \in DOMAIN Recipe,
           Recipe[s].output_as = "metric", NEW b \in build_section(j, s), NEW id \in DOMAIN b.items
    PROVE  JudgedByItsRules(j.project, s, b.items[id], Targeting(s, id))
<1> DEFINE spec == Recipe[s]
           values == metric_values(spec, j.sections[s])
           targets == DOMAIN values
           ValueOf(t) == CHOOSE x \in values[t] : TRUE
           waivers == load_section_overrides(overrides, j.project, s)
           Built(rules) ==
             [type |-> "metric", face |-> spec.face, severity |-> {},
              items |-> [t \in targets |->
                [value |-> ValueOf(t), judged |-> judge(ValueOf(t), NumberOf(ValueOf(t)), rules[t], waivers)]]]
<1>1. j.spec = Recipe /\ j.registry = Registry /\ j.overrides = overrides
  BY DEF Whole
<1>2. b \in build_metric_section(spec, j.sections[s], Registry, waivers)
  BY <1>1 DEF build_section
<1>3. PICK rules \in template_rules(spec.rules, Registry, targets) : b = Built(rules)
  <2> HIDE DEF waivers, spec
  <2>1. QED
    BY <1>2 DEF build_metric_section
<1>4. /\ spec.rules \in Seq(Range(spec.rules))
      /\ \A e \in Range(spec.rules) : "ref" \in DOMAIN e
  BY DEF EntriesAreValid
<1> HIDE DEF values, waivers, spec
<1>5. /\ \A t \in targets :
           rules[t] \in Seq(RulesFor(spec.rules, t)) /\ Range(rules[t]) = RulesFor(spec.rules, t)
      /\ \A e \in Range(spec.rules) : "ref" \in DOMAIN e => e.ref \in DOMAIN Registry
  BY <1>4, TemplateRulesAre
<1>6. id \in targets /\ b.items[id] =
        [value |-> ValueOf(id), judged |-> judge(ValueOf(id), NumberOf(ValueOf(id)), rules[id], waivers)]
  BY <1>3
<1>7. RulesFor(spec.rules, id) = BoundTo(Targeting(s, id), id)
  <2>1. EntriesFor(spec.rules, id) = {e \in Range(spec.rules) : e.target = id}
    BY DEF EntriesFor
  <2>2. \A e \in EntriesFor(spec.rules, id) : RuleOf(e) = Bound(Registry[e.ref], id)
    BY <1>4 DEF EntriesFor, RuleOf
  <2>3. Targeting(s, id) = {e.ref : e \in EntriesFor(spec.rules, id)}
    BY <2>1 DEF Targeting, spec
  <2>4. QED
    BY <2>2, <2>3 DEF RulesFor, BoundTo
<1>8. Targeting(s, id) \subseteq DOMAIN Registry
  BY <1>4, <1>5 DEF Targeting, spec
<1>9. JudgedByItsRules(j.project, s,
        [value |-> ValueOf(id), judged |-> judge(ValueOf(id), NumberOf(ValueOf(id)), rules[id], waivers)],
        Targeting(s, id))
  <2> DEFINE v == ValueOf(id)
             mine == rules[id]
  <2>1. Range(mine) = BoundTo(Targeting(s, id), id) /\ mine \in Seq(Range(mine))
    BY <1>5, <1>6, <1>7
  <2> HIDE DEF v, mine
  <2>2. JudgedByItsRules(j.project, s, [value |-> v, judged |-> judge(v, NumberOf(v), mine, waivers)],
                         Targeting(s, id))
    BY <1>8, <2>1, ItemIsJudged DEF waivers
  <2>3. QED
    BY <2>2 DEF v, mine
<1>10. QED
  BY <1>6, <1>9

-----------------------------------------------------------------------------
(* Where nothing is consumed an artifact has the sections that were built. *)
LEMMA StoredIsBuilt ==
    ASSUME NoneConsumed, NEW d, NEW j, Whole(j), NEW a \in result_to_artifact(j, d)
    PROVE  /\ a = assemble_artifact(j, a.sections, Judged(j, d), d)
           /\ DOMAIN a.sections = DOMAIN j.sections /\ DOMAIN j.sections \subseteq DOMAIN Recipe
           /\ \A s \in DOMAIN a.sections :
                a.sections[s] \in build_section(j, s) /\ AsDeclared(a.sections[s], Recipe[s])
<1>1. PICK built : /\ DOMAIN built = DOMAIN j.sections
                   /\ \A s \in DOMAIN built : built[s] \in build_section(j, s)
                   /\ a = assemble_artifact(j, built, Judged(j, d), d)
  BY ArtifactParts
<1>2. DOMAIN j.sections \subseteq DOMAIN Recipe
  <2>1. /\ Reached(j) \in 0 .. Len(Order)
        /\ DOMAIN j.sections \subseteq {Order[i] : i \in 1 .. Reached(j)}
    BY DEF Whole
  <2>2. DOMAIN Order = 1 .. Len(Order) /\ Len(Order) \in Nat
    BY EvidenceAssumption
  <2>3. \A i \in 1 .. Reached(j) : i \in DOMAIN Order
    BY <2>1, <2>2
  <2>4. QED
    BY <2>1, <2>3, EvidenceAssumption
<1>3. a.sections = built
  <2>1. a.sections = enrich_commcell_info(built, j.commcell_name)
    BY <1>1, ArtifactSections
  <2>2. "_commcell_observed" \notin DOMAIN built
    BY <1>1, <1>2 DEF NoneConsumed
  <2>3. QED
    BY <2>1, <2>2 DEF enrich_commcell_info
<1>4. j.spec = Recipe
  BY DEF Whole
<1>5. \A s \in DOMAIN a.sections : AsDeclared(a.sections[s], Recipe[s])
  BY <1>1, <1>3, <1>4, BuiltAsDeclared
<1>6. QED
  BY <1>1, <1>2, <1>3, <1>5

LEMMA CollectedIsWaived ==
    ASSUME NoneConsumed, RegistryIsValid, EntriesAreValid, WaiversAreKeyed, overrides \in Waivers,
           NEW d, NEW j, Whole(j), NEW a \in result_to_artifact(j, d)
    PROVE  WaiversHeld(j.project, a)
<1> SUFFICES ASSUME NEW s \in DOMAIN a.sections, a.sections[s].type = "metric",
                    NEW id \in DOMAIN a.sections[s].items
             PROVE  JudgedByItsRules(j.project, s, a.sections[s].items[id], Targeting(s, id))
  BY DEF WaiversHeld
<1>1. /\ s \in DOMAIN j.sections /\ s \in DOMAIN Recipe /\ a.sections[s] \in build_section(j, s)
      /\ AsDeclared(a.sections[s], Recipe[s])
  BY StoredIsBuilt
<1>2. Recipe[s].output_as = "metric"
  BY <1>1 DEF AsDeclared, Kind
<1>3. QED
  BY <1>1, <1>2, MetricIsJudged

(* In a catalog of valid rules, with at most one override of a rule for    *)
(* each section and project, an item's severity is the worst of what its   *)
(* rules say once each waived rule says what its override says; a silenced *)
(* rule neither shows nor recommends, and silences no other                *)
(* (engine.evaluate, surface_recommendation, load_section_overrides).      *)
THEOREM WaiversSilenceTheirRules ==
    NoneConsumed /\ RegistryIsValid /\ EntriesAreValid /\ WaiversAreKeyed
      => (Spec => []WaiversSilenceTheirRule)
<1> SUFFICES ASSUME NoneConsumed /\ RegistryIsValid /\ EntriesAreValid /\ WaiversAreKeyed
             PROVE  Spec => []WaiversSilenceTheirRule
  OBVIOUS
<1>1. EvidenceIInv /\ StoreIsCollected => WaiversSilenceTheirRule
  <2> SUFFICES ASSUME EvidenceIInv, StoreIsCollected, NEW pa \in Stored PROVE WaiversHeld(pa[1], pa[2])
    BY DEF WaiversSilenceTheirRule
  <2>1. pa[1] \in Projects /\ pa[2] \in store[pa[1]]
    BY DEF Stored
  <2>2. PICK j, d : Whole(j) /\ j.project = pa[1] /\ pa[2] \in result_to_artifact(j, d)
    BY <2>1 DEF StoreIsCollected, CollectedIn
  <2>3. overrides \in Waivers
    BY DEF EvidenceIInv
  <2>4. QED
    BY <2>2, <2>3, CollectedIsWaived
<1>2. QED
  BY <1>1, EvidenceInvariant, StoredIsCollected, PTL

-----------------------------------------------------------------------------
(* Severities of what was built. *)

LEMMA JudgeIsTyped ==
    ASSUME NEW rules, rules \in Seq(Range(rules)), \A i \in DOMAIN rules : RuleIsValid(rules[i]),
           NEW waivers, Keyed(waivers), NEW v, NEW number
    PROVE  judge(v, number, rules, waivers).severity \subseteq Severities
<1> DEFINE T == Verdicts(v, number, rules)
           V == {build_override_verdict(o) : o \in Naming(waivers, rules)}
           E == SetToSeq(V)
           chain == ChainOf(v, number, rules, waivers)
           loud == {w.severity : w \in surviving(chain)} \ {"muted"}
<1>1. \A i \in DOMAIN T : T[i].severity \in Severities
  BY ValidRuleJudges DEF Verdicts
<1>2. \A x \in V : x.severity \in Severities
  BY DEF Keyed, Naming, build_override_verdict, Verdict
<1>3. E \in Seq(V)
  BY OverrideVerdicts
<1>4. T \in Seq(Range(T)) /\ DOMAIN T = 1 .. Len(T) /\ Len(T) \in Nat
  <2>1. DOMAIN rules = 1 .. Len(rules) /\ Len(rules) \in Nat
    OBVIOUS
  <2>2. T = [i \in 1 .. Len(rules) |-> T[i]]
    BY <2>1 DEF Verdicts
  <2>3. \A i \in 1 .. Len(rules) : T[i] \in Range(T)
    BY <2>2 DEF Range
  <2> HIDE DEF T
  <2>4. QED
    BY <2>1, <2>2, <2>3
<1>5. chain = T \o E
  BY DEF ChainOf
<1> HIDE DEF T, V, E, chain
<1>6. \A i \in DOMAIN chain : chain[i].severity \in Severities
  <2>1. DOMAIN E = 1 .. Len(E) /\ Len(E) \in Nat /\ \A i \in DOMAIN E : E[i] \in V
    BY <1>3
  <2>2. DOMAIN chain = 1 .. (Len(T) + Len(E))
    BY <1>3, <1>4, <1>5
  <2>3. ASSUME NEW i \in DOMAIN chain PROVE chain[i].severity \in Severities
    <3>1. CASE i \in 1 .. Len(T)
      <4>1. chain[i] = T[i]
        BY <1>3, <1>4, <1>5, <3>1
      <4>2. QED
        BY <1>1, <1>4, <3>1, <4>1
    <3>2. CASE i - Len(T) \in 1 .. Len(E)
      <4>1. chain[i] = E[i - Len(T)]
        BY <1>3, <1>4, <1>5, <2>1, <2>2, <3>2
      <4>2. QED
        BY <1>2, <2>1, <3>2, <4>1
    <3>3. QED
      BY <1>4, <2>1, <2>2, <3>1, <3>2
  <2>4. QED
    BY <2>3
<1>7. loud \subseteq Severities
  BY <1>6 DEF surviving
<1> HIDE DEF loud
<1>8. resolve_headline(chain) = IF loud = {} THEN "muted" ELSE Worst(loud)
  BY DEF resolve_headline, loud
<1>9. resolve_headline(chain) \in Severities
  <2>1. loud # {} => Worst(loud) \in Severities
    BY <1>7, WorstIn
  <2>2. "muted" \in Severities
    BY DEF Severities
  <2>3. QED
    BY <1>8, <2>1, <2>2
<1>10. judge(v, number, rules, waivers).severity = IF chain = <<>> THEN {} ELSE {resolve_headline(chain)}
  <2>1. judge(v, number, rules, waivers) =
          [severity |-> IF chain = <<>> THEN {} ELSE {resolve_headline(chain)}, chain |-> chain,
           recommendation |-> surface_recommendation(rules,
             [severity |-> IF chain = <<>> THEN {} ELSE {resolve_headline(chain)}, chain |-> chain])]
    BY JudgeIs DEF chain
  <2>2. QED
    BY <2>1
<1>11. QED
  BY <1>9, <1>10

-----------------------------------------------------------------------------
LEMMA EntriesGiveValidRules ==
    ASSUME RegistryIsValid, NEW entries, entries \in Seq(Range(entries)),
           \A e \in Range(entries) : "ref" \in DOMAIN e \/ RuleIsValid(e),
           NEW targets, NEW rules \in template_rules(entries, Registry, targets), NEW t \in targets
    PROVE  /\ t \in DOMAIN rules /\ rules[t] \in Seq(Range(rules[t]))
           /\ \A i \in DOMAIN rules[t] : RuleIsValid(rules[t][i])
<1>1. /\ DOMAIN rules = targets
      /\ rules[t] \in Seq(RulesFor(entries, t)) /\ Range(rules[t]) = RulesFor(entries, t)
      /\ \A e \in Range(entries) : "ref" \in DOMAIN e => e.ref \in DOMAIN Registry
  BY TemplateRulesAre
<1>2. ASSUME NEW e \in Range(entries) PROVE RuleIsValid(RuleOf(e))
  <2>1. CASE "ref" \in DOMAIN e
    <3>1. RuleIsValid(Registry[e.ref])
      BY <1>1, <2>1 DEF RegistryIsValid
    <3>2. RuleIsValid(Bound(Registry[e.ref], e.target))
      BY <3>1, BoundKeeps
    <3>3. QED
      BY <2>1, <3>2 DEF RuleOf
  <2>2. CASE "ref" \notin DOMAIN e
    BY <2>2 DEF RuleOf
  <2>3. QED
    BY <2>1, <2>2
<1>3. \A r \in RulesFor(entries, t) : RuleIsValid(r)
  BY <1>2 DEF RulesFor, EntriesFor
<1>4. \A i \in DOMAIN rules[t] : rules[t][i] \in RulesFor(entries, t)
  BY <1>1
<1>5. QED
  BY <1>1, <1>3, <1>4

(* Metrics and cards are judged with severities of the scale.              *)
LEMMA MetricIsTyped ==
    ASSUME RegistryIsValid, NEW spec, spec.rules \in Seq(Range(spec.rules)),
           \A e \in Range(spec.rules) : "ref" \in DOMAIN e,
           NEW waivers, Keyed(waivers), NEW rows,
           NEW b \in build_metric_section(spec, rows, Registry, waivers), NEW id \in DOMAIN b.items
    PROVE  b.items[id].judged.severity \subseteq Severities
<1> DEFINE values == metric_values(spec, rows)
           targets == DOMAIN values
           ValueOf(t) == CHOOSE x \in values[t] : TRUE
           Built(rules) ==
             [type |-> "metric", face |-> spec.face, severity |-> {},
              items |-> [t \in targets |->
                [value |-> ValueOf(t), judged |-> judge(ValueOf(t), NumberOf(ValueOf(t)), rules[t], waivers)]]]
<1>1. PICK rules \in template_rules(spec.rules, Registry, targets) : b = Built(rules)
  BY DEF build_metric_section
<1>2. id \in targets /\ b.items[id] =
        [value |-> ValueOf(id), judged |-> judge(ValueOf(id), NumberOf(ValueOf(id)), rules[id], waivers)]
  BY <1>1
<1> DEFINE v == ValueOf(id)
           mine == rules[id]
<1>3. mine \in Seq(Range(mine)) /\ \A i \in DOMAIN mine : RuleIsValid(mine[i])
  <2> HIDE DEF values
  <2>1. QED
    BY <1>2, EntriesGiveValidRules
<1>4. b.items[id].judged = judge(v, NumberOf(v), mine, waivers)
  BY <1>2
<1> HIDE DEF v, mine
<1>5. QED
  BY <1>3, <1>4, JudgeIsTyped

LEMMA FieldsAreTyped ==
    ASSUME NEW values, NEW waivers, Keyed(waivers), NEW rules,
           \A f \in DOMAIN values : /\ rules[f] \in Seq(Range(rules[f]))
                                    /\ \A i \in DOMAIN rules[f] : RuleIsValid(rules[f][i])
    PROVE  JudgedCard(apply_per_field_rules(values, rules, waivers)).severity \subseteq Severities
<1> DEFINE Seen(f) ==
             IF ~(\E i \in DOMAIN rules[f] : rules[f][i].kind = "threshold") THEN values[f]
             ELSE IF coerce_number(values[f]) = {} THEN None
             ELSE Number(CHOOSE n \in coerce_number(values[f]) : TRUE)
           items == apply_per_field_rules(values, rules, waivers)
           sevs == UNION {items[f].judged.severity : f \in DOMAIN items}
<1>1. items = [f \in DOMAIN values |->
                 [value |-> values[f], judged |-> judge(Seen(f), NumberOf(Seen(f)), rules[f], waivers)]]
  BY DEF apply_per_field_rules
<1> HIDE DEF Seen, items
<1>2. ASSUME NEW f \in DOMAIN values PROVE items[f].judged.severity \subseteq Severities
  <2> DEFINE v == Seen(f)
             mine == rules[f]
  <2>1. items[f].judged = judge(v, NumberOf(v), mine, waivers)
    BY <1>1
  <2>2. mine \in Seq(Range(mine)) /\ \A i \in DOMAIN mine : RuleIsValid(mine[i])
    OBVIOUS
  <2> HIDE DEF v, mine
  <2>3. QED
    BY <2>1, <2>2, JudgeIsTyped
<1>3. DOMAIN items = DOMAIN values
  BY <1>1
<1>4. sevs \subseteq Severities
  BY <1>2, <1>3
<1>5. JudgedCard(items).severity = IF sevs \ {"muted"} # {} THEN {Worst(sevs \ {"muted"})} ELSE sevs
  BY DEF JudgedCard, rollup_section_severity
<1>6. sevs \ {"muted"} # {} => Worst(sevs \ {"muted"}) \in Severities
  <2> DEFINE loud == sevs \ {"muted"}
  <2>1. loud \subseteq Severities
    BY <1>4
  <2> HIDE DEF loud
  <2>2. loud # {} => Worst(loud) \in Severities
    BY <2>1, WorstIn
  <2>3. QED
    BY <2>2 DEF loud
<1> HIDE DEF sevs
<1>7. QED
  BY <1>4, <1>5, <1>6 DEF items

LEMMA OneRuleIsTyped ==
    ASSUME RegistryIsValid, NEW spec, "ref" \in DOMAIN spec.rule \/ RuleIsValid(spec.rule),
           NEW rows, NEW waivers, Keyed(waivers),
           NEW sev \in section_rule_severity(spec, rows, Registry, waivers)
    PROVE  sev \subseteq Severities
<1> DEFINE e == spec.rule
           Num(r) == coerce_number(IF rows = <<>> THEN None ELSE Cell(rows[1], r.target))
           Seen(r) == IF Num(r) = {} THEN None ELSE Number(CHOOSE n \in Num(r) : TRUE)
<1>1. PICK r \in resolve_rule(e, Registry) : sev = judge(Seen(r), Num(r), <<r>>, waivers).severity
  BY DEF section_rule_severity
<1> HIDE DEF Num, Seen
<1>2. RuleIsValid(r)
  <2>1. CASE "ref" \in DOMAIN e
    <3>1. e.ref \in DOMAIN Registry /\ r = Bound(Registry[e.ref], e.target)
      BY <2>1 DEF resolve_rule, Bound
    <3>2. RuleIsValid(Registry[e.ref])
      BY <3>1 DEF RegistryIsValid
    <3>3. QED
      BY <3>1, <3>2, BoundKeeps
  <2>2. CASE "ref" \notin DOMAIN e
    BY <2>2 DEF resolve_rule
  <2>3. QED
    BY <2>1, <2>2
<1> DEFINE mine == <<r>>
<1>3. mine \in Seq(Range(mine)) /\ \A i \in DOMAIN mine : RuleIsValid(mine[i])
  <2>1. mine \in Seq({r}) /\ \A i \in DOMAIN mine : mine[i] = r
    OBVIOUS
  <2>2. Range(mine) = {r}
    <3>1. 1 \in DOMAIN mine /\ mine[1] = r
      OBVIOUS
    <3>2. QED
      BY <2>1, <3>1 DEF Range
  <2> HIDE DEF mine
  <2>3. QED
    BY <1>2, <2>1, <2>2
<1> HIDE DEF mine
<1>4. judge(Seen(r), Num(r), mine, waivers).severity \subseteq Severities
  BY <1>3, JudgeIsTyped
<1>5. QED
  BY <1>1, <1>4 DEF mine

LEMMA CardIsTyped ==
    ASSUME RegistryIsValid, NEW spec, spec.rules \in Seq(Range(spec.rules)),
           \A e \in Range(spec.rules) : "ref" \in DOMAIN e \/ RuleIsValid(e),
           "rule" \in DOMAIN spec => "ref" \in DOMAIN spec.rule \/ RuleIsValid(spec.rule),
           NEW waivers, Keyed(waivers), NEW rows,
           NEW b \in build_card_section(spec, rows, Registry, waivers)
    PROVE  b.severity \subseteq Severities
<1> DEFINE values == card_values(spec, rows)
           Plain == [f \in DOMAIN values |-> [value |-> values[f], judged |-> Unjudged]]
           PlainCard(sev) == [type |-> "card", items |-> Plain, severity |-> sev]
<1>1. b \in IF spec.rules # <<>>
            THEN {JudgedCard(apply_per_field_rules(values, rules, waivers)) :
                    rules \in template_rules(spec.rules, Registry, DOMAIN values)}
            ELSE IF "rule" \in DOMAIN spec
            THEN {PlainCard(sev) : sev \in section_rule_severity(spec, rows, Registry, waivers)}
            ELSE {PlainCard({})}
  BY DEF build_card_section
<1> HIDE DEF values, Plain
<1>2. CASE spec.rules # <<>>
  <2>1. PICK rules \in template_rules(spec.rules, Registry, DOMAIN values) :
          b = JudgedCard(apply_per_field_rules(values, rules, waivers))
    BY <1>1, <1>2
  <2>2. \A f \in DOMAIN values : /\ rules[f] \in Seq(Range(rules[f]))
                                 /\ \A i \in DOMAIN rules[f] : RuleIsValid(rules[f][i])
    BY EntriesGiveValidRules
  <2>3. QED
    BY <2>1, <2>2, FieldsAreTyped
<1>3. CASE spec.rules = <<>> /\ "rule" \in DOMAIN spec
  <2>1. PICK sev \in section_rule_severity(spec, rows, Registry, waivers) : b = PlainCard(sev)
    BY <1>1, <1>3
  <2>2. sev \subseteq Severities
    BY <1>3, OneRuleIsTyped
  <2>3. QED
    BY <2>1, <2>2
<1>4. CASE spec.rules = <<>> /\ "rule" \notin DOMAIN spec
  <2>1. b = PlainCard({})
    BY <1>1, <1>4
  <2>2. QED
    BY <2>1
<1>5. QED
  BY <1>2, <1>3, <1>4

(* What a metric or card section is judged at. *)
Headline(section) ==
  IF section.type = "metric" THEN worst_metric_severity(section) ELSE section.severity \ {"muted"}

LEMMA HeadlineIsTyped ==
    ASSUME RegistryIsValid, EntriesAreValid, WaiversAreKeyed, overrides \in Waivers, NEW j, Whole(j),
           NEW s \in DOMAIN j.sections, s \in DOMAIN Recipe,
           NEW b \in build_section(j, s), b.type \in {"metric", "card"}
    PROVE  /\ b.type = "card" => b.severity \subseteq Severities
           /\ Headline(b) \subseteq Severities
<1> DEFINE waivers == load_section_overrides(overrides, j.project, s)
<1>1. j.spec = Recipe /\ j.registry = Registry /\ j.overrides = overrides
  BY DEF Whole
<1>2. AsDeclared(b, Recipe[s])
  BY <1>1, BuiltAsDeclared
<1>3. Keyed(waivers)
  BY LoadedAreKeyed
<1>4. CASE b.type = "metric"
  <2>1. Recipe[s].output_as = "metric"
    BY <1>2, <1>4 DEF AsDeclared, Kind
  <2>2. b \in build_metric_section(Recipe[s], j.sections[s], Registry, waivers)
    BY <1>1, <2>1 DEF build_section
  <2>3. /\ Recipe[s].rules \in Seq(Range(Recipe[s].rules))
        /\ \A e \in Range(Recipe[s].rules) : "ref" \in DOMAIN e
    BY <2>1 DEF EntriesAreValid
  <2> HIDE DEF waivers
  <2>4. \A id \in DOMAIN b.items : b.items[id].judged.severity \subseteq Severities
    BY <1>3, <2>2, <2>3, MetricIsTyped
  <2> DEFINE sevs == (UNION {b.items[id].judged.severity : id \in DOMAIN b.items}) \ {"muted"}
  <2>5. sevs \subseteq Severities
    BY <2>4
  <2>6. Headline(b) = IF sevs = {} THEN {} ELSE {Worst(sevs)}
    BY <1>4 DEF Headline, worst_metric_severity
  <2> HIDE DEF sevs
  <2>7. sevs # {} => Worst(sevs) \in Severities
    BY <2>5, WorstIn
  <2>8. QED
    BY <1>4, <2>6, <2>7
<1>5. CASE b.type = "card"
  <2>1. Recipe[s].output_as = "card"
    BY <1>2, <1>5 DEF AsDeclared, Kind
  <2>2. b \in build_card_section(Recipe[s], j.sections[s], Registry, waivers)
    BY <1>1, <2>1 DEF build_section
  <2>3. /\ Recipe[s].rules \in Seq(Range(Recipe[s].rules))
        /\ \A e \in Range(Recipe[s].rules) : "ref" \in DOMAIN e \/ RuleIsValid(e)
        /\ "rule" \in DOMAIN Recipe[s] => "ref" \in DOMAIN Recipe[s].rule \/ RuleIsValid(Recipe[s].rule)
    BY <2>1 DEF EntriesAreValid
  <2> HIDE DEF waivers
  <2>4. b.severity \subseteq Severities
    BY <1>3, <2>2, <2>3, CardIsTyped
  <2>5. QED
    BY <1>5, <2>4 DEF Headline
<1>6. QED
  BY <1>4, <1>5

-----------------------------------------------------------------------------
Red == {"critical", "warning"}

LEMMA StatusIsRed ==
    ASSUME NEW sevs
    PROVE  overall_status(sevs) \in Red <=> sevs \cap Red # {}
  BY DEF overall_status, Red

LEMMA PillIsRed ==
    ASSUME NEW sevs, sevs \subseteq Severities
    PROVE  PillOf(sevs) \cap Alarm # {} <=> sevs \cap Red # {}
<1>1. \A s \in Severities : SeverityCode[s] \in Alarm <=> s \in Red
  BY DEF SeverityCode, Severities, Alarm, Red
<1>2. PillOf(sevs) = {SeverityCode[s] : s \in sevs}
  BY DEF PillOf
<1>3. QED
  BY <1>1, <1>2

(* The pill of a list of findings is red when one of them is.              *)
LEMMA FindingsPill ==
    ASSUME NEW findings, \A f \in findings : f.severity \in Severities
    PROVE  worst_finding_sev(findings) \cap Alarm # {} <=> \E f \in findings : f.severity \in Red
<1> DEFINE sevs == {f.severity : f \in findings}
<1>1. sevs \subseteq Severities /\ worst_finding_sev(findings) = IF sevs = {} THEN {} ELSE PillOf({Worst(sevs)})
  BY DEF worst_finding_sev
<1>2. sevs \cap Red # {} <=> \E f \in findings : f.severity \in Red
  OBVIOUS
<1> HIDE DEF sevs
<1>3. CASE sevs = {}
  BY <1>1, <1>2, <1>3
<1>4. CASE sevs # {}
  <2>1. Worst(sevs) \in sevs /\ \A t \in sevs : SeverityRank[t] <= SeverityRank[Worst(sevs)]
    BY <1>1, <1>4, WorstIn
  <2>2. \A s, t \in Severities : t \in Red /\ SeverityRank[t] <= SeverityRank[s] => s \in Red
    BY DEF SeverityRank, Severities, Red
  <2>3. sevs \cap Red # {} <=> Worst(sevs) \in Red
    BY <1>1, <2>1, <2>2
  <2>4. PillOf({Worst(sevs)}) \cap Alarm # {} <=> {Worst(sevs)} \cap Red # {}
    BY <1>1, <2>1, PillIsRed
  <2>5. QED
    BY <1>1, <1>2, <1>4, <2>3, <2>4
<1>5. QED
  BY <1>3, <1>4

(* A row is red by a finding. *)
LEMMA RedRowIsFound ==
    ASSUME RowRulesAreValid, NEW d, NEW rules, Range(rules) \subseteq {RowRules[r] : r \in RuleIds},
           NEW rows, NEW conds, NEW i \in DOMAIN rows,
           evaluate_section_rows(rules, rows, conds, d).per_row[i].verdict \in Red
    PROVE  \E f \in evaluate_section_rows(rules, rows, conds, d).findings : f.severity \in Red
<1> DEFINE findings == Found(rules, rows, conds, d)
           ref == [k \in DOMAIN rows |-> row_ref(rows[k], k)]
           within == [k \in DOMAIN rows |-> matches_conditions(conds, rows[k], d)]
           Blank(x) == \E k \in DOMAIN rows, r \in DOMAIN rules :
                         within[k] /\ ref[k] = x /\ rule_row_state(rules[r].conditions, rows[k], d) = "unevaluable"
           sevs == Carried(findings, ref[i])
<1>1. /\ evaluate_section_rows(rules, rows, conds, d).findings = findings
      /\ evaluate_section_rows(rules, rows, conds, d).per_row[i].verdict = RowVerdict(within[i], sevs, Blank(ref[i]))
  <2> HIDE DEF ref, within
  <2>1. evaluate_section_rows(rules, rows, conds, d) = JudgeRows(rules, rows, ref, within, findings, d)
    BY DEF evaluate_section_rows, ref, within, Found
  <2> HIDE DEF findings
  <2>2. JudgeRows(rules, rows, ref, within, findings, d) = [findings |-> findings, per_row |->
          [k \in DOMAIN rows |-> [row_ref |-> ref[k], in_scope |-> within[k],
                                  verdict |-> RowVerdict(within[k], Carried(findings, ref[k]), Blank(ref[k]))]]]
    BY DEF JudgeRows, Carried
  <2> HIDE DEF Blank
  <2>3. QED
    BY <2>1, <2>2
<1>2. \A f \in findings : f.severity \in Severities
  <2> SUFFICES ASSUME NEW f \in findings PROVE f.severity \in Severities
    OBVIOUS
  <2> DEFINE scoped == AtPlaces(rows, {k \in DOMAIN rows : matches_conditions(conds, rows[k], d)})
  <2>1. PICK r \in DOMAIN rules : f \in evaluate_row_rule(rules[r], scoped, d)
    BY DEF Found
  <2>2. rules[r].emit \in {"count", "per_row"} /\ rules[r].severity \in Severities
    <3>1. rules[r] \in Range(rules)
      BY DEF Range
    <3>2. QED
      BY <3>1 DEF RowRulesAreValid
  <2> HIDE DEF scoped
  <2>3. f.severity = rules[r].severity
    <3>1. CASE rules[r].emit = "count"
      BY <2>1, <3>1 DEF evaluate_row_rule, Finding
    <3>2. CASE rules[r].emit = "per_row"
      BY <2>1, <3>2 DEF evaluate_row_rule, Finding
    <3>3. QED
      BY <2>2, <3>1, <3>2
  <2>4. QED
    BY <2>2, <2>3
<1> HIDE DEF findings, Blank, ref, within
<1>3. sevs \subseteq Severities
  BY <1>2 DEF Carried
<1>4. sevs # {} /\ Worst(sevs) \in Red
  <2> HIDE DEF sevs
  <2>1. RowVerdict(within[i], sevs, Blank(ref[i])) \in Red
    BY <1>1
  <2>2. QED
    BY <2>1 DEF RowVerdict, Red
<1>5. Worst(sevs) \in sevs
  <2> HIDE DEF sevs
  <2>1. QED
    BY <1>3, <1>4, WorstIn
<1>6. \E f \in findings : f.severity = Worst(sevs)
  BY <1>5 DEF Carried
<1>7. QED
  BY <1>1, <1>4, <1>6

(* What an artifact found, and whether it may be judged by it.             *)
Findings(a) ==
  a.compliance \cup UNION {IF a.sections[s].type = "findings" THEN Range(a.sections[s].items) ELSE {} :
                             s \in DOMAIN a.sections}
FoundAny(a) == a.compliance # {} \/ \E s \in DOMAIN a.sections : a.sections[s].type = "findings"

LEMMA FindingsAreTyped ==
    ASSUME NoneConsumed, NEW d, NEW j, Whole(j), NEW a \in result_to_artifact(j, d)
    PROVE  \A f \in Findings(a) : f.severity \in Severities
<1> SUFFICES ASSUME NEW f \in Findings(a) PROVE f.severity \in Severities
  OBVIOUS
<1>1. \A x : FindingSeverity(x) \in Severities
  BY DEF FindingSeverity, Severities
<1>2. CASE f \in a.compliance
  <2>1. a.compliance = UNION {{build_compliance_finding(s, g) : g \in Judged(j, d)[s].findings} : s \in DOMAIN Judged(j, d)}
    BY StoredIsBuilt, ArtifactFindings
  <2>2. PICK s \in DOMAIN Judged(j, d) : \E g \in Judged(j, d)[s].findings : f = build_compliance_finding(s, g)
    BY <1>2, <2>1
  <2>3. PICK g \in Judged(j, d)[s].findings : f = build_compliance_finding(s, g)
    BY <2>2
  <2>4. QED
    BY <1>1, <2>3 DEF build_compliance_finding
<1>3. CASE f \notin a.compliance
  <2>1. PICK s \in DOMAIN a.sections : a.sections[s].type = "findings" /\ f \in Range(a.sections[s].items)
    BY <1>3 DEF Findings
  <2>2. /\ s \in DOMAIN j.sections /\ a.sections[s] \in build_section(j, s)
        /\ AsDeclared(a.sections[s], Recipe[s])
    BY StoredIsBuilt
  <2>3. j.spec = Recipe /\ Recipe[s].output_as = "findings"
    BY <2>1, <2>2 DEF Whole, AsDeclared, Kind
  <2>4. a.sections[s].items = [i \in DOMAIN j.sections[s] |-> build_finding(s, j.sections[s][i])]
    BY <2>2, <2>3 DEF build_section
  <2>5. PICK i \in DOMAIN j.sections[s] : f = build_finding(s, j.sections[s][i])
    BY <2>1, <2>4 DEF Range
  <2>6. QED
    BY <1>1, <2>5 DEF build_finding, Severities
<1>4. QED
  BY <1>2, <1>3

(* The status of an artifact is red by its findings or, where there are    *)
(* none, by its metrics and cards.                                         *)
LEMMA StatusIs ==
    ASSUME NoneConsumed, NEW d, NEW j, Whole(j), NEW a \in result_to_artifact(j, d)
    PROVE  /\ FoundAny(a) => (a.status \in Red <=> \E f \in Findings(a) : f.severity \in Red)
           /\ ~FoundAny(a) => (a.status \in Red <=>
                \E s \in DOMAIN a.sections : /\ a.sections[s].type \in {"metric", "card"}
                                             /\ Headline(a.sections[s]) \cap Red # {})
<1> DEFINE built == a.sections
           judged == Judged(j, d)
           Transcribed(s) == IF built[s].type = "findings" THEN Range(built[s].items) ELSE {}
           compliance == UNION {{build_compliance_finding(s, f) : f \in judged[s].findings} : s \in DOMAIN judged}
           findings == compliance \cup UNION {Transcribed(s) : s \in DOMAIN built}
           verdict == verdict_overall_status(Range(built))
           sevs == UNION {CASE b.type = "metric" -> worst_metric_severity(b)
                            [] b.type = "card" -> b.severity \ {"muted"}
                            [] OTHER -> {} : b \in Range(built)}
           fsevs == {f.severity : f \in findings}
<1>1. a = assemble_artifact(j, built, judged, d)
  BY StoredIsBuilt
<1> HIDE DEF judged, built
<1>2. /\ a.compliance = compliance
      /\ a.status = IF compliance # {} \/ \E s \in DOMAIN built : built[s].type = "findings"
                    THEN overall_status(fsevs)
                    ELSE IF verdict # {} THEN CHOOSE v \in verdict : TRUE
                    ELSE IF \E b \in Range(built) : HasData(b) THEN "good" ELSE "unknown"
  BY <1>1 DEF assemble_artifact
<1> HIDE DEF compliance
<1>3. findings = Findings(a)
  BY <1>2 DEF Findings, built
<1>4. (compliance # {} \/ \E s \in DOMAIN built : built[s].type = "findings") <=> FoundAny(a)
  BY <1>2 DEF FoundAny, built
<1>5. fsevs \cap Red # {} <=> \E f \in Findings(a) : f.severity \in Red
  <2> HIDE DEF findings
  <2>1. QED
    BY <1>3
<1>6. verdict = IF sevs = {} THEN {} ELSE {overall_status(sevs)}
  BY DEF verdict_overall_status
<1>7. sevs \cap Red # {} <=> \E s \in DOMAIN built : /\ built[s].type \in {"metric", "card"}
                                                     /\ Headline(built[s]) \cap Red # {}
  <2> DEFINE Of(b) == CASE b.type = "metric" -> worst_metric_severity(b)
                        [] b.type = "card" -> b.severity \ {"muted"}
                        [] OTHER -> {}
  <2>1. \A b : Of(b) = IF b.type \in {"metric", "card"} THEN Headline(b) ELSE {}
    BY DEF Headline
  <2>2. sevs = UNION {Of(b) : b \in Range(built)}
    OBVIOUS
  <2>3. Range(built) = {built[s] : s \in DOMAIN built}
    BY DEF Range
  <2> HIDE DEF Of, sevs
  <2>4. sevs \cap Red # {} <=> \E b \in Range(built) : Of(b) \cap Red # {}
    BY <2>2
  <2>5. QED
    BY <2>1, <2>3, <2>4
<1> HIDE DEF fsevs, sevs, verdict
<1>8. FoundAny(a) => (a.status \in Red <=> fsevs \cap Red # {})
  BY <1>2, <1>4, StatusIsRed
<1>9. ~FoundAny(a) => (a.status \in Red <=> sevs \cap Red # {})
  <2> SUFFICES ASSUME ~FoundAny(a) PROVE a.status \in Red <=> sevs \cap Red # {}
    OBVIOUS
  <2>1. CASE sevs = {}
    <3>1. verdict = {}
      BY <1>6, <2>1
    <3>2. a.status \in {"good", "unknown"}
      BY <1>2, <1>4, <3>1
    <3>3. QED
      BY <2>1, <3>2 DEF Red
  <2>2. CASE sevs # {}
    <3>1. verdict = {overall_status(sevs)}
      BY <1>6, <2>2
    <3>2. a.status = overall_status(sevs)
      BY <1>2, <1>4, <3>1
    <3>3. QED
      BY <3>2, StatusIsRed
  <2>3. QED
    BY <2>1, <2>2
<1>10. QED
  BY <1>5, <1>7, <1>8, <1>9 DEF built

-----------------------------------------------------------------------------
(* Without an artifact the page shows nothing. *)
LEMMA PageIsBlank ==
    ASSUME EvidenceIInv, \A p \in active : store[p] = {}
    PROVE  Shown.state = "nodata" /\ Shown.sections = <<>>
<1> DEFINE tile == subject_to_tile([id |-> "subject", sources |-> {[source_type |-> "rest",
                                      has_instructions |-> TRUE, extractable |-> TRUE]}])
           held == [q \in Projects |-> [id \in {"subject"} |-> store[q]]]
<1>1. load_from_canonical_store(held, active, "subject") = {}
  BY DEF load_from_canonical_store, EvidenceIInv
<1>2. tile.id = "subject"
  BY DEF subject_to_tile
<1> HIDE DEF tile
<1>3. Shown = build_generic_subject(CHOOSE t \in {tile} : t.id = "subject", {})
  BY <1>1, <1>2 DEF Shown, Page, build_subject_initial_data, get_tiles, tile
<1>4. QED
  BY <1>3 DEF build_generic_subject

(* What the sections of a view are. *)
LEMMA ViewShows ==
    ASSUME NEW a, NEW id \in DOMAIN artifact_to_view(a).sections
    PROVE  \/ artifact_to_view(a).sections[id].type = "criteria"
           \/ /\ id = <<Compliance, "section">> /\ (a.compliance # {} \/ Compliance \in DOMAIN a.sections)
              /\ artifact_to_view(a).sections[id] = findings_view(a.compliance, "evaluation")
           \/ \E s \in DOMAIN a.sections : /\ id = <<s, "section">> /\ s # Compliance
                                           /\ artifact_to_view(a).sections[id] = section_view(a, s)
<1> DEFINE derived == IF a.compliance = {} THEN {} ELSE {Compliance}
           criteria == {<<s, "criteria">> : s \in DOMAIN a.evaluation}
           ids == {<<s, "section">> : s \in DOMAIN a.sections \cup derived} \cup criteria
<1>1. /\ id \in ids
      /\ artifact_to_view(a).sections[id] =
           CASE id \in criteria -> evaluation_criteria_view(a.evaluation[id[1]])
             [] id = <<Compliance, "section">> -> findings_view(a.compliance, "evaluation")
             [] OTHER -> section_view(a, id[1])
  BY DEF artifact_to_view
<1>2. CASE id \in criteria
  <2>1. id # <<Compliance, "section">>
    BY <1>2
  <2>2. QED
    BY <1>1, <1>2, <2>1 DEF evaluation_criteria_view
<1>3. CASE id \notin criteria
  <2>1. PICK s \in DOMAIN a.sections \cup derived : id = <<s, "section">>
    BY <1>1, <1>3
  <2>2. QED
    BY <1>1, <1>3, <2>1
<1>4. QED
  BY <1>2, <1>3

LEMMA ComplianceShown ==
    ASSUME NEW a, a.compliance # {}
    PROVE  LET id == <<Compliance, "section">>
           IN  /\ id \in DOMAIN artifact_to_view(a).sections
               /\ artifact_to_view(a).sections[id] = findings_view(a.compliance, "evaluation")
<1> DEFINE id == <<Compliance, "section">>
           criteria == {<<t, "criteria">> : t \in DOMAIN a.evaluation}
<1>1. id \notin criteria
  OBVIOUS
<1>2. QED
  BY <1>1 DEF artifact_to_view

(* A table is red by a finding of the evaluation. *)
LEMMA TablePill ==
    ASSUME RowRulesAreValid, NoneConsumed, NEW d, NEW j, Whole(j), NEW a \in result_to_artifact(j, d),
           NEW s \in DOMAIN a.sections, table_section_view(a, s).sev \cap Alarm # {}
    PROVE  \E f \in a.compliance : f.severity \in Red
<1> DEFINE rows == a.sections[s].items
           shown == IF s \in DOMAIN a.verdicts THEN [i \in DOMAIN rows |-> {a.verdicts[s][i].verdict}]
                    ELSE [i \in DOMAIN rows |-> {}]
           ranked == (UNION {shown[i] : i \in DOMAIN rows}) \cap {"good", "warning", "critical"}
<1>1. table_section_view(a, s).sev = IF ranked = {} THEN {} ELSE PillOf({Worst(ranked)})
  BY DEF table_section_view, worst_verdict_code
<1>2. ranked # {} /\ Worst(ranked) \in ranked /\ Worst(ranked) \in Red
  <2>1. ranked \subseteq Severities
    BY DEF Severities
  <2> HIDE DEF ranked
  <2>2. ranked # {} /\ Worst(ranked) \in ranked
    BY <1>1, <2>1, WorstIn
  <2>3. {Worst(ranked)} \cap Red # {}
    BY <1>1, <2>1, <2>2, PillIsRed
  <2>4. QED
    BY <2>2, <2>3
<1>3. PICK i \in DOMAIN rows : shown[i] \cap Red # {}
  BY <1>2
<1>4. s \in DOMAIN a.verdicts /\ a.verdicts[s][i].verdict \in Red
  BY <1>3
<1>5. PICK rules \in SUBSET RuleIds : j.row_rules = load_subject_row_rules(rules)
  BY DEF Whole
<1>6. j.spec = Recipe
  BY DEF Whole
<1> DEFINE judging == j.row_rules[Table]
           data == j.sections[Table]
           conds == ScopeOf(j, Table)
           judged == evaluate_section_rows(judging, data, conds, d)
<1>7. /\ s = Table /\ Table \in DOMAIN j.row_rules /\ Table \in DOMAIN j.sections
      /\ a.sections[Table].items = data /\ a.verdicts[s] = judged.per_row
  BY <1>4, <1>5, <1>6, VerdictsAreJudged
<1>8. Range(judging) \subseteq {RowRules[r] : r \in RuleIds}
  BY <1>5, <1>7, LoadedAre
<1>9. i \in DOMAIN data /\ judged.per_row[i].verdict \in Red
  BY <1>4, <1>7
<1>10. PICK g \in judged.findings : g.severity \in Red
  <2> HIDE DEF judging, data, conds
  <2>1. QED
    BY <1>8, <1>9, RedRowIsFound
<1>11. Table \in DOMAIN Judged(j, d) /\ Judged(j, d)[Table] = judged
  BY <1>7 DEF Judged, RowsOf
<1>12. build_compliance_finding(Table, g) \in a.compliance
  <2>1. a.compliance = UNION {{build_compliance_finding(t, f) : f \in Judged(j, d)[t].findings} : t \in DOMAIN Judged(j, d)}
    BY StoredIsBuilt, ArtifactFindings
  <2> HIDE DEF judged
  <2>2. QED
    BY <1>10, <1>11, <2>1
<1>13. build_compliance_finding(Table, g).severity = g.severity
  BY <1>10 DEF build_compliance_finding, FindingSeverity, Red
<1>14. QED
  BY <1>10, <1>12, <1>13

(* The kind and the pill a section is shown with. *)
LEMMA SectionPill ==
    ASSUME RowRulesAreValid, RegistryIsValid, EntriesAreValid, WaiversAreKeyed, BadgedMetrics, NoneConsumed,
           overrides \in Waivers, NEW d, NEW j, Whole(j), NEW a \in result_to_artifact(j, d), NEW s \in DOMAIN a.sections
    PROVE  LET b == a.sections[s]
               shown == section_view(a, s)
               red == shown.sev \cap Alarm # {}
           IN  /\ b.type \in SectionTypes
               /\ shown.type = IF b.type = "findings" THEN "findings_list" ELSE b.type
               /\ b.type = "findings" => (red <=> \E f \in Range(b.items) : f.severity \in Red)
               /\ b.type = "table" /\ red => \E f \in a.compliance : f.severity \in Red
               /\ b.type \in {"metric", "card"} => (red <=> Headline(b) \cap Red # {})
<1> DEFINE b == a.sections[s]
           shown == section_view(a, s)
           red == shown.sev \cap Alarm # {}
<1>1. /\ s \in DOMAIN j.sections /\ s \in DOMAIN Recipe /\ b \in build_section(j, s)
      /\ AsDeclared(b, Recipe[s])
  BY StoredIsBuilt
<1>2. b.type \in SectionTypes
  BY <1>1, KindIsAType DEF AsDeclared
<1>3. b.type = "metric" => b.face = "metric"
  BY <1>1 DEF AsDeclared, Kind, BadgedMetrics
<1>4. shown.type = IF b.type = "findings" THEN "findings_list" ELSE b.type
  BY <1>2, <1>3, SectionShown DEF KindOf
<1>5. ASSUME b.type = "findings" PROVE red <=> \E f \in Range(b.items) : f.severity \in Red
  <2>1. shown.sev = worst_finding_sev(Range(b.items))
    <3>1. {b.items[i] : i \in DOMAIN b.items} = Range(b.items)
      BY DEF Range
    <3>2. shown = findings_view({b.items[i] : i \in DOMAIN b.items}, "report")
      BY <1>5 DEF section_view
    <3>3. QED
      BY <3>1, <3>2 DEF findings_view
  <2>2. \A f \in Range(b.items) : f.severity \in Severities
    <3>1. Range(b.items) \subseteq Findings(a)
      BY <1>5 DEF Findings
    <3>2. QED
      BY <3>1, FindingsAreTyped
  <2>3. QED
    BY <2>1, <2>2, FindingsPill
<1>6. ASSUME b.type = "table", red PROVE \E f \in a.compliance : f.severity \in Red
  <2>1. shown = table_section_view(a, s)
    BY <1>6 DEF section_view
  <2>2. QED
    BY <1>6, <2>1, TablePill
<1>7. ASSUME b.type = "metric" PROVE red <=> Headline(b) \cap Red # {}
  <2>1. shown.sev = PillOf(Headline(b))
    BY <1>3, <1>7 DEF section_view, metric_section_view, worst_item_verdict, Headline
  <2>2. Headline(b) \subseteq Severities
    BY <1>1, <1>7, HeadlineIsTyped
  <2>3. QED
    BY <2>1, <2>2, PillIsRed
<1>8. ASSUME b.type = "card" PROVE red <=> Headline(b) \cap Red # {}
  <2>1. shown.sev = PillOf(b.severity)
    BY <1>8 DEF section_view, card_section_view
  <2>2. b.severity \subseteq Severities
    BY <1>1, <1>8, HeadlineIsTyped
  <2>3. Headline(b) \cap Red = b.severity \cap Red
    BY <1>8 DEF Headline, Red
  <2>4. QED
    BY <2>1, <2>2, <2>3, PillIsRed
<1>9. QED
  BY <1>2, <1>4, <1>5, <1>6, <1>7, <1>8

-----------------------------------------------------------------------------
LEMMA PillsRed ==
    ASSUME NEW types
    PROVE  Pills(types) \cap Alarm # {} <=>
             \E id \in DOMAIN Shown.sections : /\ Shown.sections[id].type \in types
                                               /\ Shown.sections[id].sev \cap Alarm # {}
  BY DEF Pills

LEMMA StateIsIssues ==
    ASSUME NEW a, DOMAIN a.sections # {} \/ a.compliance # {}
    PROVE  artifact_to_view(a).state = "issues" <=> a.status \in Red
  BY DEF artifact_to_view, artifact_state, Red

LEMMA TileAgrees ==
    ASSUME RowRulesAreValid, RegistryIsValid, EntriesAreValid, WaiversAreKeyed, BadgedMetrics, NoneConsumed,
           NoneHidden, overrides \in Waivers, NEW d, NEW j, Whole(j), NEW a \in result_to_artifact(j, d),
           Shown.state = artifact_to_view(a).state, Shown.sections = artifact_to_view(a).sections
    PROVE  TileAgreesWithPills
<1> DEFINE types == {"table", "findings_list", "metric", "card"}
           sections == Shown.sections
           Is(s) == a.sections[s].type
           Red1(id) == sections[id].sev \cap Alarm # {}
           Own(s) == <<s, "section">>
<1>1. \A s \in DOMAIN a.sections : s # Compliance
  BY StoredIsBuilt DEF NoneHidden
<1>2. ASSUME NEW s \in DOMAIN a.sections
      PROVE  /\ Own(s) \in DOMAIN sections /\ sections[Own(s)] = section_view(a, s)
             /\ Is(s) \in SectionTypes
             /\ sections[Own(s)].type = IF Is(s) = "findings" THEN "findings_list" ELSE Is(s)
             /\ Is(s) = "findings" => (Red1(Own(s)) <=> \E f \in Range(a.sections[s].items) : f.severity \in Red)
             /\ Is(s) = "table" /\ Red1(Own(s)) => \E f \in a.compliance : f.severity \in Red
             /\ Is(s) \in {"metric", "card"} => (Red1(Own(s)) <=> Headline(a.sections[s]) \cap Red # {})
  <2>1. Own(s) \in DOMAIN sections /\ sections[Own(s)] = section_view(a, s)
    BY <1>1, OwnShown
  <2> HIDE DEF sections, Own
  <2>2. QED
    BY <2>1, SectionPill
<1>3. ASSUME a.compliance # {}
      PROVE  LET id == Own(Compliance)
             IN  /\ id \in DOMAIN sections /\ sections[id].type = "findings_list"
                 /\ Red1(id) <=> \E f \in a.compliance : f.severity \in Red
  <2>1. /\ Own(Compliance) \in DOMAIN sections
        /\ sections[Own(Compliance)] = findings_view(a.compliance, "evaluation")
    BY <1>3, ComplianceShown
  <2>2. \A f \in a.compliance : f.severity \in Severities
    BY FindingsAreTyped DEF Findings
  <2>3. /\ sections[Own(Compliance)].type = "findings_list"
        /\ sections[Own(Compliance)].sev = worst_finding_sev(a.compliance)
    BY <2>1 DEF findings_view
  <2> HIDE DEF sections, Own
  <2>4. Red1(Own(Compliance)) <=> \E f \in a.compliance : f.severity \in Red
    BY <2>2, <2>3, FindingsPill
  <2>5. QED
    BY <2>1, <2>3, <2>4
<1>4. ASSUME NEW id \in DOMAIN sections, sections[id].type \in types
      PROVE  (id = Own(Compliance) /\ a.compliance # {}) \/ \E s \in DOMAIN a.sections : id = Own(s)
  <2>1. sections[id].type # "criteria"
    BY <1>4
  <2>2. \/ id = Own(Compliance) /\ (a.compliance # {} \/ Compliance \in DOMAIN a.sections)
        \/ \E s \in DOMAIN a.sections : id = Own(s)
    BY <2>1, ViewShows
  <2>3. QED
    BY <1>1, <2>2
<1> HIDE DEF sections, Own
<1>5. /\ FoundAny(a) => (a.status \in Red <=> \E f \in Findings(a) : f.severity \in Red)
      /\ ~FoundAny(a) => (a.status \in Red <=>
           \E s \in DOMAIN a.sections : Is(s) \in {"metric", "card"} /\ Headline(a.sections[s]) \cap Red # {})
  BY StatusIs
<1>6. ASSUME NEW id \in DOMAIN sections, sections[id].type \in types
      PROVE  Shown.state = "issues" <=> a.status \in Red
  <2>1. DOMAIN a.sections # {} \/ a.compliance # {}
    BY <1>4, <1>6
  <2>2. QED
    BY <2>1, StateIsIssues
<1>7. ASSUME Shown.state = "issues"
      PROVE  \E id \in DOMAIN sections : sections[id].type \in types /\ Red1(id)
  <2>1. DOMAIN a.sections # {} \/ a.compliance # {}
    BY <1>7 DEF artifact_to_view, artifact_state
  <2>2. a.status \in Red
    BY <1>7, <2>1, StateIsIssues
  <2>3. CASE FoundAny(a)
    <3>1. PICK f \in Findings(a) : f.severity \in Red
      BY <1>5, <2>2, <2>3
    <3>2. CASE f \in a.compliance
      BY <1>3, <3>1, <3>2
    <3>3. CASE f \notin a.compliance
      <4>1. PICK s \in DOMAIN a.sections : Is(s) = "findings" /\ f \in Range(a.sections[s].items)
        BY <3>1, <3>3 DEF Findings
      <4>2. QED
        BY <1>2, <3>1, <4>1
    <3>4. QED
      BY <3>2, <3>3
  <2>4. CASE ~FoundAny(a)
    <3>1. PICK s \in DOMAIN a.sections : Is(s) \in {"metric", "card"} /\ Headline(a.sections[s]) \cap Red # {}
      BY <1>5, <2>2, <2>4
    <3>2. sections[Own(s)].type = Is(s) /\ Red1(Own(s)) /\ Own(s) \in DOMAIN sections
      BY <1>2, <3>1
    <3>3. QED
      BY <3>1, <3>2
  <2>5. QED
    BY <2>3, <2>4
<1>8. ASSUME NEW id \in DOMAIN sections, sections[id].type \in {"table", "findings_list"}, Red1(id)
      PROVE  Shown.state = "issues"
  <2>1. \E f \in Findings(a) : f.severity \in Red
    <3>1. CASE id = Own(Compliance) /\ a.compliance # {}
      BY <1>3, <1>8, <3>1 DEF Findings
    <3>2. CASE \E s \in DOMAIN a.sections : id = Own(s)
      <4>1. PICK s \in DOMAIN a.sections : id = Own(s)
        BY <3>2
      <4>2. CASE Is(s) = "findings"
        <5>1. \E f \in Range(a.sections[s].items) : f.severity \in Red
          BY <1>2, <1>8, <4>1, <4>2
        <5>2. QED
          BY <4>2, <5>1 DEF Findings
      <4>3. CASE Is(s) # "findings"
        <5>1. Is(s) = "table"
          BY <1>2, <1>8, <4>1, <4>3 DEF SectionTypes
        <5>2. \E f \in a.compliance : f.severity \in Red
          BY <1>2, <1>8, <4>1, <5>1
        <5>3. QED
          BY <5>2 DEF Findings
      <4>4. QED
        BY <4>2, <4>3
    <3>3. QED
      BY <1>4, <1>8, <3>1, <3>2
  <2>2. FoundAny(a)
    BY <2>1 DEF FoundAny, Findings
  <2>3. QED
    BY <1>5, <1>6, <1>8, <2>1, <2>2
<1>9. ASSUME \A id \in DOMAIN sections : sections[id].type # "findings_list",
             NEW id \in DOMAIN sections, sections[id].type \in {"metric", "card"}, Red1(id)
      PROVE  Shown.state = "issues"
  <2>1. ~FoundAny(a)
    BY <1>2, <1>3, <1>9 DEF FoundAny
  <2>2. PICK s \in DOMAIN a.sections : id = Own(s)
    BY <1>3, <1>4, <1>9
  <2>3. Is(s) \in {"metric", "card"} /\ Headline(a.sections[s]) \cap Red # {}
    BY <1>2, <1>9, <2>2
  <2>4. QED
    BY <1>5, <1>6, <1>9, <2>1, <2>3
<1> HIDE DEF Red1
<1>10. TileAgreesWithPills
  <2>1. Shown.state = "issues" => Pills(types) \cap Alarm # {}
    BY <1>7, PillsRed DEF Red1, sections
  <2>2. Pills({"table", "findings_list"}) \cap Alarm # {} => Shown.state = "issues"
    BY <1>8, PillsRed DEF Red1, sections
  <2>3. /\ ~\E id \in DOMAIN Shown.sections : Shown.sections[id].type = "findings_list"
        /\ Pills({"metric", "card"}) \cap Alarm # {}
        => Shown.state = "issues"
    BY <1>9, PillsRed DEF Red1, sections
  <2>4. QED
    BY <2>1, <2>2, <2>3 DEF TileAgreesWithPills
<1>11. QED
  BY <1>10

(* In a catalog of valid rules, with at most one override of a rule for    *)
(* each section and project, whose metrics show badges and where no        *)
(* section is consumed or hidden, the tile and the pills of its sections   *)
(* agree: the tile is red only if some section is, a red finding or row    *)
(* makes it red, and so does a red metric or card where nothing was found  *)
(* (result_to_artifact.py, canonical_view.py).                             *)
THEOREM TilesAgreeWithPills ==
    /\ RowRulesAreValid /\ RegistryIsValid /\ EntriesAreValid /\ WaiversAreKeyed
    /\ BadgedMetrics /\ NoneConsumed /\ NoneHidden
    => (Spec => []TileAgreesWithPills)
<1> SUFFICES ASSUME /\ RowRulesAreValid /\ RegistryIsValid /\ EntriesAreValid /\ WaiversAreKeyed
                    /\ BadgedMetrics /\ NoneConsumed /\ NoneHidden
             PROVE  Spec => []TileAgreesWithPills
  OBVIOUS
<1>1. EvidenceIInv /\ StoreIsCollected => TileAgreesWithPills
  <2> SUFFICES ASSUME EvidenceIInv, StoreIsCollected PROVE TileAgreesWithPills
    OBVIOUS
  <2>1. CASE \A p \in active : store[p] = {}
    <3>1. Shown.state = "nodata" /\ DOMAIN Shown.sections = {}
      BY <2>1, PageIsBlank
    <3>2. \A types : Pills(types) = {}
      BY <3>1 DEF Pills
    <3>3. QED
      BY <3>1, <3>2 DEF TileAgreesWithPills
  <2>2. CASE \E p \in active : store[p] # {}
    <3>1. PICK p \in active : store[p] # {}
      BY <2>2
    <3>2. PICK a \in store[p] : TRUE
      BY <3>1
    <3>3. p \in Projects /\ overrides \in Waivers
      BY DEF EvidenceIInv
    <3>4. PICK j, d : Whole(j) /\ j.project = p /\ a \in result_to_artifact(j, d)
      BY <3>3 DEF StoreIsCollected, CollectedIn
    <3>5. Shown.state = artifact_to_view(a).state /\ Shown.sections = artifact_to_view(a).sections
      BY PageShows
    <3>6. QED
      BY <3>3, <3>4, <3>5, TileAgrees
  <2>3. QED
    BY <2>1, <2>2
<1>2. QED
  BY <1>1, EvidenceInvariant, StoredIsCollected, PTL
=============================================================================
