------------------------------ MODULE Evidence ------------------------------
(***************************************************************************)
(* From collection to page.  A live collection loads the subject's rules,  *)
(* scope and overrides when it begins, fetches the sections one after the  *)
(* other, leaves out those whose rows do not conform and stores one        *)
(* artifact for its project; meanwhile rules are bound and unbound and     *)
(* days pass.  What a dry run and the workspace would show is a function   *)
(* of the state: both the collection, when it stores, and the dry run read *)
(* the clock for themselves.                                               *)
(*                                                                         *)
(* One subject of one customer, in several projects.  Overrides have no    *)
(* writer in the code: any set of them may be in the database.             *)
(***************************************************************************)
EXTENDS Views, Migrations

CONSTANTS Projects,     \* "default" among them: the one the dry run reads
          Recipe,       \* section id -> spec, with its conformance block
          Order,        \* the sections in the order they are collected
          Samples,      \* section id -> the row sequences a source may return
          RowRules,     \* row rule id -> definition
          Announced,    \* section id -> the section_type its proposal declares
          Registry,     \* metric and card rules by id
          Scopes,       \* the scopes the table's recipe may declare
          Waivers,      \* the sets of override rows the database may hold
          FirstDay, LastDay,       \* the days the clock shows; LastDay is a bound
          MaxCollects, MaxBinds    \* bounds

Table == "groups"       \* the section row rules are bound to

\* Rules are kept by their id, a section is collected once, and rules are bound to
\* what the catalog calls a table (db/rules.py, validate_row_match_rule), here a table of the recipe
\* too.  Only a section of the proposal is collected: the extractors join the recipe
\* with the sections the proposal declared.
ASSUME EvidenceAssumption ==
  /\ "default" \in Projects
  /\ MaxCollects \in Nat /\ MaxBinds \in Nat
  /\ FirstDay \in Nat /\ LastDay \in Nat
  /\ IsFiniteSet(DOMAIN RowRules) /\ \A r \in DOMAIN RowRules : RowRules[r].rule_id = r
  /\ Order \in Seq(DOMAIN Recipe) /\ DOMAIN Recipe = {Order[i] : i \in DOMAIN Order}
  /\ \A i, k \in DOMAIN Order : Order[i] = Order[k] => i = k
  /\ Table \in DOMAIN Recipe /\ Recipe[Table].output_as = "table"
  /\ DOMAIN Recipe \subseteq DOMAIN Announced /\ Announced[Table] = "table"
  /\ \A s \in DOMAIN Recipe : \A rows \in Samples[s] : rows \in Seq(Range(rows))
  /\ \A w \in Waivers : IsFiniteSet(w)

VARIABLES active,       \* the session's explicit project, if any
          bound,        \* the row rules bound to the table
          scope,        \* the scope its recipe declares
          overrides,    \* rule_overrides of the customer
          job,          \* the collection under way, if any
          store,        \* per project, the latest artifact, if any
          now,          \* the clock, in days
          collects, binds

evidenceVars == <<active, bound, scope, overrides, job, store, now, collects, binds>>
vars == <<evidenceVars, migrationVars>>

Init ==
  /\ MigrationsInit
  /\ active = {} /\ bound = {} /\ job = {}
  /\ scope \in Scopes /\ overrides \in Waivers
  /\ store = [p \in Projects |-> {}]
  /\ now = FirstDay
  /\ collects = 0 /\ binds = 0

Up == \A p \in Processes : boot[p].pc = "up"

load_subject_row_rules(bindings) ==
  IF bindings = {} THEN <<>>
  ELSE [s \in {Table} |-> [i \in 1..Cardinality(bindings) |-> RowRules[SetToSeq(bindings)[i]]]]
load_subject_section_scope == IF scope = <<>> THEN <<>> ELSE [s \in {Table} |-> scope]

SelectProject(p) ==
  /\ Up /\ active # {p}
  /\ active' = {p}
  /\ UNCHANGED <<bound, scope, overrides, job, store, now, collects, binds, migrationVars>>

Midnight ==
  /\ Up /\ now < LastDay
  /\ now' = now + 1
  /\ UNCHANGED <<active, bound, scope, overrides, job, store, collects, binds, migrationVars>>

Bind(r) ==
  /\ Up /\ binds < MaxBinds
  /\ bound' = IF r \in bound THEN bound \ {r} ELSE bound \cup {r}
  /\ binds' = binds + 1
  /\ UNCHANGED <<active, scope, overrides, job, store, now, collects, migrationVars>>

CollectBegin ==
  /\ Up /\ job = {} /\ collects < MaxCollects
  /\ \E p \in active :
       job' = {[project |-> p, sections |-> <<>>, failures |-> {}, spec |-> Recipe,
                registry |-> Registry, overrides |-> overrides,
                row_rules |-> load_subject_row_rules(bound), scope |-> load_subject_section_scope,
                commcell_name |-> None, source |-> "rest"]}
  /\ collects' = collects + 1
  /\ UNCHANGED <<active, bound, scope, overrides, store, now, binds, migrationVars>>

Reached(j) == Cardinality(DOMAIN j.sections) + Cardinality(j.failures)

\* Mutant: a failure is recorded and the rows are kept as well.
FetchAnyway(j, rows) ==
  LET s == Order[Cardinality(DOMAIN j.sections) + 1]
      bad == check_conformance(rows, Recipe[s].conformance)
      kept == [j EXCEPT !.sections = [t \in DOMAIN @ \cup {s} |-> IF t = s THEN rows ELSE @[t]]]
  IN  IF bad # "" THEN [kept EXCEPT !.failures = @ \cup {<<s, bad>>}] ELSE kept

\* One section: rows that do not conform are recorded as a failure.
Fetch(j, rows) ==
  LET s == Order[Reached(j) + 1]
      bad == check_conformance(rows, Recipe[s].conformance)
  IN  IF bad # "" THEN [j EXCEPT !.failures = @ \cup {<<s, bad>>}]
      ELSE [j EXCEPT !.sections = [t \in DOMAIN @ \cup {s} |-> IF t = s THEN rows ELSE @[t]]]

CollectSection ==
  /\ Up
  /\ \E j \in job :
       /\ Reached(j) < Len(Order)
       /\ \E rows \in Samples[Order[Reached(j) + 1]] : job' = {Fetch(j, rows)}
  /\ UNCHANGED <<active, bound, scope, overrides, store, now, collects, binds, migrationVars>>

\* A section that raises ends the collection and nothing is stored.  The rows are
\* judged by the day this is.
CollectStore ==
  /\ Up
  /\ \E j \in job :
       /\ Reached(j) = Len(Order)
       /\ \E stored \in {result_to_artifact(j, now)} :
            store' = IF stored = {} THEN store ELSE [store EXCEPT ![j.project] = stored]
  /\ job' = {}
  /\ UNCHANGED <<active, bound, scope, overrides, now, collects, binds, migrationVars>>

Serve ==
  \/ \E p \in Projects : SelectProject(p)
  \/ \E r \in DOMAIN RowRules : Bind(r)
  \/ CollectBegin \/ CollectSection \/ CollectStore \/ Midnight

\* The programs boot first; serving touches no migration.
Next ==
  \/ ~Up /\ MigrationsNext /\ UNCHANGED evidenceVars
  \/ Serve

Spec == Init /\ [][Next]_vars

-----------------------------------------------------------------------------
Stored == {pa \in Projects \X UNION {store[p] : p \in Projects} : pa[2] \in store[pa[1]]}

ScopeIn(a) == a.evaluation[Table].scope
RulesIn(a) == {RowRules[c.rule_id] : c \in a.evaluation[Table].checks}

\* What the docstring of evaluate_section_rows promises of one row, on the day the
\* artifact was stored.
OwnVerdict(a, row) ==
  LET hits == {r \in RulesIn(a) : /\ r.emit = "per_row"
                                  /\ matches_conditions(r.conditions, row, a.imported_at)}
      unreadable == \E r \in RulesIn(a) :
                       rule_row_state(r.conditions, row, a.imported_at) = "unevaluable"
  IN  IF ~matches_conditions(ScopeIn(a), row, a.imported_at) THEN "not_evaluated"
      ELSE IF hits # {} THEN Worst({r.severity : r \in hits})
      ELSE IF unreadable THEN "not_evaluated" ELSE "good"

RowsOwn(a) ==
  \A s \in DOMAIN a.verdicts : \A i \in DOMAIN a.verdicts[s] :
    a.verdicts[s][i].verdict = OwnVerdict(a, a.sections[s].items[i])

\* Every stored row carries the worst severity among its own findings, whichever
\* other rows match, are out of scope or cannot be read (evaluate_section_rows,
\* result_to_artifact).
RowsCarryOwnVerdict == \A pa \in Stored : RowsOwn(pa[2])

\* The rules an artifact was judged by, and whether a dry run by some rules on some
\* day shows what is stored of it.
ChecksOf(a) ==
  IF Table \in DOMAIN a.evaluation THEN {c.rule_id : c \in a.evaluation[Table].checks} ELSE {}
PreviewShows(a, rules, day) ==
  LET preview == evaluate_subject(a, load_subject_row_rules(rules), load_subject_section_scope, day)
      Found(s) == {build_compliance_finding(s, f) : f \in preview[s].findings}
  IN  /\ UNION {Found(s) : s \in DOMAIN preview} = a.compliance
      /\ \A s \in DOMAIN a.verdicts : preview[s].per_row = a.verdicts[s]

\* No row of the stored table has passed an age limit of the scope or of the rules
\* since it was judged.
AgeLimits(rules) ==
  {c \in Range(scope) \cup UNION {Range(RowRules[r].conditions) : r \in rules} :
     c.operator = "stale_days"}
NoneHasAged(a, rules, day) ==
  Table \in DOMAIN a.sections =>
    \A i \in DOMAIN a.sections[Table].items, c \in AgeLimits(rules) :
      predicate_value(c, a.sections[Table].items[i], day)
        = predicate_value(c, a.sections[Table].items[i], a.imported_at)

\* As long as the bindings are those a collection ran with and no row has passed an
\* age limit since, the dry run shows the findings and the verdicts that collection
\* stored, whatever day it is (subject_eval.evaluate_subject), also for a table that
\* was left out.
PreviewMatchesStored ==
  \A a \in store["default"] :
    ChecksOf(a) = bound /\ NoneHasAged(a, bound, now) => PreviewShows(a, bound, now)

\* The rule rows of one rule that apply in a project: its own beat the standing one.
Waived(p, s, id) ==
  LET Of(q) == {o.severity : o \in {r \in overrides : /\ r.section = s /\ r.rule_id = id
                                                     /\ r.project = q}}
  IN  IF Of(p) # {} THEN Of(p) ELSE Of("NULL")

\* What one of an item's rules says of a value in a project, and the advice of the
\* rules that are not silent.
Says(p, s, id, v) ==
  IF Waived(p, s, id) # {} THEN Waived(p, s, id)
  ELSE {evaluate_rule(Registry[id], v, NumberOf(v)).severity}
Loud(p, s, ids, v) == (UNION {Says(p, s, id, v) : id \in ids}) \ {"muted"}
Advice(p, s, ids, v) ==
  UNION {Registry[id].recommendation : id \in {r \in ids : "muted" \notin Says(p, s, r, v)}}

\* An item is judged by the rules that target it.
JudgedByItsRules(p, s, item, ids) ==
  LET loud == Loud(p, s, ids, item.value)
      advice == Advice(p, s, ids, item.value)
  IN  /\ item.judged.severity =
           IF ids = {} THEN {} ELSE IF loud = {} THEN {"muted"} ELSE {Worst(loud)}
      /\ item.judged.recommendation \subseteq advice
      /\ advice # {} => item.judged.recommendation # {}

Targeting(s, id) == {e.ref : e \in {q \in Range(Recipe[s].rules) : q.target = id}}
WaiversHeld(p, a) ==
  \A s \in {t \in DOMAIN a.sections : a.sections[t].type = "metric"} :
    \A id \in DOMAIN a.sections[s].items :
      JudgedByItsRules(p, s, a.sections[s].items[id], Targeting(s, id))

\* An item's severity is the worst of what its rules say of its value once each
\* waived rule says what its override says; a silenced rule neither shows nor
\* recommends, and it silences no other rule (engine.evaluate, surface_recommendation).
WaiversSilenceTheirRule == \A pa \in Stored : WaiversHeld(pa[1], pa[2])

Page == build_subject_initial_data(
          {[id |-> "subject", sources |-> {[source_type |-> "rest", has_instructions |-> TRUE,
                                            extractable |-> TRUE]}]},
          [p \in Projects |-> [id \in {"subject"} |-> store[p]]], active,
          {[s \in DOMAIN Announced |->
              [section_type |-> Announced[s],
               spec |-> IF s \in DOMAIN Recipe THEN Recipe[s] ELSE <<>>]]})
Shown == Page.subjects["subject"]
Alarm == {"crit", "warn"}
Pills(types) ==
  UNION {Shown.sections[id].sev : id \in {k \in DOMAIN Shown.sections : Shown.sections[k].type \in types}}

\* The tile and its pills agree: a tile is red only if some section is, a red
\* finding or row makes it red, and so does a red metric or card where nothing
\* was found (result_to_artifact, artifact_to_view: two code paths).
TileAgreesWithPills ==
  LET found == \E id \in DOMAIN Shown.sections : Shown.sections[id].type = "findings_list"
  IN  /\ Shown.state = "issues" => Pills({"table", "findings_list", "metric", "card"}) \cap Alarm # {}
      /\ Pills({"table", "findings_list"}) \cap Alarm # {} => Shown.state = "issues"
      /\ ~found /\ Pills({"metric", "card"}) \cap Alarm # {} => Shown.state = "issues"

FailedIn(a) == {f[1] : f \in a.failures}

\* What a section becomes: the shell goes by the proposal's section_type, the
\* artifact by the recipe's output_as, and what neither knows is a table.
Kind(declared) ==
  IF declared \in {"metric", "card", "chart", "findings"} THEN declared ELSE "table"

\* A section is of the kind its recipe declares.
AsDeclared(section, spec) ==
  /\ section.type = Kind(spec.output_as)
  /\ section.type = "metric" => section.face = spec.face

\* Every declared section is in the artifact or recorded as failed, never both,
\* and a pending proposal's shell has each section of the later page, shown as the
\* same kind exactly where the section_type the proposal declares and the output_as
\* of its recipe are of one kind: nothing makes them agree (check_conformance,
\* build_proposal_shell, artifact_to_view).
ShellForetellsPage ==
  \A a \in UNION {store[p] : p \in active} :
    LET reported == {id \in DOMAIN Shown.sections : Shown.sections[id].band = "report"}
    IN  /\ FailedIn(a) \cap DOMAIN a.sections = {}
        /\ FailedIn(a) \cup DOMAIN a.sections = DOMAIN Recipe
        /\ \A shell \in Page.staging, id \in reported :
             /\ id \in DOMAIN shell.sections
             /\ shell.sections[id].type = Shown.sections[id].type
                  <=> Kind(Announced[id[1]]) = Kind(Recipe[id[1]].output_as)

-----------------------------------------------------------------------------
(* The inductive invariant behind PreviewMatchesStored and                 *)
(* ShellForetellsPage.                                                     *)

RuleIds == DOMAIN RowRules

\* A collection works with the rules that were bound when it began, and has fetched
\* the first sections of the order, each kept or failed.
Whole(j) ==
  /\ j.project \in Projects
  /\ \E rules \in SUBSET RuleIds : j.row_rules = load_subject_row_rules(rules)
  /\ j.scope = load_subject_section_scope /\ j.spec = Recipe
  /\ j.registry = Registry /\ j.overrides = overrides
  /\ \A s \in DOMAIN j.sections : j.sections[s] \in Samples[s]
  /\ IsFiniteSet(DOMAIN j.sections) /\ IsFiniteSet(j.failures)
  /\ Reached(j) \in 0..Len(Order)
  /\ FailedIn(j) \cap DOMAIN j.sections = {}
  /\ FailedIn(j) \cup DOMAIN j.sections = {Order[i] : i \in 1..Reached(j)}

JobIsWhole == \A j \in job : Whole(j)

\* The recipe's metrics are shown with badges, as the shell shows every metric.
BadgedMetrics ==
  \A s \in DOMAIN Recipe : Recipe[s].output_as = "metric" => Recipe[s].face = "metric"

\* The recipe has no staging section, which enrich_commcell_info would consume, and
\* none under the name the derived findings take.
NoneConsumed == "_commcell_observed" \notin DOMAIN Recipe
NoneHidden == Compliance \notin DOMAIN Recipe

\* A row rule as validate_row_match_rule lets it be saved.
RowRulesAreValid ==
  \A r \in RuleIds : /\ RowRules[r].emit \in {"count", "per_row"}
                     /\ RowRules[r].severity \in Severities \ {"muted"}

\* The rows of the table have ids, each its own.
RowsHaveIds ==
  \A rows \in Samples[Table] :
    /\ \A i \in DOMAIN rows : ~is_absent(Cell(rows[i], "id"))
    /\ \A i, k \in DOMAIN rows : rows[i]["id"] = rows[k]["id"] => i = k

\* What a metric or card rule has, by kind, beside its id and its recommendation, and
\* the severities among it.
RuleFields ==
  [threshold |-> {"comparison", "bands", "default_severity", "mute_on_sentinel"},
   presence |-> {"severity_when_present", "severity_when_missing"},
   enum |-> {"allowed_values", "severity_when_allowed", "severity_when_missing",
             "severity_when_disallowed"},
   format |-> {"pattern", "severity_when_match", "severity_when_missing",
               "severity_when_no_match"}]
SeveritiesOf(rule) ==
  {rule[f] : f \in RuleFields[rule.kind] \ {"comparison", "bands", "mute_on_sentinel",
                                            "allowed_values", "pattern"}}
  \cup IF rule.kind = "threshold" THEN {b.severity : b \in rule.bands} ELSE {}
RuleIsValid(rule) ==
  /\ {"rule_id", "kind", "recommendation"} \subseteq DOMAIN rule
  /\ rule.kind \in DOMAIN RuleFields /\ RuleFields[rule.kind] \subseteq DOMAIN rule
  /\ SeveritiesOf(rule) \subseteq Severities

\* The registry keeps valid rules by their id.
RegistryIsValid ==
  \A r \in DOMAIN Registry : /\ RuleIsValid(Registry[r])
                             /\ Registry[r].rule_id = r /\ r # NoId

\* A section's entries name a rule or carry a valid one; those of metrics name one.
EntriesAreValid ==
  \A s \in DOMAIN Recipe :
    /\ Recipe[s].output_as \in {"metric", "card"} =>
         /\ Recipe[s].rules \in Seq(Range(Recipe[s].rules))
         /\ \A e \in Range(Recipe[s].rules) :
              /\ "target" \in DOMAIN e
              /\ "ref" \in DOMAIN e \/ (Recipe[s].output_as = "card" /\ RuleIsValid(e))
    /\ Recipe[s].output_as = "card" /\ "rule" \in DOMAIN Recipe[s] =>
         "ref" \in DOMAIN Recipe[s].rule \/ RuleIsValid(Recipe[s].rule)

SameOverride(o, q) ==
  o.section = q.section /\ o.project = q.project /\ o.rule_id = q.rule_id

\* One override of a rule for each section and project, of a known severity.
\* The table's UNIQUE promises it of a project's overrides only, since SQLite takes
\* NULL project_ids as distinct; of several standing ones the loader keeps the first
\* the query returns, which is not modelled.
WaiversAreKeyed ==
  \A w \in Waivers :
    /\ \A o \in w : o.severity \in Severities
    /\ \A o, q \in w : SameOverride(o, q) => o = q

\* An artifact shows what the rules of some moment say of it, and of every section
\* of its recipe what the recipe declares or a failure.
StoreIsWhole ==
  \A p \in Projects : \A a \in store[p] :
    /\ store[p] = {a}
    /\ \E rules \in SUBSET RuleIds : ChecksOf(a) = rules /\ PreviewShows(a, rules, a.imported_at)
    /\ NoneConsumed => /\ FailedIn(a) \cap DOMAIN a.sections = {}
                       /\ FailedIn(a) \cup DOMAIN a.sections = DOMAIN Recipe
                       /\ \A s \in DOMAIN a.sections : AsDeclared(a.sections[s], Recipe[s])

EvidenceIInv ==
  /\ active \in SUBSET Projects /\ \A p, q \in active : p = q
  /\ bound \subseteq RuleIds /\ DOMAIN store = Projects /\ overrides \in Waivers
  /\ JobIsWhole /\ StoreIsWhole
=============================================================================
