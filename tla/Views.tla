------------------------------- MODULE Views --------------------------------
(***************************************************************************)
(* What the workspace shows: the view of a stored artifact                 *)
(* (quickhc/canonical_view.py), the tiles with the sources a user may      *)
(* collect or import from (quickhc/registry.py, source_provenance.py), the *)
(* version a family collects next (db/subjects.py) and the page of the     *)
(* active project (quickhc/subject_data_service.py).                       *)
(*                                                                         *)
(* Sections are functions from section ids; their order, titles and        *)
(* captions are layout and left out.  A pill is {} when nothing is shown.  *)
(***************************************************************************)
EXTENDS Sections

-----------------------------------------------------------------------------
(* canonical_view.py                                                       *)

SeverityCode == [critical |-> "crit", warning |-> "warn", good |-> "good",
                 info |-> "info", muted |-> "muted"]
PillOf(sevs) == {SeverityCode[s] : s \in sevs}

artifact_state(a) ==
  IF DOMAIN a.sections = {} /\ a.compliance = {} THEN "nodata"
  ELSE CASE a.status \in {"critical", "warning"} -> "issues"
         [] a.status = "good" -> "ok"
         [] OTHER -> "nodata"

\* The worst row verdict; a verdict of another rank (info) shows nothing.
worst_verdict_code(verdicts) ==
  LET ranked == verdicts \cap {"good", "warning", "critical"}
  IN  IF ranked = {} THEN {} ELSE PillOf({Worst(ranked)})

worst_finding_sev(findings) ==
  LET sevs == {f.severity : f \in findings}
  IN  IF sevs = {} THEN {} ELSE PillOf({Worst(sevs)})

worst_item_verdict(section) == PillOf(worst_metric_severity(section))

ItemView(item, absent) ==
  [value |-> IF item.value = None THEN Word(absent) ELSE item.value,
   sev |-> PillOf(item.judged.severity)]

\* Only a section that declares the metric face shows badges.
metric_section_view(section) ==
  [type |-> IF section.face = "metric" THEN "metric" ELSE "meta", band |-> "report",
   sev |-> IF section.face = "metric" THEN worst_item_verdict(section) ELSE {},
   items |-> [id \in DOMAIN section.items |-> ItemView(section.items[id], "n/a")]]

\* The pill of a card may be "muted": its field rules all fell silent.
card_section_view(section) ==
  [type |-> "card", band |-> "report", sev |-> PillOf(section.severity),
   items |-> [f \in DOMAIN section.items |-> ItemView(section.items[f], "-")]]

chart_section_view(section) ==
  [type |-> "chart", band |-> "report", sev |-> {},
   labels |-> section.labels, series |-> section.series]

\* What the caption of an evaluated table says of its population.
scope_phrases(conds) ==
  LET named == {i \in DOMAIN conds : conds[i].target = "association" /\ conds[i].operator = "eq"}
  IN  IF named # {} THEN <<"rows of", conds[MinOfSet(named)].value>>
      ELSE IF conds = <<>> THEN <<"all rows">> ELSE <<"a subset of rows">>

evaluation_criteria_view(block) ==
  [type |-> "criteria", band |-> "evaluation", sev |-> {},
   scope |-> scope_phrases(block.scope), checks |-> {SeverityCode[c.severity] : c \in block.checks}]

table_section_view(a, s) ==
  LET rows == a.sections[s].items
      verdicts == IF s \in DOMAIN a.verdicts THEN [i \in DOMAIN rows |-> {a.verdicts[s][i].verdict}]
                  ELSE [i \in DOMAIN rows |-> {}]
  IN  [type |-> "table", band |-> "report", rows |-> rows, row_verdicts |-> verdicts,
       sev |-> worst_verdict_code(UNION {verdicts[i] : i \in DOMAIN rows}),
       caption |-> IF s \in DOMAIN a.evaluation THEN scope_phrases(a.evaluation[s].scope) ELSE <<>>]

findings_view(findings, band) ==
  [type |-> "findings_list", band |-> band, sev |-> worst_finding_sev(findings),
   findings |-> findings]

Compliance == "compliance"
section_view(a, s) ==
  LET section == a.sections[s] IN
  CASE section.type = "findings" ->
         findings_view({section.items[i] : i \in DOMAIN section.items}, "report")
    [] section.type = "table" -> table_section_view(a, s)
    [] section.type = "metric" -> metric_section_view(section)
    [] section.type = "chart" -> chart_section_view(section)
    [] section.type = "card" -> card_section_view(section)

\* A criteria card is shown for every section that has rules, collected or not.
artifact_to_view(a) ==
  LET derived == IF a.compliance = {} THEN {} ELSE {Compliance}
      criteria == {<<s, "criteria">> : s \in DOMAIN a.evaluation}
      Own(s) == <<s, "section">>
      ids == {Own(s) : s \in DOMAIN a.sections \cup derived} \cup criteria
  IN  [state |-> artifact_state(a), activeSource |-> a.source,
       sections |-> [id \in ids |->
          CASE id \in criteria -> evaluation_criteria_view(a.evaluation[id[1]])
            [] id = Own(Compliance) -> findings_view(a.compliance, "evaluation")
            [] OTHER -> section_view(a, id[1])]]

-----------------------------------------------------------------------------
(* registry.py: the tiles and their sources.                               *)

StandardSources == {"rest_command_center_api", "rest", "json", "csv", "html"}
LiveSources == {"rest", "rest_command_center_api", "reportsplus_dataset"}

\* An entry of a source row [source_type, has_instructions, extractable].  Rows
\* of an unknown type are dropped; without any, every standard source is shown.
build_db_source_entries(rows) ==
  LET Entry(r) == [id |-> r.source_type, extractable |-> r.extractable,
        collect |-> CASE r.source_type \in LiveSources /\ r.has_instructions -> "collect"
                      [] r.source_type = "json" /\ r.has_instructions -> "collect-fixture"
                      [] OTHER -> ""]
      known == {Entry(r) : r \in {q \in rows : q.source_type \in LiveSources \cup StandardSources}}
      entries == IF \E e \in known : e.id = "rest_command_center_api"
                 THEN {e \in known : e.id # "rest"} ELSE known
  IN  IF entries # {} THEN entries
      ELSE {[id |-> s, extractable |-> TRUE, collect |-> ""] : s \in StandardSources}

\* subject is a catalog row [id, sources, sections].
subject_to_tile(subject) == [id |-> subject.id, sources |-> build_db_source_entries(subject.sources)]
get_tiles(subjects) == {subject_to_tile(s) : s \in subjects}

(* source_provenance.py: two subjects name their methods in code, whatever  *)
(* the catalog holds and whether or not anything was collected.             *)
PROVENANCE_DISPATCH == {"security_assessment", "license_summary"}
build_provenance(subject_id) ==
  {[source_type |-> t, status |-> "validated"] : t \in {"rest", "csv", "html"}}

SourceItem(id, status, action) == [id |-> id, status |-> status, action |-> action]
TileStatus == [validated |-> "v", available |-> "a", not_available |-> "n",
               not_implemented |-> "ni", not_tested |-> "n", not_applicable |-> "ni"]
provenance_to_tile_sources(items) ==
  {SourceItem(i.source_type, TileStatus[i.status],
              IF i.source_type = "rest" THEN "collect" ELSE "import") : i \in items}

build_generic_sources(tile, collected) ==
  IF tile.id \in PROVENANCE_DISPATCH THEN provenance_to_tile_sources(build_provenance(tile.id))
  ELSE LET Action(e) == CASE e.id \in {"csv", "html"} /\ e.extractable -> "import"
                          [] e.id \notin {"csv", "html"} -> e.collect
                          [] OTHER -> ""
       IN  {SourceItem(e.id,
              IF e.id = "rest_command_center_api" /\ collected THEN "v"
              ELSE IF Action(e) = "" THEN "ni" ELSE "a", Action(e)) : e \in tile.sources}

-----------------------------------------------------------------------------
(* db/subjects.py: versions.  A subject id is <<family, n>>.               *)

subject_family(id) == id[1]
version_number(id) == id[2]
list_family_versions(catalog, family) == {id \in catalog : subject_family(id) = family}

\* pins is a function from <<customer, family>> pairs to subject ids; a pin of a
\* version that left the catalog is skipped.
resolve_active_version(catalog, pins, customer, id) ==
  LET family == subject_family(id)
      versions == list_family_versions(catalog, family)
      pin == <<customer, family>>
  IN  IF pin \in DOMAIN pins /\ pins[pin] \in versions THEN pins[pin]
      ELSE IF versions = {} THEN id
      ELSE CHOOSE v \in versions : \A w \in versions : version_number(w) <= version_number(v)

version_info(catalog, pins, customer, id) ==
  LET versions == list_family_versions(catalog, subject_family(id))
  IN  [versions |-> IF versions = {} THEN {id} ELSE versions,
       active |-> resolve_active_version(catalog, pins, customer, id)]

-----------------------------------------------------------------------------
(* subject_data_service.py.  A store maps subject ids to sets of at most    *)
(* one artifact; no explicit project, a missing or an unreadable artifact   *)
(* are all {}.                                                              *)

load_from_canonical_store(store, active, id) ==
  IF active = {} THEN {} ELSE UNION {store[p][id] : p \in active}

build_generic_subject(tile, artifacts) ==
  LET sources == build_generic_sources(tile, artifacts # {})
  IN  IF artifacts = {} THEN [state |-> "nodata", sections |-> <<>>, sources |-> sources]
      ELSE LET view == artifact_to_view(CHOOSE a \in artifacts : TRUE)
           IN  [state |-> view.state, sections |-> view.sections, sources |-> sources]

\* The host on the page's header: from the cards of the scoped environment.
build_commcell_header(artifacts) ==
  UNION {LET cards == {s \in DOMAIN a.sections : a.sections[s].type = "card"}
             Shown(s, l) == IF l \in DOMAIN a.sections[s].items
                            THEN {a.sections[s].items[l].value} \ {None, Word("")} ELSE {}
             hosts == UNION {Shown(s, "Hostname") : s \in cards}
         IN  IF hosts # {} THEN hosts ELSE UNION {Shown(s, "CommCell Name") : s \in cards}
         : a \in artifacts}

\* A proposal's section, without data.  Items come from the names its recipe
\* gives them; anything malformed is an empty table.
shell_section(section_type, names) ==
  LET Empty == [value |-> None, judged |-> Unjudged]
  IN CASE section_type = "metric" ->
            [type |-> "metric", face |-> "metric", items |-> [n \in names |-> Empty],
             severity |-> {}]
       [] section_type = "card" ->
            [type |-> "card", items |-> [n \in names |-> Empty], severity |-> {}]
       [] section_type = "findings" -> [type |-> "findings", items |-> <<>>, severity |-> {}]
       [] section_type = "chart" ->
            [type |-> "chart", labels |-> <<>>, series |-> <<>>, severity |-> {}]
       [] OTHER -> [type |-> "table", items |-> <<>>, severity |-> {}]

\* A metric's names are read from "metrics" or "items" of the section's recipe,
\* not from "metric"."items", where the collector reads them.
shell_names(section_type, spec) ==
  IF section_type = "card" /\ "items" \in DOMAIN spec /\ spec.output_as = "card"
  THEN {spec.items[i].field : i \in DOMAIN spec.items} ELSE {}

\* A proposal maps its section ids to [section_type, spec].
build_proposal_shell(proposal) ==
  artifact_to_view(
     [sections |-> [s \in DOMAIN proposal |->
        shell_section(proposal[s].section_type,
                      shell_names(proposal[s].section_type, proposal[s].spec))],
      compliance |-> {}, verdicts |-> <<>>, evaluation |-> <<>>, failures |-> {},
      status |-> "unknown", source |-> "rest"])

\* proposals: the pending ones of the review queue.
build_subject_initial_data(subjects, store, active, proposals) ==
  LET Artifacts(id) == load_from_canonical_store(store, active, id)
  IN  [subjects |-> [id \in {t.id : t \in get_tiles(subjects)} |->
         build_generic_subject(CHOOSE t \in get_tiles(subjects) : t.id = id, Artifacts(id))],
       staging |-> {build_proposal_shell(p) : p \in proposals}]
=============================================================================
