------------------------------ MODULE Collect ------------------------------
(***************************************************************************)
(* Live collection of one subject from a CommCell: the paged dataset read  *)
(* of reportsplus/session.py, the report definition's names and guids      *)
(* (reportsplus/extract_report.py), the three live extractors              *)
(* (extractors/rest.py, reportsplus_dataset.py, command_center.py) and the *)
(* route that picks one of them and stores the result                      *)
(* (web/routes/quick_hc.py).                                               *)
(*                                                                         *)
(* The CommCell belongs to its users: between two requests of a collection *)
(* a dataset gains or loses rows and a report is rebuilt.  Any request may *)
(* fail.  Who may collect, with which token, is module Workspace.          *)
(***************************************************************************)
EXTENDS ColumnMap

CONSTANTS PageSize,     \* rows asked for when the recipe sets no limit (1000 in the code)
          Reports,      \* report id -> the definitions it may have
          NewRows,      \* guid -> the rows that may be appended to that dataset
          Endpoints,    \* endpoint -> what a GET of it may answer
          MaxEdits,     \* bound on the edits of the CommCell
          MaxJobs       \* bound on the acquisitions, live and from files

ASSUME CollectAssumption == PageSize \in Nat \ {0} /\ MaxEdits \in Nat /\ MaxJobs \in Nat

VARIABLES catalog,      \* versions of subjects: [subject, version, active, system, gated, sources]
          store,        \* subject -> its latest artifact, if any
          job,          \* the acquisition under way, if any
          datasets,     \* guid -> [name, rows, params, shape, counted]
          definition,   \* report id -> its definition
          edits, jobs

collectVars == <<catalog, store, job, datasets, definition, edits, jobs>>

-----------------------------------------------------------------------------
(* The CommCell, external.                                                 *)

Obj(f) == [k |-> "object", of |-> f]
List(seq) == [k |-> "list", of |-> seq]

\* A parameter asks for a value, or for one of a list.
Allows(want, v) == v = want \/ (want.k = "list" /\ v \in Range(want.of))

\* The engine ignores parameters the dataset does not declare.
Serves(d, params) ==
  AtPlaces(d.rows, {i \in DOMAIN d.rows :
                      \A p \in DOMAIN params \cap d.params : Allows(params[p], d.rows[i][p])})

\* A page: the rows, and the total where this CommCell reports one.
DataGet(d, params, offset, size) ==
  LET all == Serves(d, params)
  IN  [shape |-> d.shape, rows |-> SubSeq(all, offset + 1, MinOfSet({offset + size, Len(all)})),
       total |-> IF d.counted THEN {Len(all)} ELSE {}]

AppendRow(g) ==
  /\ edits < MaxEdits /\ job # {}
  /\ \E r \in NewRows[g] :
       datasets' = [datasets EXCEPT ![g].rows = Append(@, r)]
  /\ edits' = edits + 1
  /\ UNCHANGED <<catalog, store, job, definition, jobs>>

RemoveRow(g) ==
  /\ edits < MaxEdits /\ job # {} /\ datasets[g].rows # <<>>
  /\ datasets' = [datasets EXCEPT ![g].rows = Tail(@)]
  /\ job' = {[j EXCEPT !.removed = TRUE] : j \in job}
  /\ edits' = edits + 1
  /\ UNCHANGED <<catalog, store, definition, jobs>>

RebuildReport(r) ==
  /\ edits < MaxEdits /\ job # {}
  /\ \E d \in Reports[r] \ {definition[r]} : definition' = [definition EXCEPT ![r] = d]
  /\ edits' = edits + 1
  /\ UNCHANGED <<catalog, store, job, datasets, jobs>>

CommCellEdits ==
  \/ \E g \in DOMAIN NewRows : AppendRow(g) \/ RemoveRow(g)
  \/ \E r \in DOMAIN Reports : RebuildReport(r)

-----------------------------------------------------------------------------
(* Reports Plus reading.                                                   *)

\* Dict rows in a list or under "records", lists zipped with their columns (empty
\* rows where none are named: a recipe's `fields`, which would name them, is left
\* out); anything else is no rows.
extract_records(page) ==
  CASE page.shape \in {"list", "records", "columns"} -> page.rows
    [] page.shape = "lists" -> [i \in DOMAIN page.rows |-> <<>>]
    [] OTHER -> <<>>

\* Mutant: only the total ends the reading.
fetch_page_total(fetched, page, limit, size) ==
  LET records == extract_records(page)
      all == fetched.rows \o records
      offset == fetched.offset + Len(records)
      over == (limit # 0 /\ Len(all) >= limit) \/ \E t \in page.total : offset >= t
  IN  [rows |-> IF limit # 0 /\ Len(all) > limit THEN SubSeq(all, 1, limit) ELSE all,
       offset |-> offset, done |-> over]

\* Mutant: a full page is taken for the last one.
fetch_page_once(fetched, page, limit, size) ==
  LET records == extract_records(page)
      all == fetched.rows \o records
      over == \/ records = <<>> \/ Len(records) <= size
  IN  [rows |-> IF limit # 0 /\ Len(all) > limit THEN SubSeq(all, 1, limit) ELSE all,
       offset |-> fetched.offset + Len(records), done |-> over]

\* One turn of the paging loop.  The total is only known from a dict answer.
fetch_page(fetched, page, limit, size) ==
  LET records == extract_records(page)
      all == fetched.rows \o records
      offset == fetched.offset + Len(records)
      total == IF page.shape = "list" THEN {} ELSE page.total
      over == \/ records = <<>> \/ Len(records) < size
              \/ limit # 0 /\ Len(all) >= limit
              \/ \E t \in total : offset >= t
  IN  [rows |-> IF limit # 0 /\ Len(all) > limit THEN SubSeq(all, 1, limit) ELSE all,
       offset |-> offset, done |-> over]

\* A report definition is the sequence of its dict nodes in document order, a node
\* [widget, guid, own, id, name]: what its dataSet (or else the node itself) says,
\* "" where it says nothing; own is a bare `guid`, which counts beside an id or a
\* name only.  Content that does not parse has no nodes.
dataset_info(node) ==
  [guid |-> IF node.guid = "" /\ (node.id # "" \/ node.name # "") THEN node.own ELSE node.guid,
   id |-> node.id, name |-> node.name]

discover_widgets(def) ==
  LET w == SelectSeq(def, LAMBDA n : n.widget) IN [i \in DOMAIN w |-> dataset_info(w[i])]

\* The first mention of each dataset, by guid, or else id, or else name.
discover_dataset_references(def) ==
  LET info == [i \in DOMAIN def |-> dataset_info(def[i])]
      Identity(d) == IF d.guid # "" THEN d.guid ELSE IF d.id # "" THEN d.id ELSE d.name
      First(i) == Identity(info[i]) # "" /\ \A j \in 1..(i - 1) : Identity(info[j]) # Identity(info[i])
      marked == [i \in DOMAIN info |-> [first |-> First(i), at |-> info[i]]]
      refs == SelectSeq(marked, LAMBDA m : m.first)
  IN  [i \in DOMAIN refs |-> refs[i].at]

\* name -> guid, the first guid of a name counts, widgets before references.
build_name_to_guid_map(def) ==
  LET seen == SelectSeq(discover_widgets(def) \o discover_dataset_references(def),
                        LAMBDA d : d.name # "" /\ d.guid # "")
  IN  [n \in {seen[i].name : i \in DOMAIN seen} |->
         seen[MinOfSet({i \in DOMAIN seen : seen[i].name = n})].guid]

-----------------------------------------------------------------------------
(* Shaping dataset rows, shared by rest and reportsplus_dataset.           *)

\* A number is an epoch, here counted in days; text that is no number stays.
convert_timestamp(v, fmt) ==
  IF v.k = "number" /\ fmt \in {"unix_seconds", "unix_ms"} THEN Date(1970, v.n \div 10) ELSE v

\* Absent sources leave no key; of two sources for one canonical the last counts.
apply_column_map(row, column_map) ==
  LET hit == {i \in DOMAIN column_map : column_map[i].source \in DOMAIN row}
  IN  IF column_map = <<>> THEN row
      ELSE [f \in {column_map[i].canonical : i \in hit} |->
              row[column_map[MaxOfSet({i \in hit : column_map[i].canonical = f})].source]]

WithSeverity(row, severities) ==
  LET status == Cell(row, "status")
  IN  [f \in DOMAIN row \cup {"severity"} |->
         IF f # "severity" THEN row[f]
         ELSE IF IsWord(status) /\ status.pre \in DOMAIN severities THEN severities[status.pre]
         ELSE Word("info")]

shape_row(row, instr) ==
  LET cleaned == [f \in DOMAIN row |->
         LET v == IF f \in instr.timestamp_fields THEN convert_timestamp(row[f], instr.timestamp_format)
                  ELSE row[f]
         IN  IF v \in instr.null_values THEN None ELSE v]
      mapped == apply_column_map(cleaned, instr.column_map)
  IN  IF instr.output_as = "findings" /\ instr.status_to_severity # <<>>
      THEN WithSeverity(mapped, instr.status_to_severity) ELSE mapped

shape_dataset_rows(rows, instr) == [i \in DOMAIN rows |-> shape_row(rows[i], instr)]

-----------------------------------------------------------------------------
(* Command Center answers: JSON objects and lists over scalar values.      *)

resolve_field_path(v, path) ==
  FoldLeft(LAMBDA x, key : IF x.k = "object" THEN Cell(x.of, key) ELSE None, v, path)

\* The records sit at the root or under root_key; a property table makes one row
\* of each declared setting, a single object is one row, no list is no rows.
project_table_rows(raw, spec) ==
  LET records == CASE raw.k = "list" -> raw
                   [] raw.k = "object" /\ spec.root_key # <<>> -> resolve_field_path(raw, spec.root_key)
                   [] OTHER -> None
      object == IF records.k = "object" THEN {records}
                ELSE IF raw.k = "object" /\ spec.root_key = <<>> THEN {raw} ELSE {}
      Setting(o, e) == [id |-> Word(e.key), key |-> Word(e.key), label |-> Word(e.label),
                        value |-> resolve_field_path(o, e.field)]
      seq == CASE records.k = "object" -> <<records>>
               [] records.k = "list" -> records.of
               [] OTHER -> <<>>
      Row(r) == IF r.k # "object" THEN [value |-> r]
                ELSE IF spec.columns = <<>> THEN r.of
                ELSE [c \in {spec.columns[i].id : i \in DOMAIN spec.columns} |->
                        resolve_field_path(r, spec.columns[MaxOfSet({i \in DOMAIN spec.columns :
                                                                       spec.columns[i].id = c})].field)]
  IN  IF spec.transpose # <<>> /\ object # {}
      THEN [i \in DOMAIN spec.transpose |-> Setting(CHOOSE o \in object : TRUE, spec.transpose[i])]
      ELSE [i \in DOMAIN seq |-> Row(seq[i])]

\* Any section that is no table takes the whole answer as its one record.
cc_section(raw, instr) ==
  IF instr.output_as = "table" THEN project_table_rows(raw, instr.table)
  ELSE <<IF raw.k = "object" THEN raw.of ELSE <<>>>>

DEFAULT_CC_ENDPOINT == "CommServ"
\* A declared endpoint is [path, relative]: relative when the policy accepts it.
validate_cc_endpoint(e) ==
  IF e.path = "" THEN {DEFAULT_CC_ENDPOINT} ELSE IF e.relative THEN {e.path} ELSE {}

\* What a GET through the API client may return: a missing base URL, a transport
\* and an HTTP error are results, and a body that is no JSON is no data.
api_get(e) == {[ok |-> FALSE, data |-> None], [ok |-> TRUE, data |-> None]}
              \cup {[ok |-> TRUE, data |-> raw] : raw \in Endpoints[e]}

\* A dataset address is [guid, form]; there is no default.
validate_rp_dataset_address(a) == IF a.form \in {"guid", "pair"} THEN {a.guid} ELSE {}

\* A value that is neither a scalar nor a list of scalars is refused.
Scalar(v) == v.k \in {"text", "number", "date"}
encode_dataset_parameters(params) ==
  IF \A p \in DOMAIN params :
       Scalar(params[p]) \/ (params[p].k = "list" /\ \A v \in Range(params[p].of) : Scalar(v))
  THEN {params} ELSE {}

-----------------------------------------------------------------------------
(* The collection of one subject.                                          *)

SUPPORTED_SECTION_TYPES == {"table", "findings", "metric", "card", "chart"}
CC == "rest_command_center_api"
RP == "reportsplus_dataset"

\* The highest active version, if any.
get_subject(s) ==
  LET live == {v \in catalog : v.subject = s /\ v.active}
  IN  {v \in live : \A w \in live : w.version <= v.version}

\* The route's choice of an extractor.
collect_source(entry) ==
  IF CC \in DOMAIN entry.sources THEN CC ELSE IF RP \in DOMAIN entry.sources THEN RP ELSE "rest"

Instr(j) == j.entry.sources[j.source].sections[j.i].instr
Section(j) == j.entry.sources[j.source].sections[j.i].id
SectionIds(entry, type) == {entry.sources[type].sections[i].id : i \in DOMAIN entry.sources[type].sections}

\* All sections of a report subject name one and the same report.
resolve_single_report_id(sections) ==
  LET ids == {sections[i].instr.report_id : i \in DOMAIN sections}
  IN  IF "" \in ids \/ Cardinality(ids) # 1 THEN {} ELSE ids

\* What an extractor refuses before its first request.
Refuses(entry) ==
  LET type == collect_source(entry)
      src == entry.sources[type]
  IN  \/ type \notin DOMAIN entry.sources
      \/ src.sections = <<>>
      \/ /\ type # CC
         /\ \E i \in DOMAIN src.sections : src.sections[i].type \notin SUPPORTED_SECTION_TYPES
      \/ type = CC /\ validate_cc_endpoint(src.endpoint) = {}
      \/ type = RP /\ validate_rp_dataset_address(src.address) = {}
      \/ type = "rest" /\ resolve_single_report_id(src.sections) = {}

\* Parameters are checked against the dataset only where a section declares some.
declares_parameters(src) == \E i \in DOMAIN src.sections : src.sections[i].instr.parameters # <<>>

Nothing == [rows |-> <<>>, offset |-> 0, done |-> FALSE]

\* Mutant: the stored hint is preferred to the live name.
resolve_dataset_hint_first(j) ==
  LET instr == Instr(j) IN
  IF j.source = RP THEN {j.guid}
  ELSE IF instr.dataset_guid # "" THEN {instr.dataset_guid}
  ELSE IF instr.dataset_name \in DOMAIN j.names THEN {j.names[instr.dataset_name]} ELSE {}

\* The dataset of a section: the live guid of its name, or else the stored hint.
resolve_dataset(j) ==
  LET instr == Instr(j) IN
  IF j.source = RP THEN {j.guid}
  ELSE IF instr.dataset_name \in DOMAIN j.names THEN {j.names[instr.dataset_name]}
  ELSE {instr.dataset_guid} \ {""}

Falls(j) == j.source = "rest" /\ Instr(j).dataset_name # "" /\ Instr(j).dataset_name \notin DOMAIN j.names

\* Turn to section i: {} when it cannot be addressed, which ends the collection.
next_section(j) ==
  IF j.i > Len(j.entry.sources[j.source].sections) THEN {[j EXCEPT !.pc = "store"]}
  ELSE IF j.source = RP /\ encode_dataset_parameters(Instr(j).parameters) = {} THEN {}
  ELSE {[j EXCEPT !.pc = "page", !.guid = g, !.fetched = Nothing,
                  !.warned = IF Falls(j) THEN @ \cup {Section(j)} ELSE @] : g \in resolve_dataset(j)}

\* The rows of the section are kept when they conform, or it is recorded as failed.
keep_section(j, rows) ==
  IF check_conformance(rows, Instr(j).conformance) # ""
  THEN [j EXCEPT !.failures = @ \cup {Section(j)}]
  ELSE [j EXCEPT !.sections = [t \in DOMAIN @ \cup {Section(j)} |->
                                 IF t = Section(j) THEN rows ELSE @[t]]]

Advanced(j) ==
  [j EXCEPT !.i = @ + 1, !.from = [t \in DOMAIN @ \cup {Section(j)} |->
                           IF t = Section(j) THEN [guid |-> j.guid, began |-> j.began] ELSE @[t]]]

\* A section read to its end: shaped, checked, and on to the next.
finish_section(j) ==
  LET Kept(rows) == Advanced(keep_section(j, rows))
  IN  With(With(shape_dataset_rows(j.fetched.rows, Instr(j)), Kept), next_section)

CollectBegin(s) ==
  /\ job = {} /\ jobs < MaxJobs
  /\ \E entry \in get_subject(s) :
       /\ ~Refuses(entry)
       /\ LET type == collect_source(entry)
              src == entry.sources[type]
              fresh == [kind |-> "collect", entry |-> entry, source |-> type, i |-> 1, names |-> <<>>,
                        guid |-> "", fetched |-> Nothing, began |-> 0, sections |-> <<>>,
                        failures |-> {}, warned |-> {}, from |-> <<>>, removed |-> FALSE, file |-> {},
                        pc |-> CASE type = CC -> "endpoint" [] type = "rest" -> "report"
                                 [] OTHER -> "metadata"]
          IN  job' = IF type = RP
                     THEN LET at == [fresh EXCEPT !.guid = src.address.guid]
                          IN  IF declares_parameters(src) THEN {at} ELSE next_section(at)
                     ELSE {fresh}
  /\ jobs' = jobs + 1
  /\ UNCHANGED <<catalog, store, datasets, definition, edits>>

\* The definition is read once; one that does not parse names nothing.
GetReport ==
  /\ \E j \in job : /\ j.pc = "report"
                    /\ \E r \in resolve_single_report_id(j.entry.sources["rest"].sections),
                          parses \in BOOLEAN :
                         job' = IF r \notin DOMAIN definition THEN {}
                                ELSE next_section([j EXCEPT !.names =
                                  build_name_to_guid_map(IF parses THEN definition[r] ELSE <<>>)])
  /\ UNCHANGED <<catalog, store, datasets, definition, edits, jobs>>

\* Mutant: the names are only checked for the first section.
unknown_parameters_first(j) ==
  DOMAIN j.entry.sources[RP].sections[1].instr.parameters \ datasets[j.guid].params

unknown_parameters(j) ==
  UNION {DOMAIN j.entry.sources[RP].sections[i].instr.parameters \ datasets[j.guid].params :
           i \in DOMAIN j.entry.sources[RP].sections}

\* Undeclared parameters end the collection before any row is asked for.
GetMetadata ==
  /\ \E j \in job : /\ j.pc = "metadata"
                    /\ job' = IF j.guid \notin DOMAIN datasets THEN {}
                              ELSE IF unknown_parameters(j) # {} THEN {} ELSE next_section(j)
  /\ UNCHANGED <<catalog, store, datasets, definition, edits, jobs>>

\* One page more of the section's dataset, which had `began` rows at the first.
page_read(j, d) ==
  LET instr == Instr(j)
      size == IF instr.limit # 0 THEN instr.limit ELSE PageSize
      began == IF j.fetched.offset # 0 THEN j.began ELSE Len(Serves(d, instr.parameters))
      Turn(page) == fetch_page(j.fetched, page, instr.limit, size)
      turn == With(DataGet(d, instr.parameters, j.fetched.offset, size), Turn)
  IN  [j EXCEPT !.fetched = turn, !.began = began]

FetchPage ==
  /\ \E j \in job :
       /\ j.pc = "page"
       /\ job' = IF j.guid \notin DOMAIN datasets THEN {}
                 ELSE With(page_read(j, datasets[j.guid]),
                           LAMBDA k : IF k.fetched.done THEN finish_section(k) ELSE {k})
  /\ UNCHANGED <<catalog, store, datasets, definition, edits, jobs>>

\* One answer serves all sections of a Command Center subject.
cc_sections(raw, seq) ==
  [s \in {seq[i].id : i \in DOMAIN seq} |->
     cc_section(raw, seq[CHOOSE i \in DOMAIN seq : seq[i].id = s].instr)]

GetEndpoint ==
  /\ \E j \in job : /\ j.pc = "endpoint"
                    /\ \E r \in UNION {api_get(e) : e \in
                                               validate_cc_endpoint(j.entry.sources[CC].endpoint)} :
                         job' = IF ~r.ok THEN {} ELSE
                                {[j EXCEPT !.pc = "store",
                                     !.sections = cc_sections(r.data, j.entry.sources[CC].sections)]}
  /\ UNCHANGED <<catalog, store, datasets, definition, edits, jobs>>

\* Mutant: what was read before the failure is stored.
CollectFailsPartly ==
  /\ \E j \in job : /\ j.pc \in {"report", "metadata", "page"}
                    /\ job' = {[j EXCEPT !.pc = "store"]}
  /\ UNCHANGED <<catalog, store, datasets, definition, edits, jobs>>

\* Any request may fail or time out: nothing is stored, the artifact stays.
CollectFails ==
  /\ \E j \in job : j.pc \in {"report", "metadata", "page"}
  /\ job' = {}
  /\ UNCHANGED <<catalog, store, datasets, definition, edits, jobs>>

Artifact(j) == [subject |-> j.entry.subject, entry |-> j.entry, source |-> j.source, file |-> j.file,
                sections |-> j.sections, failures |-> j.failures, warned |-> j.warned]

\* result_to_artifact is module Sections; here an artifact is its rows and failures.
CollectStore ==
  /\ \E j \in job : /\ j.kind = "collect" /\ j.pc = "store"
                    /\ store' = [store EXCEPT ![j.entry.subject] = {Artifact(j)}]
  /\ job' = {}
  /\ UNCHANGED <<catalog, datasets, definition, edits, jobs>>

CollectStep == GetReport \/ GetMetadata \/ FetchPage \/ GetEndpoint \/ CollectStore
=============================================================================
