------------------------------ MODULE License ------------------------------
(***************************************************************************)
(* The live collection of the license summary, which follows no recipe     *)
(* (license_summary/collect_rest.py, normalize.py, validate.py, service.py,*)
(* artifact.py, adapters/license_summary.py): it reads the definition of   *)
(* report 206, finds its datasets by their columns, asks each of them for  *)
(* one organisation after the other until rows come, and stores what came. *)
(* A request that fails is a dataset without rows, not a failed collection.*)
(*                                                                         *)
(* Column names are shortened to identifiers.  A row is a function from    *)
(* columns to cells, and negative numbers other than -1 do not occur.      *)
(***************************************************************************)
EXTENDS ColumnMap

CONSTANTS CommCells,    \* [report, data] of the CommCells considered
          SampleLimit,  \* rows asked of a dataset (500 in the code), never paged
          MaxEdits, MaxJobs

\* A report's pages, their parts and the rows of a dataset are lists.
IsList(s) == s \in Seq(Range(s))

ASSUME LicenseAssumption ==
  /\ SampleLimit \in Nat \ {0} /\ MaxEdits \in Nat /\ MaxJobs \in Nat
  /\ \A c \in CommCells :
       /\ IsList(c.report)
       /\ \A page \in Range(c.report) : IsList(page.components) /\ IsList(page.datasets)
       /\ \A guid \in DOMAIN c.data : IsList(c.data[guid].rows)

VARIABLES commcell,     \* the CommCell collected from
          job,          \* the collection under way, if any
          stored,       \* the artifact of license_summary, if any
          edits, jobs

vars == <<commcell, job, stored, edits, jobs>>

-----------------------------------------------------------------------------
(* The datasets of the report.  A definition is a sequence of pages        *)
(* [components, datasets]: a component is [title, guid], a dataset is      *)
(* [guid, about, fields, params], about what its name speaks of, if that.  *)

OTHER_LICENSE_SECTION == "Other Licenses - current usage details"
AGENT_FEATURE_SECTION == "Agent and Feature Licenses - current usage details"
SUMMARY_SECTION_NAMES ==
  {"Capacity Licenses", "Operating Instance Licenses", "Virtualization Licenses", "User Licenses",
   "Data Insights Licenses", "Air Gap Protect Licenses", "Other Licenses"}

\* In this order: the first whose columns are all there.
PageKinds ==
  <<[kind |-> "organization", fields |-> {"OrgGUID", "Organization"}],
    [kind |-> "metadata", fields |-> {"LastCollectionTime", "LicenseExpiry"}],
    [kind |-> "other", fields |-> {"Dial", "Purchased", "PermTotal", "Eval", "Usage"}],
    [kind |-> "agent", fields |-> {"License", "PermanentTotal", "PermanentUsed", "EvaluationTotal",
                                   "EvaluationUsed", "Client", "Agent"}]>>
page_dataset_kind(fields) ==
  LET fits == {n \in DOMAIN PageKinds : PageKinds[n].fields \subseteq fields}
  IN  IF fits = {} THEN "" ELSE PageKinds[MinOfSet(fits)].kind

find_license_summary_page(definition) ==
  LET Titles(p) == {p.components[i].title : i \in DOMAIN p.components}
      pages == {n \in DOMAIN definition :
                  {OTHER_LICENSE_SECTION, AGENT_FEATURE_SECTION} \subseteq Titles(definition[n])}
  IN  IF pages = {} THEN {} ELSE {definition[MinOfSet(pages)]}

Spec_(kind, section, guid, about, params) ==
  [kind |-> kind, section |-> section, guid |-> guid, about |-> about, params |-> params]

license_summary_dataset_specs(page) ==
  LET all == [i \in DOMAIN page.datasets |->
                LET d == page.datasets[i]
                IN  Spec_(page_dataset_kind(d.fields), "", d.guid, d.about, d.params)]
  IN  AtPlaces(all, {i \in DOMAIN all : all[i].kind # ""})

\* Summary tables are components of any page, by their titles.
license_summary_summary_specs(definition) ==
  LET InPage(p) == LET tables == AtPlaces(p.components, {i \in DOMAIN p.components :
                                   p.components[i].title \in SUMMARY_SECTION_NAMES /\ p.components[i].guid # ""})
                   IN  [i \in DOMAIN tables |-> Spec_("summary", tables[i].title, tables[i].guid, "", <<>>)]
  IN  FlattenSeq([i \in DOMAIN definition |-> InPage(definition[i])])

\* The first dataset of a kind.
required_dataset_spec(specs, kind) ==
  LET of == {i \in DOMAIN specs : specs[i].kind = kind} IN IF of = {} THEN {} ELSE {specs[MinOfSet(of)]}

-----------------------------------------------------------------------------
(* Reading a dataset.                                                      *)

Blank(v) == v \in {None, Word("")}

\* What one answer holds of the rows.
Taken(rows) == SubSeq(rows, 1, MinOfSet({SampleLimit, Len(rows)}))

\* The engine ignores parameters the dataset does not have (external).
GetData(guid, params) ==
  IF guid \notin DOMAIN commcell.data THEN [shape |-> "none", rows |-> <<>>]
  ELSE LET d == commcell.data[guid]
           served == {i \in DOMAIN d.rows : \A p \in DOMAIN params \cap d.params : d.rows[i][p] = params[p]}
       IN  [shape |-> d.shape, rows |-> Taken(AtPlaces(d.rows, served))]

rows_from_payload(payload) == IF payload.shape \in {"list", "records"} THEN payload.rows ELSE <<>>

\* "GUID", or else the first parameter there is.
guid_parameter_name(spec) ==
  IF "GUID" \in Range(spec.params) THEN {"GUID"}
  ELSE IF spec.params = <<>> THEN {} ELSE {spec.params[1]}

\* Mutant: the organisations in the order of their rows.
organization_guid_candidates_unordered(rows) ==
  LET guids == [i \in DOMAIN rows |-> Cell(rows[i], "OrgGUID")]
      First(i) == ~Blank(guids[i]) /\ \A j \in 1..(i - 1) : guids[j] # guids[i]
  IN  AtPlaces(guids, {i \in DOMAIN rows : First(i)})

\* The organisations, each once, the CommCell's own before the others.
IsOwn(row) == Cell(row, "OrgGUID") = Word("-1") \/ Cell(row, "Organization") = Word("commcell")
organization_guid_candidates(rows) ==
  LET guids == [i \in DOMAIN rows |-> Cell(rows[i], "OrgGUID")]
      First(i) == ~Blank(guids[i]) /\ \A j \in 1..(i - 1) : guids[j] # guids[i]
  IN  AtPlaces(guids, {i \in DOMAIN rows : First(i) /\ IsOwn(rows[i])})
      \o AtPlaces(guids, {i \in DOMAIN rows : First(i) /\ ~IsOwn(rows[i])})

-----------------------------------------------------------------------------
(* Cells of license rows.                                                  *)

\* The leading number of a cell, cut to an integer; a raw zero is no text at all.
parse_number(v) ==
  CASE v.k = "number" /\ v.n < 0 -> {v}
    [] v.k = "number" /\ v.n > 0 -> {Number(v.n - (v.n % 10))}
    [] v.k = "text" /\ v.pre = "" /\ v.comps # <<>> -> {Number(10 * v.comps[1])}
    [] OTHER -> {}

NumberOrNone(v) == IF parse_number(v) = {} THEN None ELSE CHOOSE n \in parse_number(v) : TRUE

\* The letters a text ends with; of the units, only "source VMs" has a blank.
maybe_unit_from_value(v) ==
  IF v.k # "text" THEN ""
  ELSE IF v.post = "source VMs" THEN "VMs"
  ELSE IF v.post # "" THEN v.post
  ELSE IF v.comps = <<>> THEN v.pre ELSE ""

license_usage_unit(code) ==
  CASE code \in {100031, 100016, 100015, -1} -> "TB"
    [] code \in {200003, 100027, 200001, 100021} -> "VMs"
    [] code \in {100030, 200002, 100029, 200017} -> "clients"
    [] code \in {100026, 100025} -> "users"
    [] code = 100017 -> "millions"
    [] code = 200016 -> "source VMs"
    [] code \in {100019, 100033} -> "instances"
    [] OTHER -> ""

\* What is no number as text: nothing is empty, and a raw zero is "0" after all.
Said(v) == IF v = None THEN Word("") ELSE IF v = Number(0) THEN Text("", <<0>>, "") ELSE v

\* Mutant: -1 is a number like any other.
stringify_minus_one(v) ==
  IF parse_number(v) # {}
  THEN Text("", <<With(NumberOrNone(v), LAMBDA n : IF n.n < 0 THEN 1 ELSE n.n \div 10)>>, "")
  ELSE Said(v)

\* -1 reads "Unlimited", which is no number any more.
stringify_numeric_or_unlimited(v) ==
  IF parse_number(v) = {Number(-10)} THEN Word("Unlimited")
  ELSE IF parse_number(v) # {} THEN Text("", <<NumberOrNone(v).n \div 10>>, "")
  ELSE Said(v)

format_other_license_value(v, type) ==
  LET text == stringify_numeric_or_unlimited(v)
      unit == IF parse_number(type) = {} THEN "" ELSE license_usage_unit(NumberOrNone(type).n \div 10)
  IN  IF unit = "" THEN text ELSE [text EXCEPT !.post = unit]

normalize_other_license_record(license, available, used) ==
  LET unit == maybe_unit_from_value(available)
  IN  [license |-> license, available_total |-> NumberOrNone(available), used |-> NumberOrNone(used),
       unit |-> IF unit # "" THEN unit ELSE maybe_unit_from_value(used)]

normalize_agent_feature_record(license, permanent, permanent_used, term, term_used) ==
  [license |-> license, permanent_total |-> NumberOrNone(permanent),
   permanent_used |-> NumberOrNone(permanent_used), term_total |-> NumberOrNone(term),
   term_used |-> NumberOrNone(term_used)]

normalize_live_other_license_row(row) ==
  normalize_other_license_record(Cell(row, "Dial"),
    format_other_license_value(Cell(row, "Purchased"), Cell(row, "LicUsageType")),
    format_other_license_value(Cell(row, "Usage"), Cell(row, "LicUsageType")))

normalize_live_agent_feature_row(row) ==
  normalize_agent_feature_record(Cell(row, "License"),
    stringify_numeric_or_unlimited(Cell(row, "PermanentTotal")), Cell(row, "PermanentUsed"),
    stringify_numeric_or_unlimited(Cell(row, "EvaluationTotal")), Cell(row, "EvaluationUsed"))

\* Texts stay texts here; an empty one is nothing.
normalize_live_workload_summary_row(row) ==
  LET Present(v) == IF v = Word("") THEN None ELSE v
      Formatted(f) == Present(format_other_license_value(Cell(row, f), Cell(row, "LicUsageType")))
      dial == Cell(row, "Dial")
  IN  [license |-> IF Blank(dial) THEN Cell(row, "License") ELSE dial,
       entitlement_value |-> Formatted("Purchased"), used |-> Formatted("Usage"),
       status |-> Present(stringify_numeric_or_unlimited(Cell(row, "Summary")))]

\* A row of a dataset of no such kind still counts when its dataset's name, or its
\* first row's columns, say what it is.
rest_dataset_kind(spec, rows) ==
  LET Has(columns) == rows # <<>> /\ columns \subseteq DOMAIN rows[1]
  IN  IF spec.about # "" THEN spec.about
      ELSE IF Has({"License", "AvailableTotal", "Used"}) THEN "other"
      ELSE IF Has({"License", "PermanentTotal", "PermanentUsed", "TermTotal", "TermUsed"})
      THEN "agent" ELSE ""

MetadataColumns ==
  [commcell_name |-> {"CommCellName", "CommCell", "DataSource"}, commcell_version |-> {"CommCellVersion", "Version"},
   license_expiry |-> {"LicenseExpiry"}, last_collection_time |-> {"LastCollectionTime"}]

\* The first value of all executions, in the order of the definition; one row is
\* taken to have one of the columns of a field only.
metadata_from_execution_rows(executions) ==
  LET rows == FlattenSeq([i \in DOMAIN executions |-> executions[i].rows])
      Has(i, f) == {c \in MetadataColumns[f] : ~Blank(Cell(rows[i], c))}
      At(f) == {i \in DOMAIN rows : Has(i, f) # {}}
  IN  [f \in DOMAIN MetadataColumns |->
         IF At(f) = {} THEN None
         ELSE LET i == MinOfSet(At(f)) IN rows[i][CHOOSE c \in Has(i, f) : TRUE]]

-----------------------------------------------------------------------------
(* What comes of the executions.  specs and executions run in parallel; all*)
(* datasets of one kind share the execution of the first of them.          *)

Named(rows) == AtPlaces(rows, {i \in DOMAIN rows : ~Blank(rows[i].license)})

license_rows(kind, rows) ==
  [n \in DOMAIN rows |-> IF kind = "other" THEN normalize_live_other_license_row(rows[n])
                         ELSE normalize_live_agent_feature_row(rows[n])]
legacy_rows(kind, rows) ==
  [n \in DOMAIN rows |->
     LET c(column) == Cell(rows[n], column)
     IN  IF kind = "other" THEN normalize_other_license_record(c("License"), c("AvailableTotal"), c("Used"))
         ELSE normalize_agent_feature_record(c("License"), c("PermanentTotal"), c("PermanentUsed"),
                                             c("TermTotal"), c("TermUsed"))]
legacy_kind(spec, execution) ==
  IF execution.ok /\ spec.kind \in {"organization", "metadata"}
  THEN rest_dataset_kind(spec, execution.rows) ELSE ""

\* The rows of one list, in the order of the definition's datasets.
list_rows(kind, specs, executions) ==
  FlattenSeq([i \in DOMAIN specs |->
    IF specs[i].kind = kind THEN license_rows(kind, executions[i].rows)
    ELSE IF legacy_kind(specs[i], executions[i]) = kind THEN legacy_rows(kind, executions[i].rows) ELSE <<>>])

normalize_license_summary_rest_extraction(specs, executions) ==
  LET Summary(rows) == [n \in DOMAIN rows |-> normalize_live_workload_summary_row(rows[n])]
      summaries == {i \in DOMAIN specs : specs[i].kind = "summary" /\ executions[i].rows # <<>>}
      Section(name) == FlattenSeq([i \in DOMAIN specs |->
         IF i \in summaries /\ specs[i].section = name
         THEN Summary(executions[i].rows) ELSE <<>>])
  IN  [metadata |-> metadata_from_execution_rows(executions),
       other |-> Named(list_rows("other", specs, executions)),
       agent |-> Named(list_rows("agent", specs, executions)),
       workload |-> [name \in {specs[i].section : i \in summaries} |-> Named(Section(name))]]

\* The commcell has a name even where none was read.
persist_license_summary_artifact(artifact) ==
  [artifact EXCEPT !.metadata.commcell_name = IF @ = None THEN Word("Unknown CommCell") ELSE @]

\* Of an agent's rows the first of each license is kept.
FirstOfEach(rows) ==
  AtPlaces(rows, {i \in DOMAIN rows : \A j \in 1..(i - 1) : rows[j].license # rows[i].license})
LicensesIn(rows) == {rows[i].license : i \in DOMAIN rows}

\* The canonical sections; empty ones are left out, and a workload section is named by
\* its title in snake case, so that "Other Licenses" bears the id of the table.
adapt(artifact) ==
  [commcell_info |-> artifact.metadata, other_licenses |-> artifact.other,
   agent_feature_licenses |-> FirstOfEach(artifact.agent),
   workload |-> [n \in {m \in DOMAIN artifact.workload : artifact.workload[m] # <<>>} |->
                   artifact.workload[n]],
   other_license_count |-> Len(artifact.other),
   agent_feature_count |-> Cardinality(LicensesIn(artifact.agent))]

-----------------------------------------------------------------------------
(* The collection.                                                         *)

Init == commcell \in CommCells /\ job = {} /\ stored = {} /\ edits = 0 /\ jobs = 0

\* quick_hc_license_summary_collect; the gate and the token are module Workspace.
CollectBegin ==
  /\ job = {} /\ jobs < MaxJobs
  /\ job' = {[pc |-> "report", specs |-> <<>>, plan |-> <<>>, i |-> 1, attempt |-> 1,
              candidates |-> <<>>, executions |-> <<>>, failed |-> FALSE, moved |-> FALSE]}
  /\ jobs' = jobs + 1
  /\ UNCHANGED <<commcell, stored, edits>>

Kinds == <<"organization", "metadata", "other", "agent">>

\* What is asked for, in this order: the first dataset of each kind, then every
\* summary table; nothing when the page or one of the kinds is missing.
requests(definition) ==
  LET summaries == license_summary_summary_specs(definition)
      Found(page, k) == required_dataset_spec(license_summary_dataset_specs(page), k)
      Whole(page) == \A n \in DOMAIN Kinds : Found(page, Kinds[n]) # {}
  IN  {[specs |-> license_summary_dataset_specs(page) \o summaries,
        plan |-> [n \in DOMAIN Kinds |-> CHOOSE s \in Found(page, Kinds[n]) : TRUE] \o summaries] :
         page \in {p \in find_license_summary_page(definition) : Whole(p)}}

\* A report that cannot be read builds an artifact without rows, which is refused.
GetReport ==
  /\ \E j \in job : /\ j.pc = "report"
                    /\ \E ok \in BOOLEAN :
                         job' = {[j EXCEPT !.pc = "data", !.specs = r.specs, !.plan = r.plan] :
                                   r \in IF ok THEN requests(commcell.report) ELSE {}}
  /\ UNCHANGED <<commcell, stored, edits, jobs>>

\* One request: a dataset with a parameter is asked for one organisation after the
\* other until rows come, the last attempt counts if none do, and without any
\* organisation it is asked once without parameters, as the others are.
GetDatasetData ==
  /\ \E j \in job : \E ok \in BOOLEAN :
       LET spec == j.plan[j.i]
           asks == j.i \in 2..4 /\ guid_parameter_name(spec) # {}
           params == [p \in IF asks /\ j.candidates # <<>> THEN guid_parameter_name(spec) ELSE {} |->
                        j.candidates[j.attempt]]
           rows == IF ok THEN rows_from_payload(GetData(spec.guid, params)) ELSE <<>>
           again == asks /\ rows = <<>> /\ j.attempt < Len(j.candidates)
       IN  /\ j.pc = "data" /\ j.i <= Len(j.plan)
           /\ job' = {[j EXCEPT !.failed = @ \/ ~ok,
                                !.candidates = IF j.i = 1 THEN organization_guid_candidates(rows) ELSE @,
                                !.attempt = IF again THEN @ + 1 ELSE 1,
                                !.i = IF again THEN @ ELSE @ + 1,
                                !.executions = IF again THEN @ ELSE Append(@, [ok |-> ok, rows |-> rows])]}
  /\ UNCHANGED <<commcell, stored, edits, jobs>>

\* The execution of each dataset of the definition: of its kind, or of the first
\* summary table that is the same.
ExecutionOf(j, spec) ==
  j.executions[MinOfSet({n \in DOMAIN j.plan : IF spec.kind = "summary" THEN j.plan[n] = spec
                                                ELSE j.plan[n].kind = spec.kind})]

\* Without a single license row the collection is refused and the artifact stays.
collect_from_rest ==
  /\ \E j \in job :
       /\ j.pc = "data" /\ j.i > Len(j.plan)
       /\ LET executions == [n \in DOMAIN j.specs |-> ExecutionOf(j, j.specs[n])]
              normalized == normalize_license_summary_rest_extraction(j.specs, executions)
          IN  stored' = IF normalized.other = <<>> /\ normalized.agent = <<>> THEN stored
                        ELSE {[sections |-> adapt(persist_license_summary_artifact(normalized)),
                               failed |-> j.failed, moved |-> j.moved]}
  /\ job' = {}
  /\ UNCHANGED <<commcell, edits, jobs>>

\* Its administrators change the CommCell while it is being asked; moved says that it
\* is no longer the one an artifact, or a part of it, was read from.
CommCellChanges ==
  /\ edits < MaxEdits /\ job # {}
  /\ \E c \in CommCells \ {commcell} : commcell' = c
  /\ job' = {[j EXCEPT !.moved = TRUE] : j \in job}
  /\ stored' = {[a EXCEPT !.moved = TRUE] : a \in stored}
  /\ edits' = edits + 1
  /\ UNCHANGED jobs

Next == CollectBegin \/ GetReport \/ GetDatasetData \/ collect_from_rest \/ CommCellChanges

Spec == Init /\ [][Next]_vars

-----------------------------------------------------------------------------
(* What a stored license summary is.                                       *)

PlanNow == CHOOSE r \in requests(commcell.report) : TRUE
DataOf(n) == commcell.data[PlanNow.plan[n].guid]
Listed == {r \in Range(DataOf(1).rows) : ~Blank(r.OrgGUID)}
OwnGuids == {r.OrgGUID : r \in {o \in Listed : o.OrgGUID = Word("-1") \/ o.Organization = Word("commcell")}}
LicensesOf(n, guid) ==
  LET rows == DataOf(n).rows IN AtPlaces(rows, {i \in DOMAIN rows : rows[i].GUID = guid})

\* The organisations whose rows dataset n may contribute: the CommCell's own if it
\* has rows there, else any that is listed.
Entitled(n) == LET own == {g \in OwnGuids : LicensesOf(n, g) # <<>>}
                   all == {r.OrgGUID : r \in Listed}
               IN  IF own # {} THEN own ELSE IF \E g \in all : LicensesOf(n, g) # <<>>
                   THEN {g \in all : LicensesOf(n, g) # <<>>} ELSE all

\* The rows organisation g has in a list, and what the code shows of an amount.
NamedRowsOf(n, g, column) == LET rows == Taken(LicensesOf(n, g))
                             IN  AtPlaces(rows, {i \in DOMAIN rows : ~Blank(Cell(rows[i], column))})
Amount(v) == IF v = Number(-10) \/ v.k # "number" THEN None ELSE v

OtherOfOne(sections) ==
  LET stands == sections.other_licenses
  IN  \E g \in Entitled(3) : LET rows == NamedRowsOf(3, g, "Dial") IN
        [i \in DOMAIN stands |-> <<stands[i].license, stands[i].available_total, stands[i].used>>]
        = [i \in DOMAIN rows |-> <<rows[i].Dial, Amount(rows[i].Purchased), Amount(rows[i].Usage)>>]
AgentsOfOne(sections) ==
  LET stands == sections.agent_feature_licenses
  IN  \E g \in Entitled(4) : LET rows == NamedRowsOf(4, g, "License") IN
        /\ sections.agent_feature_count = Len(stands)
        /\ {<<r.license, r.permanent_total>> : r \in Range(stands)}
           \subseteq {<<r.License, Amount(r.PermanentTotal)>> : r \in Range(rows)}
        /\ {r.license : r \in Range(stands)} = {r.License : r \in Range(rows)}

\* A stored license list is the list of one organisation, in full up to the limit, and
\* never of another where the CommCell's own has licenses, whatever the order in which
\* the report lists them; an amount is the CommCell's, and none where it is unlimited
\* or no number (collect_license_summary_rest, _execute_with_guid_candidates).  Stated
\* of collections without a failed request or a change of the CommCell, and of lists
\* one dataset serves: two datasets with one list's columns are both given the rows of
\* the first, which are then stored twice.
Once(kind) == Cardinality({i \in DOMAIN PlanNow.specs : PlanNow.specs[i].kind = kind}) = 1
Asked(n) == "GUID" \in DataOf(n).params /\ Listed # {}
LicensesOfOneOrganisation ==
  \A a \in {b \in stored : ~b.failed /\ ~b.moved} :
    /\ Once("other") /\ Asked(3) => OtherOfOne(a.sections)
    /\ Once("agent") /\ Asked(4) => AgentsOfOne(a.sections)

-----------------------------------------------------------------------------
(* What LicensesOfOneOrganisation takes for granted of the CommCells, for  *)
(* the code asks none of it.                                               *)

DataIn(c, r, n) == c.data[r.plan[n].guid]

\* The datasets of the report are there, those of the organisations and the lists can
\* be read, and the report declares the parameter GUID of a list that has one.
DatasetsAreThere ==
  \A c \in CommCells : \A r \in requests(c.report) :
    /\ \A n \in 1..4 : r.plan[n].guid \in DOMAIN c.data
    /\ \A n \in {1, 3, 4} : DataIn(c, r, n).shape \in {"list", "records"}
    /\ \A n \in {3, 4} : "GUID" \in DataIn(c, r, n).params => "GUID" \in Range(r.plan[n].params)

\* One answer names every organisation, each under one name only.
OrganisationsFit ==
  \A c \in CommCells : \A r \in requests(c.report) :
    LET rows == DataIn(c, r, 1).rows
    IN  \A i \in DOMAIN rows :
          /\ {"OrgGUID", "Organization"} \subseteq DOMAIN rows[i]
          /\ \E k \in DOMAIN rows : k <= SampleLimit /\ rows[k].OrgGUID = rows[i].OrgGUID
          /\ \A k \in DOMAIN rows :
               rows[k].OrgGUID = rows[i].OrgGUID => rows[k].Organization = rows[i].Organization

\* The amounts of a list are whole numbers, "unlimited", or missing.
WholeAmount(v) == v = None \/ (v = Number(v.n) /\ v.n \in Int /\ v.n % 10 = 0 /\ v.n >= -10)
AmountsAreWhole ==
  \A c \in CommCells : \A r \in requests(c.report) :
    /\ \A row \in Range(DataIn(c, r, 3).rows) :
         {"Purchased", "Usage"} \subseteq DOMAIN row
         /\ WholeAmount(row.Purchased) /\ WholeAmount(row.Usage)
    /\ \A row \in Range(DataIn(c, r, 4).rows) : "PermanentTotal" \in DOMAIN row /\ WholeAmount(row.PermanentTotal)

\* No other dataset of the report passes for a list by its name or columns.
ListsAreApart ==
  \A c \in CommCells : \A r \in requests(c.report) :
    /\ \A i \in DOMAIN r.specs : r.specs[i].kind \in {"organization", "metadata"} =>
         r.specs[i].about \notin {"other", "agent"}
    /\ \A n \in {1, 2} : \A row \in Range(DataIn(c, r, n).rows) : "License" \notin DOMAIN row

-----------------------------------------------------------------------------
(* The inductive invariant: what a collection without a failed request or  *)
(* a change of the CommCell has in hand.                                   *)

AnswerTo(n, params) == rows_from_payload(GetData(PlanNow.plan[n].guid, params))
Organisations == organization_guid_candidates(AnswerTo(1, <<>>))
RowsFor(n, guid) == AnswerTo(n, [p \in {"GUID"} |-> guid])
AskedByGuid(n) == "GUID" \in DataOf(n).params /\ Organisations # <<>>

\* The rows are of the first organisation that has any, or of the last.
OfFirstWithRows(n, rows) ==
  \E m \in DOMAIN Organisations :
    /\ rows = RowsFor(n, Organisations[m])
    /\ rows # <<>> \/ m = Len(Organisations)
    /\ \A a \in 1..(m - 1) : RowsFor(n, Organisations[a]) = <<>>

JobFields == {"pc", "specs", "plan", "i", "attempt", "candidates", "executions", "failed", "moved"}
ReadSoFar(j) ==
  /\ requests(commcell.report) # {} /\ j.specs = PlanNow.specs /\ j.plan = PlanNow.plan
  /\ j.i \in 1..(Len(j.plan) + 1) /\ j.attempt \in Nat \ {0}
  /\ IsList(j.executions) /\ Len(j.executions) = j.i - 1
  /\ j.i > 1 => j.candidates = Organisations /\ j.executions[1].rows = AnswerTo(1, <<>>)
  /\ j.i > 2 => j.executions[2].rows \in Seq(Range(DataOf(2).rows))
  /\ \A n \in {3, 4} : AskedByGuid(n) =>
       /\ n < j.i => OfFirstWithRows(n, j.executions[n].rows)
       /\ n = j.i => /\ j.attempt <= Len(Organisations)
                     /\ \A a \in 1..(j.attempt - 1) : RowsFor(n, Organisations[a]) = <<>>
JobReads ==
  \A j \in job : /\ DOMAIN j = JobFields /\ j.pc \in {"report", "data"}
                 /\ j.failed \in BOOLEAN /\ j.moved \in BOOLEAN
                 /\ j.pc = "report" => j.i = 1 /\ j.attempt = 1 /\ j.executions = <<>>
                 /\ j.pc = "data" /\ ~j.failed /\ ~j.moved => ReadSoFar(j)
StoredFields == {"sections", "failed", "moved"}
LicenseIInv == /\ commcell \in CommCells /\ JobReads
               /\ \A a \in stored : DOMAIN a = StoredFields
               /\ LicensesOfOneOrganisation
=============================================================================
