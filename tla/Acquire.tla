------------------------------ MODULE Acquire ------------------------------
(***************************************************************************)
(* The ways an artifact comes into the store: live collections, imported   *)
(* files and fixtures, by the recipes of a catalog into which new versions *)
(* are published while they run.                                           *)
(***************************************************************************)
EXTENDS Intake

CONSTANTS Seeded,       \* the versions the migrations bring, past no gate
          Proposals,    \* [subject, version, sources, supersedes] that may be approved
          CommCells     \* the datasets a CommCell may hold when watching begins

\* A version lists the sections of a source in their order, each id once.
SectionsAreListed(sources) ==
  \A t \in DOMAIN sources :
    LET seq == sources[t].sections
    IN  /\ seq \in Seq(Range(seq))
        /\ \A i, k \in DOMAIN seq : seq[i].id = seq[k].id => i = k

\* A limit, where there is one, is a number, and the columns are a list.  No
\* parameter is named like one of the page's own, which it would overwrite.
LiveInstruction(instr) ==
  /\ instr.limit \in Nat /\ instr.column_map \in Seq(Range(instr.column_map))
  /\ DOMAIN instr.parameters \cap {"limit", "offset", "format", "cacheId"} = {}

\* The columns of a file's section are lists of entries; what an entry's transforms
\* give when iterated is a sequence, whether they are a list or not.
ColumnList(columns) ==
  /\ columns \in Seq(Range(columns))
  /\ \A c \in Range(columns) : c.transforms \in Seq(Range(c.transforms))
FileInstruction(instr) == ColumnList(instr.column_map) /\ ColumnList(instr.label_map)

\* Versions are keyed by subject and number, their sections by id: PRIMARY KEY (id,
\* version) of subjects, UNIQUE (subject_id, subject_version, section_id).  What the
\* migrations bring has passed no gate.
ASSUME AcquireAssumption ==
  /\ \A v, w \in Seeded : v.subject = w.subject /\ v.version = w.version => v = w
  /\ \A v \in Seeded \cup Proposals : v.version \in Nat /\ SectionsAreListed(v.sources)
  /\ \A v \in Seeded \cup Proposals, t \in {"rest", RP} : t \in DOMAIN v.sources =>
       \A i \in DOMAIN v.sources[t].sections : LiveInstruction(v.sources[t].sections[i].instr)
  /\ \A v \in Seeded \cup Proposals, t \in {"csv", "html"} : t \in DOMAIN v.sources =>
       \A i \in DOMAIN v.sources[t].sections :
         LET instr == v.sources[t].sections[i].instr IN instr # <<>> => FileInstruction(instr)
  /\ \A v \in Seeded : ~v.gated
  /\ \A c \in CommCells : \A g \in DOMAIN c : c[g].rows \in Seq(Range(c[g].rows))

Subjects == {v.subject : v \in Seeded \cup Proposals}

Init ==
  /\ catalog = Seeded
  /\ store = [s \in Subjects |-> {}]
  /\ job = {} /\ edits = 0 /\ jobs = 0
  /\ datasets \in CommCells
  /\ \E d \in [DOMAIN Reports -> UNION {Reports[r] : r \in DOMAIN Reports}] :
       /\ \A r \in DOMAIN Reports : d[r] \in Reports[r]
       /\ definition = d

\* Past the gate; addresses and section types are checked while the rows are written.
Publishable(p) ==
  /\ compile_validate_proposal(p.sources)
  /\ \A t \in DOMAIN p.sources : \A i \in DOMAIN p.sources[t].sections :
       p.sources[t].sections[i].type \in SUPPORTED_SECTION_TYPES
  /\ CC \in DOMAIN p.sources => validate_cc_endpoint(p.sources[CC].endpoint) # {}
  /\ RP \in DOMAIN p.sources => validate_rp_dataset_address(p.sources[RP].address) # {}

\* A new version of a subject; the one it names as superseded is active no more.
create_subject_from_proposal ==
  /\ \E p \in Proposals :
       /\ \A v \in catalog : <<v.subject, v.version>> # <<p.subject, p.version>>
       /\ Publishable(p)
       /\ LET old == IF p.supersedes THEN get_subject(p.subject) ELSE {}
          IN  catalog' = (catalog \ old) \cup {[v EXCEPT !.active = FALSE] : v \in old}
                         \cup {[subject |-> p.subject, version |-> p.version, active |-> TRUE,
                                system |-> FALSE, gated |-> TRUE, sources |-> p.sources]}
  /\ UNCHANGED <<store, job, datasets, definition, edits, jobs>>

Next ==
  \/ create_subject_from_proposal
  \/ \E s \in DOMAIN store : CollectBegin(s)
  \/ \E s \in DOMAIN store : ImportBegin(s)
  \/ \E s \in DOMAIN store : CollectFixture(s)
  \/ CollectStep \/ CollectFails \/ ImportDispatch
  \/ CommCellEdits

\* A request ends in thirty seconds at the latest, and the server goes on.
Spec == Init /\ [][Next]_collectVars /\ WF_collectVars(CollectStep \/ ImportDispatch)

-----------------------------------------------------------------------------
TypeOK ==
  /\ \A v, w \in catalog : v.subject = w.subject /\ v.version = w.version => v = w
  /\ \A s \in DOMAIN store : Cardinality(store[s]) <= 1 /\ \A a \in store[s] : a.subject = s
  /\ Cardinality(job) <= 1
  /\ \A j \in job : j.pc \in {"report", "metadata", "page", "endpoint", "store", "dispatch"}
  /\ edits \in 0..MaxEdits /\ jobs \in 0..MaxJobs

Artifacts == UNION {store[s] : s \in DOMAIN store}
HasRows(d) == d.shape \in {"list", "records", "columns"}
Live(j) == j.kind = "collect" /\ j.source \in {"rest", RP}
InstrOf(entry, type, s) ==
  LET seq == entry.sources[type].sections
  IN  seq[CHOOSE i \in DOMAIN seq : seq[i].id = s].instr

\* A section read to its end holds, without a gap or a repetition, the first rows of
\* one dataset: all it had when the reading began, up to the limit, and of what was
\* appended meanwhile a prefix.  Unless a warning says otherwise that dataset bears
\* the name the recipe gives (fetch_dataset, _fetch_section, shape_dataset_rows).
HoldsFirst(rows, d, instr, began) ==
  /\ IsPrefix(rows, shape_dataset_rows(Serves(d, instr.parameters), instr))
  /\ Len(rows) >= began \/ (instr.limit # 0 /\ Len(rows) = instr.limit)
  /\ instr.limit # 0 => Len(rows) <= instr.limit
RowsAreTheNamedDatasets ==
  \A j \in {k \in job : Live(k) /\ ~k.removed} : \A s \in DOMAIN j.sections \cap DOMAIN j.from :
    LET instr == InstrOf(j.entry, j.source, s)
        d == datasets[j.from[s].guid]
    IN  /\ HasRows(d) => HoldsFirst(j.sections[s], d, instr, j.from[s].began)
        /\ j.source = "rest" /\ instr.dataset_name # "" /\ s \notin j.warned => d.name = instr.dataset_name

\* No row of a directly addressed dataset escapes a parameter its section declares,
\* although the engine ignores names it does not know (_validate_parameter_names).
Bites(row, params) == \A p \in DOMAIN params \cap DOMAIN row : Allows(params[p], row[p])
ParametersBite ==
  \A a \in Artifacts : a.source = RP => \A s \in DOMAIN a.sections : \A i \in DOMAIN a.sections[s] :
    Bites(a.sections[s][i], InstrOf(a.entry, RP, s).parameters)

\* Every section the recipe declares is in the artifact, recorded as failed or, in a
\* file, without its heading or its instructions, and only one of these: no failure
\* on the way leaves half an artifact.
ArtifactIsWhole(a) ==
  LET absent == IF a.file = {} THEN {} ELSE a.warned
  IN  /\ DOMAIN a.sections \cap (a.failures \cup absent) = {}
      /\ DOMAIN a.sections \cup a.failures \cup absent = SectionIds(a.entry, a.source)
      /\ \A s \in absent, f \in a.file :
           LET instr == InstrOf(a.entry, a.source, s)
           IN  instr # <<>> => \A i \in DOMAIN f.headings :
                 <<f.headings[i].selector, f.headings[i].text>> # <<instr.selector, instr.title_match>>
StoredIsWhole == \A a \in Artifacts : ArtifactIsWhole(a)

\* What the gate does not read of a file's recipe, though the readers do: transforms
\* that are no list (compile_gate.py:100-102), the selector of a table.
Unread(type, instr) ==
  /\ instr # <<>>
  /\ \/ \E c \in Range(instr.column_map) \cup Range(instr.label_map) : ~c.listed
     \/ type = "html" /\ instr.selector \in InvalidSelectors

\* What the gate does read never raises again, in no file: an import by a recipe it
\* admitted raises only where a section of the recipe has what it does not read, and
\* of a CSV file, if it has sections, never ends in errors.  (A table of an HTML
\* file may: for want of a selector, of which nobody asks, or of a table below its
\* heading.)  This and RecognitionAgrees depend on the catalog alone and are looked
\* at between jobs.
OnlyUnreadRaises ==
  job = {} => \A v \in {w \in catalog : w.gated}, f \in Files :
    LET type == detect_source_type(f)
        seq == v.sources[type].sections
    IN  type \in {"html", "csv"} \cap DOMAIN v.sources =>
          With(extract_sections(f, v, type), LAMBDA got :
            /\ got.raised => \E i \in DOMAIN seq : Unread(type, seq[i].instr)
            /\ type = "csv" /\ seq # <<>> => ~got.errors)

\* A registration code shows its last segment only.
Masked(v) == v # None => v.k = "code" /\ \A n \in DOMAIN v.leading : v.leading[n] = "*"
MaskedRows(rows) == \A i \in DOMAIN rows : Masked(Cell(rows[i], "registration_code"))

\* No registration code from a file is stored as it was, whichever way its recipe
\* came into the catalog and whatever else the transforms of its column are.
NoRawCode ==
  \A a \in Artifacts : a.source \in {"csv", "html"} =>
    \A s \in DOMAIN a.sections : MaskedRows(a.sections[s])

\* A file that is recognised is recognised for an active version, and where that is
\* the only active one, naming the subject gives the same outcome
\* (dispatcher.extract_file).
RecognitionAgrees ==
  job = {} => \A f \in Files : \A e \in identify(f) :
    /\ e.active
    /\ (\A v \in catalog : v.active /\ v.subject = e.subject => v = e)
       => extract_file(f, {e.subject}) = {dispatch(f, e)}

\* Every collection and every import comes to an end, with an artifact or without.
AcquisitionEnds == job # {} ~> job = {}

-----------------------------------------------------------------------------
(* The inductive invariant behind TypeOK, StoredIsWhole and                *)
(* RecognitionAgrees.                                                      *)

CatalogIsKeyed ==
  /\ \A v, w \in catalog : v.subject = w.subject /\ v.version = w.version => v = w
  /\ \A v \in catalog : v.subject \in Subjects /\ v.version \in Nat /\ SectionsAreListed(v.sources)

SectionsOf(j) == j.entry.sources[j.source].sections

\* Of the first n sections of its recipe each is read or failed, none both.
ReadTo(j, n) ==
  /\ DOMAIN j.sections \cap j.failures = {}
  /\ DOMAIN j.sections \cup j.failures = {SectionsOf(j)[i].id : i \in 1..n}

Collecting(j) ==
  /\ j.kind = "collect" /\ j.file = {}
  /\ j.entry.subject \in Subjects /\ SectionsAreListed(j.entry.sources)
  /\ j.source \in DOMAIN j.entry.sources \cap {CC, RP, "rest"}
Reading(j) == Collecting(j) /\ j.i \in 1..(Len(SectionsOf(j)) + 1) /\ ReadTo(j, j.i - 1)

JobIsWhole(j) ==
  \/ j.kind = "import" /\ j.pc = "dispatch" /\ j.subject \in Subjects
  \/ j.pc \in {"report", "metadata"} /\ Reading(j)
  \/ j.pc = "page" /\ Reading(j) /\ j.i \in DOMAIN SectionsOf(j)
  \/ j.pc = "endpoint" /\ Collecting(j) /\ j.source = CC /\ j.failures = {}
  \/ j.pc = "store" /\ Collecting(j) /\ ReadTo(j, Len(SectionsOf(j)))

JobsAreWhole == \A j \in job : job = {j} /\ JobIsWhole(j)

StoreIsWhole ==
  /\ DOMAIN store = Subjects
  /\ \A s \in Subjects : \A a \in store[s] :
       store[s] = {a} /\ a.subject = s /\ ArtifactIsWhole(a)

AcquireIInv ==
  /\ CatalogIsKeyed /\ StoreIsWhole /\ JobsAreWhole
  /\ edits \in 0..MaxEdits /\ jobs \in 0..MaxJobs

-----------------------------------------------------------------------------
(* The inductive invariant behind RowsAreTheNamedDatasets and              *)
(* ParametersBite, relative to the one above.                              *)

\* A report calls a dataset by its name; one that does not parse calls none.
NamesAreTrue ==
  \A c \in CommCells, r \in DOMAIN Reports : \A def \in Reports[r] \cup {<<>>} :
    LET names == build_name_to_guid_map(def)
    IN  \A n \in DOMAIN names : names[n] \in DOMAIN c => c[names[n]].name = n

\* What a section asks for by parameter it does not rename, convert or drop.
Stays(p, instr) ==
  /\ p \notin instr.timestamp_fields
  /\ \A v \in instr.null_values : ~Allows(instr.parameters[p], v)
  /\ \A e \in DOMAIN instr.column_map :
       instr.column_map[e].canonical = p => instr.column_map[e].source = p
  /\ instr.output_as = "findings" => p # "severity"
ParametersStay ==
  \A v \in Seeded \cup Proposals : RP \in DOMAIN v.sources =>
    \A i \in DOMAIN v.sources[RP].sections :
      LET instr == v.sources[RP].sections[i].instr
      IN  \A p \in DOMAIN instr.parameters : Stays(p, instr)

Declared == {v.sources : v \in Seeded \cup Proposals}

\* The CommCell is one of the given ones but for its rows and the report's build.
CommCellHolds ==
  /\ \E c \in CommCells : /\ DOMAIN datasets = DOMAIN c
                          /\ \A g \in DOMAIN c : datasets[g].name = c[g].name
  /\ \A g \in DOMAIN datasets : datasets[g].rows \in Seq(Range(datasets[g].rows))
  /\ DOMAIN definition = DOMAIN Reports
  /\ \A r \in DOMAIN Reports : definition[r] \in Reports[r]

\* A list of rows, as a section holds them.
Held(rows, d, instr, began) == rows \in Seq(Range(rows)) /\ HoldsFirst(rows, d, instr, began)

\* While nothing is removed, what was fetched is the dataset's first rows.
ReadsFirst(fetched, d, instr, began) ==
  LET all == Serves(d, instr.parameters)
  IN  /\ fetched.offset \in 0..Len(all) /\ fetched.rows = SubSeq(all, 1, fetched.offset)
      /\ instr.limit # 0 => fetched.offset < instr.limit
      /\ fetched.offset # 0 => began \in 0..Len(all)

AllBite(rows, params) ==
  rows \in Seq(Range(rows)) /\ \A row \in Range(rows) : Bites(row, params)

\* The reading of a section, of the dataset its name resolved to.
PageFollows(j) ==
  LET instr == Instr(j)
      d == datasets[j.guid]
  IN  /\ j.source = "rest" /\ instr.dataset_name # "" /\ Section(j) \notin j.warned =>
           instr.dataset_name \in DOMAIN j.names /\ j.guid = j.names[instr.dataset_name]
      /\ j.guid \in DOMAIN datasets /\ HasRows(d) /\ ~j.removed =>
           ReadsFirst(j.fetched, d, instr, j.began)
      /\ j.source = RP => j.fetched.offset \in Nat /\ AllBite(j.fetched.rows, instr.parameters)

\* What was read of a section, and of which dataset.
SectionFollows(j, s) ==
  LET instr == InstrOf(j.entry, j.source, s)
      d == datasets[j.from[s].guid]
  IN  /\ s \in DOMAIN j.from /\ j.from[s].guid \in DOMAIN datasets
      /\ HasRows(d) /\ ~j.removed => Held(j.sections[s], d, instr, j.from[s].began)
      /\ NamesAreTrue /\ j.source = "rest" /\ instr.dataset_name # "" /\ s \notin j.warned =>
           d.name = instr.dataset_name
      /\ ParametersStay /\ j.source = RP => AllBite(j.sections[s], instr.parameters)

\* Once past the metadata, the dataset knows every parameter declared.
Follows(j) ==
  /\ j.entry.sources \in Declared
  /\ NamesAreTrue => \A n \in DOMAIN j.names :
       j.names[n] \in DOMAIN datasets => datasets[j.names[n]].name = n
  /\ \A s \in DOMAIN j.sections : SectionFollows(j, s)
  /\ j.source = RP /\ j.pc # "metadata" /\ j.guid \in DOMAIN datasets => unknown_parameters(j) = {}
  /\ j.pc = "page" => PageFollows(j)

StoredBite ==
  \A s \in DOMAIN store : \A a \in store[s] : ParametersStay /\ a.source = RP =>
    \A t \in DOMAIN a.sections : AllBite(a.sections[t], InstrOf(a.entry, RP, t).parameters)

JobsFollow == \A j \in job : Live(j) => Follows(j)
CatalogIsDeclared == \A v \in catalog : v.sources \in Declared

FollowIInv == AcquireIInv /\ CommCellHolds /\ StoredBite /\ CatalogIsDeclared /\ JobsFollow

-----------------------------------------------------------------------------
(* What NoRawCode and OnlyUnreadRaises rest on, beside the above.        *)

\* What is admitted was proposed and has passed the gate.
AdmittedHavePassed ==
  \A v \in catalog : v.gated =>
    \E p \in Proposals : v.sources = p.sources /\ compile_validate_proposal(p.sources)

\* No section computed for a file is kept under the sensitive name.
CountsAreNamedApart ==
  \A v \in Seeded \cup Proposals, t \in {"csv", "html"} : t \in DOMAIN v.sources =>
    \A i \in DOMAIN v.sources[t].sections :
      LET instr == v.sources[t].sections[i].instr
      IN  instr # <<>> /\ instr.format = "computed" => instr.output_field # "registration_code"
=============================================================================
