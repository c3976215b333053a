------------------------------- MODULE Intake -------------------------------
(***************************************************************************)
(* Artifacts from files: what kind of file it is and whose                 *)
(* (extractors/recognition.py), how its sections are read (csv.py,         *)
(* html.py), which outcomes end without an artifact (dispatcher.py), the   *)
(* fixtures of the test subjects (fixture.py) and the upload route         *)
(* (web/routes/quick_hc.py).                                               *)
(*                                                                         *)
(* A file is [ext, sniff, words, selectors, grid, tables, headings, pairs, *)
(* rows].  Of an HTML file, a heading is [selector, text, scope, following]*)
(* with the positions of the tables in its section and of the one after    *)
(* it, a table is [head, body], head {} without a thead and {its rows}     *)
(* with one; of a CSV file, rows are the stripped cells, <<>> for a blank  *)
(* line.  pairs are its "label: value" lines.      *)
(* Names are compared as the code compares them, in lower case.            *)
(***************************************************************************)
EXTENDS Collect

CONSTANTS Files,            \* the files that may be uploaded
          InvalidSelectors  \* the texts that are no CSS selector: soup.select raises

-----------------------------------------------------------------------------
(* Recognition.                                                            *)

\* The extension decides, or else the first bytes.
detect_source_type(f) == IF f.ext \in {"html", "csv"} THEN f.ext ELSE f.sniff

\* A row as the names of its cells, and the header of a table: the first row of
\* its head or, without one, of the table.  A head without a row leaves nothing.
Names(row) == [i \in DOMAIN row |-> IF IsWord(row[i]) THEN row[i].pre ELSE ""]
HeaderRows(table) == IF table.head = {} THEN table.body ELSE CHOOSE rows \in table.head : TRUE
HeaderOf(table) == IF HeaderRows(table) = <<>> THEN <<>> ELSE Names(HeaderRows(table)[1])

\* One hint of a source, against the file.
hint_passes(f, hint, v) ==
  CASE hint \in {"title_contains", "first_line_contains"} -> v \in f.words
    [] hint = "has_selector" -> v \in f.selectors
    [] hint = "grid_present" -> v = f.grid
    [] hint = "table_count" -> v = Len(f.tables)
    [] hint = "first_table_headers" ->
         f.tables # <<>> /\ v \subseteq Range(HeaderOf(f.tables[1]))
    [] hint = "section_label" -> \E i \in DOMAIN f.rows : Names(f.rows[i]) = <<v>>
    [] hint = "section_index" -> TRUE

\* Every hint must pass; the score is their number, but for section_index.
evaluate_hints(f, hints) ==
  IF \A h \in DOMAIN hints : hint_passes(f, h, hints[h])
  THEN {Cardinality(DOMAIN hints \ {"section_index"})} ELSE {}

\* The sources of active subjects with hints for this kind of file.
load_candidates(type) ==
  {v \in catalog : v.active /\ type \in DOMAIN v.sources /\ v.sources[type].hints # <<>>}

\* A hint that is no selector raises, unless the hint before it has failed.
hints_raise(f, hints) ==
  /\ "has_selector" \in DOMAIN hints /\ hints["has_selector"] \in InvalidSelectors
  /\ "title_contains" \in DOMAIN hints => hint_passes(f, "title_contains", hints["title_contains"])

\* The best score; the table's order, which is nobody's promise, breaks ties.  One
\* candidate that raises ends the recognition for all.
identify(f) ==
  LET type == detect_source_type(f)
      Score(v) == evaluate_hints(f, v.sources[type].hints)
      matches == {v \in load_candidates(type) : Score(v) # {}}
  IN  IF \E v \in load_candidates(type) : hints_raise(f, v.sources[type].hints) THEN {}
      ELSE {v \in matches : \A w \in matches, n \in Score(v) : \A m \in Score(w) : m <= n}

-----------------------------------------------------------------------------
(* CSV sections.  A reader returns {} when it raises, and otherwise its    *)
(* rows; no rows is a warning.                                             *)

Blank(row) == \A i \in DOMAIN row : row[i] = Word("")

\* The first row that has every column is the header; data ends at a blank line.
extract_single_table(rows, instr) ==
  LET Heads(i) == header_has_all(instr.column_map, Range(Names(rows[i])))
      heads == {i \in DOMAIN rows : ~Blank(rows[i]) /\ Heads(i)}
      h == MinOfSet(heads)
      ends == {i \in (h + 1)..Len(rows) : Blank(rows[i])} \cup {Len(rows) + 1}
  IN  IF heads = {} THEN {<<>>}
      ELSE extract_rows(instr.column_map, Names(rows[h]), SubSeq(rows, h + 1, MinOfSet(ends) - 1),
                        instr.null_values, FALSE)

\* The runs of rows between blank lines, as intervals of positions.
BlankLineSections(rows) ==
  LET Starts(i) == ~Blank(rows[i]) /\ (i = 1 \/ Blank(rows[i - 1]))
      EndOf(i) == MinOfSet({j \in i..Len(rows) : j = Len(rows) \/ Blank(rows[j + 1])})
      starts == SetToSortSeq({i \in DOMAIN rows : Starts(i)}, <)
  IN  [n \in DOMAIN starts |-> SubSeq(rows, starts[n], EndOf(starts[n]))]

\* Found by its label or its index; a label, a header and a row at least.
extract_multi_section(rows, instr) ==
  LET secs == BlankLineSections(rows)
      hits == IF instr.section_label # "" THEN {i \in DOMAIN secs : Names(secs[i][1])[1] = instr.section_label}
              ELSE {instr.section_index} \cap DOMAIN secs
      target == secs[MinOfSet(hits)]
      fuzzy == \E i \in DOMAIN instr.column_map : instr.column_map[i].fuzzy
  IN  IF hits = {} \/ Len(target) < 3 THEN {<<>>}
      ELSE extract_rows(instr.column_map, Names(target[2]), SubSeq(target, 3, Len(target)),
                        instr.null_values, fuzzy)

csv_section(f, instr, sections) ==
  CASE instr.format = "single_table" -> extract_single_table(f.rows, instr)
    [] instr.format = "multi_section" -> extract_multi_section(f.rows, instr)
    [] instr.format = "metadata_pairs" -> extract_metadata_pairs(f.pairs, instr.label_map, instr.null_values)
    [] instr.format = "computed" -> extract_computed(instr, sections)

-----------------------------------------------------------------------------
(* HTML sections.                                                          *)

\* The table a heading labels, found within its own section.
find_section_table(f, instr) ==
  LET hits == {i \in DOMAIN f.headings : /\ f.headings[i].selector = instr.selector
                                         /\ f.headings[i].text = instr.title_match}
      h == f.headings[MinOfSet(hits)]
  IN  IF hits = {} THEN {}
      ELSE IF h.following \in h.scope THEN {h.following}
      ELSE IF h.scope # {} THEN {MinOfSet(h.scope)} ELSE {0}

extract_table_rows(table, instr) ==
  IF HeaderRows(table) = <<>> THEN {<<>>}
  ELSE extract_rows(instr.column_map, HeaderOf(table),
                    IF table.head # {} THEN table.body ELSE Tail(table.body), instr.null_values, FALSE)

\* A missing heading leaves the section out; one without a table is an error, and
\* so is a recipe without a selector; one that is no selector raises.
html_outcome(f, instr) ==
  IF instr.format \in {"metadata_pairs", "computed"} THEN "read"
  ELSE IF instr.selector = "" \/ instr.title_match = "" THEN "error"
  ELSE IF instr.selector \in InvalidSelectors THEN "raise"
  ELSE LET t == find_section_table(f, instr)
       IN  IF t = {} THEN "omitted" ELSE IF t = {0} THEN "error" ELSE "read"

html_section(f, instr, sections) ==
  CASE instr.format = "metadata_pairs" -> extract_metadata_pairs(f.pairs, instr.label_map, instr.null_values)
    [] instr.format = "computed" -> extract_computed(instr, sections)
    [] OTHER -> UNION {extract_table_rows(f.tables[t], instr) : t \in find_section_table(f, instr)}

-----------------------------------------------------------------------------
(* Extraction of a file, section after section in their order.             *)

\* What becomes of one section: read, omitted, an error that lets the others go on,
\* or a raise that ends everything.
section_outcome(f, type, instr) ==
  IF instr = <<>> THEN "omitted"
  ELSE IF type = "html" THEN html_outcome(f, instr)
  ELSE IF instr.format \notin AllowedFormats.csv THEN "error" ELSE "read"

\* The HTML reader grades the rows of tables only.
WithStatusSeverity(rows, type, instr) ==
  IF /\ instr.output_as = "findings" /\ instr.status_to_severity # <<>>
     /\ type = "html" => instr.format = "table"
  THEN [i \in DOMAIN rows |-> WithSeverity(rows[i], instr.status_to_severity)] ELSE rows

\* The next section: after a raise there is none, an error lets the others go on.
extract_next(f, type, before, sec) ==
  LET Read(sections) == IF type = "csv" THEN csv_section(f, sec.instr, sections)
                        ELSE html_section(f, sec.instr, sections)
      out == section_outcome(f, type, sec.instr)
      Add(acc, read) ==
        IF read = {} THEN [acc EXCEPT !.raised = TRUE]
        ELSE LET rows == WithStatusSeverity(CHOOSE x \in read : TRUE, type, sec.instr)
             IN  [acc EXCEPT !.sections = [s \in DOMAIN @ \cup {sec.id} |-> IF s = sec.id THEN rows ELSE @[s]]]
      Step(acc) ==
        CASE acc.raised -> acc
          [] ~acc.raised /\ out = "raise" -> [acc EXCEPT !.raised = TRUE]
          [] ~acc.raised /\ out = "error" -> [acc EXCEPT !.errors = TRUE]
          [] ~acc.raised /\ out = "omitted" -> [acc EXCEPT !.omitted = @ \cup {sec.id}]
          [] OTHER -> With(Read(acc.sections), LAMBDA read : Add(acc, read))
  IN  With(before, Step)

\* What there is after each section, and before the first.
extracted(f, type, seq) ==
  LET upto[n \in 0..Len(seq)] ==
        IF n = 0 THEN [sections |-> <<>>, omitted |-> {}, errors |-> seq = <<>>, raised |-> FALSE]
        ELSE extract_next(f, type, upto[n - 1], seq[n])
  IN  upto

extract_sections(f, entry, type) ==
  LET seq == entry.sources[type].sections IN extracted(f, type, seq)[Len(seq)]

\* Mutant: the first version, whatever is active.
get_active_version_first(s) == {v \in catalog : v.subject = s /\ v.version = 1}

get_active_version(s) == get_subject(s)

\* Extractability is the source's; a kind of file the subject has no source for
\* passes here and fails for want of instructions.
get_extractability(entry, type) ==
  type \in DOMAIN entry.sources => entry.sources[type].extractable

\* How the import of a file for one version ends: "recognised" only, "errors",
\* "raised" or "artifact".
dispatch(f, entry) ==
  LET type == detect_source_type(f)
      No(end) == [end |-> end, artifact |-> {}]
      Whole(got) == [end |-> "artifact", artifact |->
        {[subject |-> entry.subject, entry |-> entry, source |-> type, file |-> {f},
          sections |-> got.sections, failures |-> {}, warned |-> got.omitted]}]
      Outcome(got) == IF got.raised THEN No("raised") ELSE IF got.errors THEN No("errors") ELSE Whole(got)
  IN  IF type \notin {"html", "csv"} THEN No("unsupported")
      ELSE IF ~get_extractability(entry, type) THEN No("not_extractable")
      ELSE IF type \notin DOMAIN entry.sources THEN No("errors")
      ELSE With(extract_sections(f, entry, type), Outcome)

\* Mutant: the best match is imported, whichever subject was named.
extract_file_recognised(f, subjects) == {dispatch(f, e) : e \in identify(f)}

\* With a subject its highest active version is used, without one the best match.
extract_file(f, subjects) ==
  LET entries == IF subjects = {} THEN identify(f) ELSE UNION {get_active_version(s) : s \in subjects}
  IN  {dispatch(f, e) : e \in entries}

-----------------------------------------------------------------------------
(* The routes.                                                             *)

\* A shipped subject takes uploads only where a file source of it is extractable.
accepts_uploads(entry) ==
  entry.system => \E t \in {"html", "csv"} \cap DOMAIN entry.sources : entry.sources[t].extractable

\* The route checks the subject, closes its connection and dispatches on another.
ImportBegin(s) ==
  /\ job = {} /\ jobs < MaxJobs
  /\ \E entry \in get_subject(s) :
       /\ accepts_uploads(entry)
       /\ job' = {[kind |-> "import", subject |-> s, pc |-> "dispatch", removed |-> FALSE]}
  /\ jobs' = jobs + 1
  /\ UNCHANGED <<catalog, store, datasets, definition, edits>>

\* Only a whole extraction is saved; the temporary file goes either way.
ImportDispatch ==
  /\ \E j \in job : /\ j.kind = "import"
                    /\ \E f \in Files : \E got \in extract_file(f, {j.subject}) :
                         store' = IF got.artifact = {} THEN store
                                  ELSE [store EXCEPT ![j.subject] = got.artifact]
  /\ job' = {}
  /\ UNCHANGED <<catalog, datasets, definition, edits, jobs>>

\* A test subject collects from a file shipped with the project: a fixture is
\* [inside, rows], its rows {} where the file cannot be read.  Rows that do not
\* conform are recorded as a failure.
fixture_artifact(s, entry) ==
  LET seq == entry.sources["json"].sections
      ids == SectionIds(entry, "json")
      InstrFor(t) == seq[CHOOSE i \in DOMAIN seq : seq[i].id = t].instr
      rows == [t \in ids |-> CHOOSE r \in InstrFor(t).fixture.rows : TRUE]
      bad == {t \in ids : check_conformance(rows[t], InstrFor(t).conformance) # ""}
  IN  [subject |-> s, entry |-> entry, source |-> "json", file |-> {}, warned |-> {},
       failures |-> bad, sections |-> [t \in ids \ bad |-> rows[t]]]

CollectFixture(s) ==
  /\ job = {} /\ jobs < MaxJobs
  /\ \E entry \in get_subject(s) :
       /\ "json" \in DOMAIN entry.sources
       /\ LET seq == entry.sources["json"].sections
          IN  seq # <<>> /\ \A i \in DOMAIN seq : /\ seq[i].type \in SUPPORTED_SECTION_TYPES
                                                  /\ seq[i].instr.fixture.inside
                                                  /\ seq[i].instr.fixture.rows # {}
       /\ store' = [store EXCEPT ![s] = {fixture_artifact(s, entry)}]
  /\ jobs' = jobs + 1
  /\ UNCHANGED <<catalog, job, datasets, definition, edits>>
=============================================================================
