----------------------------- MODULE MCAcquire -----------------------------
(***************************************************************************)
(* Five subjects, one for each way of acquisition: two sections of a       *)
(* report, two parameterised reads of one dataset, a Command Center        *)
(* endpoint, a licence file in both formats and a fixture.                 *)
(***************************************************************************)
EXTENDS Acquire

W(w) == Word(w)
Num(n) == Number(10 * n)
Digit(n) == Text("", <<n>>, "")

\* The CommCell: a full last page, an uncounted list, a dataset with a parameter.
Client(n, s) == [name |-> W(n), stamp |-> Num(s)]
Window(site, window) == [site |-> W(site), window |-> W(window)]
Data(name, rows, params, shape, counted) ==
  [name |-> name, rows |-> rows, params |-> params, shape |-> shape, counted |-> counted]
MCDatasets ==
  [g1 |-> Data("Clients", <<Client("a", 1), Client("b", 2), Client("n/a", 3)>>, {}, "records", TRUE),
   g2 |-> Data("Licenses", <<[status |-> W("ok")], [status |-> W("expired")]>>, {}, "list", FALSE),
   g3 |-> Data("SLA", <<Window("eu", "day"), Window("us", "day"), Window("eu", "night"),
                        Window("eu", "day")>>, {"site"}, "columns", FALSE),
   g4 |-> Data("Clients", <<Client("c", 4)>>, {}, "lists", TRUE),
   g9 |-> Data("Clients (old)", <<Client("z", 0)>>, {}, "records", TRUE)]
\* The same, every dataset uncounted.
MCCommCells == {MCDatasets, [g \in DOMAIN MCDatasets |-> [MCDatasets[g] EXCEPT !.counted = FALSE]]}
MCNewRows == [g1 |-> {Client("d", 5)}, g3 |-> {Window("eu", "night")}]

Node(widget, guid, own, name) ==
  [widget |-> widget, guid |-> guid, own |-> own, id |-> "", name |-> name]
Licenses == Node(FALSE, "", "g2", "Licenses")
MCReports == [r318 |-> {<<Node(TRUE, "g1", "", "Clients"), Licenses, Node(FALSE, "g9", "", "Clients")>>,
                        <<Licenses, Node(TRUE, "g4", "", "Clients")>>,
                        <<Node(TRUE, "g9", "", ""), Node(FALSE, "g1", "", ""), Licenses,
                          Node(FALSE, "g1", "", "Clients")>>}]
MCEndpoints ==
  [CommServ |-> {Obj([host |-> W("cs1")])},
   ServerGroup |-> {Obj([host |-> W("cs1"), groups |-> List(<<Obj([id |-> Num(1)]), W("odd")>>)])}]

-----------------------------------------------------------------------------
Anything == [required_fields |-> {}, field_types |-> <<>>, enums |-> <<>>, cardinality |-> <<>>]
LiveInstr ==
  [report_id |-> "r318", dataset_name |-> "", dataset_guid |-> "", limit |-> 0, parameters |-> <<>>,
   column_map |-> <<>>, null_values |-> {W("n/a")}, timestamp_fields |-> {}, timestamp_format |-> "",
   status_to_severity |-> <<>>, output_as |-> "table", conformance |-> Anything, title_match |-> ""]
Sec(id, type, instr) == [id |-> id, type |-> type, instr |-> instr]
Source(sections) == [extractable |-> TRUE, hints |-> <<>>, sections |-> sections]
Copy(from, to) == [source |-> from, canonical |-> to]

ClientsRecipe == [rest |-> Source(<<
  Sec("clients", "table", [LiveInstr EXCEPT !.dataset_name = "Clients", !.dataset_guid = "g9",
        !.column_map = <<Copy("name", "client"), Copy("stamp", "seen")>>,
        !.timestamp_fields = {"stamp"}, !.timestamp_format = "unix_seconds",
        !.conformance = [Anything EXCEPT !.cardinality = [max |-> 3]]]),
  Sec("licenses", "findings", [LiveInstr EXCEPT !.dataset_name = "Licenses",
        !.output_as = "findings", !.status_to_severity = [ok |-> W("good")]])>>)]

\* The second section of the first version asks for a parameter the dataset lacks.
SlaRecipe(second) == [reportsplus_dataset |->
  [extractable |-> TRUE, hints |-> <<>>, address |-> [guid |-> "g3", form |-> "pair"],
   sections |-> <<Sec("eu", "table", [LiveInstr EXCEPT !.parameters = [site |-> W("eu")]]),
                  Sec("other", "table", [LiveInstr EXCEPT !.parameters = second, !.limit = 1])>>]]

CCInstr(as, root, cols, settings) ==
  [output_as |-> as, table |-> [root_key |-> root, columns |-> cols, transpose |-> settings]]
GroupsRecipe(path, relative) == [rest_command_center_api |->
  [extractable |-> TRUE, hints |-> <<>>, endpoint |-> [path |-> path, relative |-> relative],
   sections |-> <<
     Sec("groups", "table", CCInstr("table", <<"groups">>, <<[id |-> "id", field |-> <<"id">>]>>, <<>>)),
     Sec("settings", "table", CCInstr("table", <<>>, <<>>,
                                      <<[key |-> "host", label |-> "Host", field |-> <<"host">>]>>)),
     Sec("environment", "card", CCInstr("card", <<>>, <<>>, <<>>))>>]]

Column(name, canonical, type, transforms) ==
  [sources |-> <<[name |-> name, bare |-> ""]>>, coalesce |-> FALSE, canonical |-> canonical,
   type |-> type, transforms |-> transforms, listed |-> TRUE, fuzzy |-> FALSE]
Either(a, b, canonical) ==
  [sources |-> <<[name |-> a, bare |-> ""], [name |-> "none_" \o b, bare |-> b]>>, coalesce |-> TRUE,
   canonical |-> canonical, type |-> "string", transforms |-> <<>>, listed |-> TRUE, fuzzy |-> TRUE]
FileInstr ==
  [format |-> "", column_map |-> <<>>, label_map |-> <<>>, null_values |-> {}, output_as |-> "table",
   status_to_severity |-> <<>>, section_label |-> "", section_index |-> 0, selector |-> "",
   title_match |-> "", computed_type |-> "", source_section |-> "", field |-> "", output_field |-> ""]
Code_(transforms) == Column("registration code", "registration_code", "string", transforms)
\* As a list, and as the text "trim", which the gate lets pass.
Product(listed) ==
  [Column("product", "product", "string", IF listed THEN <<"trim", "null_if_empty">> ELSE <<"t", "r", "i", "m">>)
     EXCEPT !.listed = listed]
LicenseColumns(listed) == <<Product(listed),
                    Column("used", "used", "integer", <<>>)>>
Identity(transforms) ==
  Sec("identity", "card", [FileInstr EXCEPT !.format = "metadata_pairs",
                                            !.label_map = <<Code_(transforms)>>])
Count == Sec("count", "table", [FileInstr EXCEPT !.format = "computed", !.computed_type = "row_count",
                                  !.source_section = "products", !.output_field = "n"])
LicenseCsv(transforms, listed) ==
  Source(<<Identity(transforms),
           Sec("products", "table", [FileInstr EXCEPT !.format = "single_table",
                                       !.column_map = LicenseColumns(listed)]),
           Sec("agents", "table", [FileInstr EXCEPT !.format = "multi_section", !.section_label = "agents",
                 !.column_map = <<Either("agent", "name", "agent"), Column("used", "used", "float", <<"to_float">>)>>]),
           Count>>)
LicenseHtml(transforms, selector) ==
  Source(<<Identity(transforms),
           Sec("products", "findings", [FileInstr EXCEPT !.format = "table", !.selector = selector,
                 !.title_match = "products", !.column_map = LicenseColumns(TRUE), !.output_as = "findings",
                 !.status_to_severity = [ok |-> W("good")]])>>)
Hinted(source, hints) == [source EXCEPT !.hints = hints]
LicenseRecipe(transforms) ==
  [csv |-> Hinted(LicenseCsv(transforms, TRUE), [section_label |-> "agents"]),
   html |-> Hinted(LicenseHtml(transforms, "h2"),
                   [title_contains |-> "license", first_table_headers |-> {"product"}])]
\* Admitted, and raising on every file of the kind that has what it asks for.
UnreadRecipe ==
  [csv |-> LicenseCsv(<<"mask_registration_code">>, FALSE),
   html |-> Hinted(LicenseHtml(<<"mask_registration_code">>, "h2["),
                   [title_contains |-> "license", has_selector |-> "h2["])]

JsonInstr(rows, conf) == [fixture |-> [inside |-> TRUE, rows |-> {rows}], conformance |-> conf]
DemoRecipe == [json |-> Source(<<
  Sec("good", "table", JsonInstr(<<[a |-> Num(1)]>>, Anything)),
  Sec("bad", "table", JsonInstr(<<[a |-> Num(1)]>>, [Anything EXCEPT !.required_fields = {"b"}]))>>)]

Version(s, n, sources, system) == [subject |-> s, version |-> n, active |-> TRUE, system |-> system,
                                   gated |-> FALSE, sources |-> sources]
MCSeeded == {Version("clients", 1, ClientsRecipe, TRUE),
             Version("sla", 1, SlaRecipe([window |-> W("night")]), TRUE),
             Version("groups", 1, GroupsRecipe("", FALSE), TRUE),
             Version("license", 1, LicenseRecipe(<<>>), TRUE),
             Version("demo", 1, DemoRecipe, FALSE)}
Proposal(s, n, sources, supersedes) ==
  [subject |-> s, version |-> n, sources |-> sources, supersedes |-> supersedes]
MCProposals == {Proposal("sla", 2, SlaRecipe([site |-> List(<<W("us"), W("asia")>>)]), TRUE),
                Proposal("groups", 2, GroupsRecipe("ServerGroup", TRUE), FALSE),
                Proposal("groups", 3, GroupsRecipe("elsewhere", FALSE), TRUE),
                Proposal("license", 2, LicenseRecipe(<<"mask_registration_code">>), TRUE),
                Proposal("license", 3, LicenseRecipe(<<"trim">>), TRUE),
                Proposal("license", 4, UnreadRecipe, FALSE)}

-----------------------------------------------------------------------------
File == [ext |-> "csv", sniff |-> "csv", words |-> {}, selectors |-> {}, grid |-> FALSE, tables |-> <<>>,
         headings |-> <<>>, pairs |-> <<>>, rows |-> <<>>]
CodePair(v) == <<W("registration code"), v>>
CsvRows(v) == <<CodePair(v), <<>>, <<W("product"), W("used")>>, <<W("vm"), Digit(7)>>,
                <<W(""), W("many")>>, <<W("")>>, <<W("agents")>>, <<W("name"), W("used")>>,
                <<W("oracle"), Text("", <<1, 5>>, "")>>>>
Csv(v) == [File EXCEPT !.pairs = <<<<"registration code", v>>>>, !.rows = CsvRows(v)]
Table == [head |-> {}, body |-> <<<<W("product"), W("used")>>, <<W("vm"), Digit(7)>>>>]
Html(scope) == [File EXCEPT !.ext = "", !.sniff = "html", !.words = {"license"}, !.tables = <<Table>>,
  !.headings = <<[selector |-> "h2", text |-> "products", scope |-> scope, following |-> 1]>>,
  !.pairs = <<<<"registration code", Code(<<"A1", "B2">>, "C3")>>>>]
MCFiles == {Csv(Code(<<"A1", "B2">>, "C3")), Csv(W("perpetual")), Html({1}), Html({}),
            [Html({}) EXCEPT !.headings = <<>>], [Html({1}) EXCEPT !.tables[1].head = {<<>>}], [File EXCEPT !.ext = "", !.sniff = "pdf"]}
MCInvalidSelectors == {"h2["}

ASSUME MCHypotheses ==
  NamesAreTrue /\ ParametersStay /\ CountsAreNamedApart
=============================================================================
