----------------------------- MODULE MCLicense -----------------------------
(***************************************************************************)
(* A CommCell with one organisation beside its own, which the report lists *)
(* first: in one its own organisation has no licenses of agents, in one    *)
(* nothing is listed and two datasets have the columns of one list.        *)
(***************************************************************************)
EXTENDS License

W(w) == Word(w)
Num(n) == Number(10 * n)
Columns(n) == PageKinds[n].fields
Dataset(guid, fields, params) == [guid |-> guid, about |-> "", fields |-> fields, params |-> params]
Titled(title, guid) == [title |-> title, guid |-> guid]

Summary == [components |-> <<Titled("Capacity Licenses", "g5"), Titled("Other Licenses", "g6"),
                             Titled("Users", "g7")>>, datasets |-> <<>>]
Detail(datasets) == [components |-> <<Titled(OTHER_LICENSE_SECTION, ""), Titled(AGENT_FEATURE_SECTION, "")>>,
                     datasets |-> datasets]
Sets == <<Dataset("g3", Columns(3) \cup {"LicUsageType"}, <<"Zone", "GUID">>),
          Dataset("g4", Columns(4), <<"GUID">>), Dataset("g2", Columns(2), <<"GUID">>),
          Dataset("g9", {"Spare"}, <<>>), Dataset("g1", Columns(1), <<>>)>>

Org(guid, name) == [OrgGUID |-> W(guid), Organization |-> W(name)]
Other(guid, dial, purchased, usage, type) ==
  [GUID |-> W(guid), Dial |-> W(dial), Purchased |-> Num(purchased), Usage |-> Num(usage), LicUsageType |-> Num(type)]
Feature(guid, license, total) ==
  [GUID |-> W(guid), License |-> W(license), PermanentTotal |-> Num(total), PermanentUsed |-> Num(1),
   EvaluationTotal |-> Num(0), EvaluationUsed |-> Num(0)]
Served(params, rows) == [shape |-> "records", params |-> params, rows |-> rows]
Data == [g1 |-> Served({}, <<Org("o1", "branch"), Org("-1", "commcell"), Org("o1", "branch")>>),
         g2 |-> Served({"GUID"}, <<[GUID |-> W("-1"), CommCell |-> W("cs1"), LicenseExpiry |-> W("soon")]>>),
         g3 |-> Served({"GUID"}, <<Other("o1", "vm", 5, 2, 200003), Other("-1", "capacity", -1, 0, 100031),
                                   Other("-1", "", 1, 1, 0), Other("-1", "beyond", 1, 1, 0)>>),
         g4 |-> Served({"GUID"}, <<Feature("o1", "fs", 4), Feature("-1", "sql", -1), Feature("-1", "sql", 3)>>),
         g5 |-> Served({}, <<[License |-> W("backup"), Purchased |-> Num(3), Usage |-> Num(1)]>>),
         g6 |-> [shape |-> "other", params |-> {}, rows |-> <<[Dial |-> W("appliance")]>>]]
CommCell(sets, data) == [report |-> <<Summary, Detail(sets)>>, data |-> data]
MCCommCells ==
  {CommCell(Sets, Data),
   CommCell(Sets, [Data EXCEPT !.g4.rows = <<Feature("o1", "fs", 4), Feature("o1", "vsa", -1)>>,
                               !.g6.shape = "list"]),
   CommCell(Sets \o <<Dataset("g8", Columns(3), <<"GUID">>)>>, [Data EXCEPT !.g1.rows = <<>>])}

\* The hypotheses of the theorem about the license lists.
ASSUME MCHypotheses == DatasetsAreThere /\ OrganisationsFit /\ AmountsAreWhole /\ ListsAreApart
=============================================================================
