----------------------------- MODULE MCEvidence -----------------------------
(***************************************************************************)
(* A subject with a table of server groups, a usage metric and an identity *)
(* card; row rules that may hit one row, one of them over versions and one *)
(* over an age that a row reaches at midnight.  The proposal declares the  *)
(* identity card a table and a section the recipe has not.                 *)
(***************************************************************************)
EXTENDS Evidence

MCFiles == <<[len |-> 1, atomic |-> FALSE, once |-> FALSE],
             [len |-> 2, atomic |-> FALSE, once |-> TRUE],
             [len |-> 2, atomic |-> TRUE, once |-> FALSE]>>

Cond(t, op, v) == [target |-> t, operator |-> op, value |-> v, value2 |-> None]
MCRowRules ==
  [empty |-> [rule_id |-> "empty", emit |-> "per_row", severity |-> "warning",
              conditions |-> <<Cond("members", "lt", Number(10))>>],
   old |-> [rule_id |-> "old", emit |-> "per_row", severity |-> "critical",
            conditions |-> <<Cond("members", "exists", None),
                             Cond("version", "version_lt", Text("", <<11, 3>>, ""))>>],
   none |-> [rule_id |-> "none", emit |-> "count", severity |-> "info",
             conditions |-> <<>>, count_operator |-> "lt", count_value |-> 10],
   idle |-> [rule_id |-> "idle", emit |-> "per_row", severity |-> "warning",
             conditions |-> <<Cond("seen", "stale_days", Number(50))>>]]

Group(id, assoc, members, version, seen) ==
  [id |-> id, association |-> Word(assoc), members |-> members, version |-> version,
   seen |-> seen]
V(a, b) == Text("", <<a, b>>, "")
G1 == Group(Number(10), "manual", Number(0), V(11, 2), Date(2024, 95))
G2 == Group(Number(20), "automatic", Number(0), V(11, 4), None)
G3 == Group(Number(30), "manual", Number(50), Word("unknown"), Date(2024, 90))
G4 == Group(Number(40), "manual", None, Text("v", <<11, 2>>, " sp"), Date(2024, 96))

Anything == [required_fields |-> {}, field_types |-> <<>>, enums |-> <<>>, cardinality |-> <<>>]
Threshold(id, sev, rec) ==
  [rule_id |-> id, kind |-> "threshold", comparison |-> ">=",
   bands |-> {[at |-> 900, severity |-> "critical"], [at |-> 700, severity |-> sev]},
   default_severity |-> "good", mute_on_sentinel |-> TRUE, recommendation |-> rec]
MCRegistry ==
  [near_full |-> Threshold("near_full", "warning", {"buy capacity"}),
   growing |-> Threshold("growing", "info", {}),
   named |-> [rule_id |-> "named", kind |-> "presence", severity_when_present |-> "good",
              severity_when_missing |-> "warning", recommendation |-> {}],
   zone |-> [rule_id |-> "zone", kind |-> "enum", allowed_values |-> {Word("utc")},
             severity_when_allowed |-> "good", severity_when_missing |-> "warning",
             severity_when_disallowed |-> "critical", recommendation |-> {}]]

FieldItem(id) == [id |-> id, source |-> "field", field |-> id, agg |-> "latest"]
MCRecipe ==
  [groups |-> [output_as |-> "table",
      conformance |-> [Anything EXCEPT !.required_fields = {"members"},
                                       !.cardinality = [max |-> 3]]],
   usage |-> [output_as |-> "metric", face |-> "metric", conformance |-> Anything,
      items |-> <<FieldItem("used"), FieldItem("total"),
                  [id |-> "pct", source |-> "cel", num |-> "used", den |-> "total",
                   sentinel_when |-> "total"]>>,
      sentinel |-> {Number(-10)},
      rules |-> <<[ref |-> "near_full", target |-> "pct"], [ref |-> "growing", target |-> "pct"]>>],
   identity |-> [output_as |-> "card",
      conformance |-> [Anything EXCEPT !.field_types = [zone |-> "string"]],
      items |-> <<[field |-> "Hostname", agg |-> "", type |-> ""],
                  [field |-> "zone", agg |-> "", type |-> ""]>>,
      rules |-> <<[ref |-> "named", target |-> "Hostname"], [ref |-> "zone", target |-> "zone"]>>]]
MCOrder == <<"groups", "usage", "identity">>
MCAnnounced == [groups |-> "table", usage |-> "metric", identity |-> "table", trend |-> "chart"]

Use(u, t) == <<[used |-> u, total |-> t]>>
MCSamples ==
  [groups |-> {<<>>, <<G1, G2>>, <<G2, G1, G3>>, <<G4>>, <<G1, G2, G3, G4>>},
   usage |-> {Use(Number(950), Number(1000)), Use(Number(500), Number(-10)),
              Use(Number(10), Number(0)), Use(Number(10), Number(1000))},
   identity |-> {<<[Hostname |-> Word("cs1"), zone |-> Word("cet")]>>,
                 <<[Hostname |-> None, zone |-> Word("utc")]>>,
                 <<[Hostname |-> Word("cs1"), zone |-> Number(10)]>>}]

MCScopes == {<<>>, <<Cond("association", "eq", Word("manual"))>>,
             <<Cond("seen", "stale_days", Number(50))>>}
Over(q, id, sev) == [section |-> "usage", project |-> q, rule_id |-> id, severity |-> sev]
MCWaivers == {{}, {Over("NULL", "near_full", "muted")},
              {Over("NULL", "near_full", "muted"), Over("acme", "near_full", "warning")},
              {Over("acme", "near_full", "muted"), Over("acme", "growing", "muted")}}

\* What the theorems about Evidence assume of a catalog and its sources holds here.
ASSUME MCHypotheses ==
  /\ NoneConsumed /\ NoneHidden /\ BadgedMetrics /\ RowRulesAreValid /\ RowsHaveIds
  /\ RegistryIsValid /\ EntriesAreValid /\ WaiversAreKeyed
=============================================================================
