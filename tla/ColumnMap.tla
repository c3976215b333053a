----------------------------- MODULE ColumnMap -----------------------------
(***************************************************************************)
(* How a recipe turns the cells of a file into canonical rows              *)
(* (extractors/column_map.py, shared by the CSV and the HTML extractor)    *)
(* and the gate a recipe passes before it is published                     *)
(* (db/compile_gate.py).                                                   *)
(*                                                                         *)
(* Cells are the texts of Evaluation, as both readers hand them over:      *)
(* stripped.  A Code is a text of dash-separated segments that starts with *)
(* a letter, one of them leading the last at least; "*" stands for a       *)
(* masked segment.  What may raise returns a set: {} when it raised.       *)
(***************************************************************************)
EXTENDS Sections

\* Op of v, with v evaluated once.
With(v, Op(_)) == CHOOSE r \in {Op(x) : x \in {v}} : TRUE

Code(leading, last) == [k |-> "code", leading |-> leading, last |-> last]
Quantity(n, unit) == [k |-> "quantity", n |-> n, unit |-> unit]

\* A column entry is [sources, coalesce, canonical, type, transforms, listed, fuzzy];
\* a source is [name, bare], bare the name without the prefix "None_", if it has one.
\* Where the entry's transforms are no list (listed FALSE) they are what iterating
\* over them gives, as the letters of a text: the readers iterate, the gate does not.
CanonicalOf(col) == IF col.canonical # "" THEN col.canonical ELSE col.sources[1].name

-----------------------------------------------------------------------------
(* The closed registry of transforms.                                      *)

\* "25" is 25, "1.5" is no integer; a leading number is not enough.
Plain(v) == v.k = "text" /\ v.pre = "" /\ v.post = "" /\ v.comps # <<>>
to_integer(v) ==
  CASE v.k = "number" /\ v.n % 10 = 0 -> v
    [] Plain(v) /\ Len(v.comps) = 1 -> Number(10 * v.comps[1])
    [] OTHER -> None
to_float(v) ==
  CASE v.k = "number" -> v
    [] Plain(v) /\ Len(v.comps) <= 2 -> Number(CHOOSE n \in to_number(v) : TRUE)
    [] OTHER -> None

\* Mutant: what cannot be masked is let through.
mask_fail_open(v) ==
  IF v.k = "code" /\ v.leading[1] = "*"
  THEN Code([i \in DOMAIN v.leading |-> "*"], v.last) ELSE v

\* Only the last segment stays readable; any other shape becomes None.
mask_registration_code(v) ==
  IF v.k = "code" THEN Code([i \in DOMAIN v.leading |-> "*"], v.last) ELSE None

number_with_unit(v) ==
  CASE v.k = "number" -> Quantity(v.n, "")
    [] v.k = "text" /\ v.pre = "" /\ v.comps # <<>> ->
         Quantity(CHOOSE n \in to_number(v) : TRUE, v.post)
    [] OTHER -> None

TRANSFORMS == {"trim", "null_if_empty", "to_integer", "to_float",
               "mask_registration_code", "number_with_unit"}
SENSITIVE_FIELD_REQUIREMENTS == [registration_code |-> {"mask_registration_code"}]
Required(field) ==
  IF field \in DOMAIN SENSITIVE_FIELD_REQUIREMENTS THEN SENSITIVE_FIELD_REQUIREMENTS[field] ELSE {}

\* What one transform makes of a value.
transform(t, x) ==
  CASE t = "trim" -> x
    [] t = "null_if_empty" -> IF x = Word("") THEN None ELSE x
    [] t = "to_integer" -> to_integer(x)
    [] t = "to_float" -> to_float(x)
    [] t = "mask_registration_code" -> mask_registration_code(x)
    [] t = "number_with_unit" -> number_with_unit(x)

\* A value after each of the transforms, and before the first.
transformed(names, v) ==
  LET upto[n \in 0..Len(names)] == IF n = 0 THEN v ELSE transform(names[n], upto[n - 1])
  IN  upto

apply_transforms(names, v) == transformed(names, v)[Len(names)]

\* The legacy coercion by type, for columns without transforms.
coerce(v, type, nulls) ==
  IF v \in nulls THEN None
  ELSE CASE type = "integer" -> to_integer(v)
         [] type = "float" -> to_float(v)
         [] OTHER -> v

-----------------------------------------------------------------------------
(* Columns.  A header is a sequence of names; a repeated name stands for   *)
(* its last position.                                                      *)

header_has_all(column_map, names) ==
  column_map # <<>> /\ \A i \in DOMAIN column_map :
    \E j \in DOMAIN column_map[i].sources : column_map[i].sources[j].name \in names

IndexIn(header, name) == LET at == {i \in DOMAIN header : header[i] = name}
                         IN  IF at = {} THEN {} ELSE {MaxOfSet(at)}

\* The positions of one column's present sources, in the order of preference.
Candidates(col, header, fuzzy) ==
  LET At(src) == LET exact == IndexIn(header, src.name)
                 IN  IF exact = {} /\ (fuzzy \/ col.fuzzy) /\ src.bare # ""
                     THEN IndexIn(header, src.bare) ELSE exact
      hits == SelectSeq(col.sources, LAMBDA src : At(src) # {})
  IN  [i \in DOMAIN hits |-> CHOOSE p \in At(hits[i]) : TRUE]

\* Every column is validated before any row is read, whether it is present or not;
\* an absent coalesce column stays (as null), an absent plain one is dropped.
resolve_columns(column_map, header, fuzzy) ==
  LET Bad(col) == \/ ~(Range(col.transforms) \subseteq TRANSFORMS)
                  \/ ~(Required(CanonicalOf(col)) \subseteq Range(col.transforms))
      kept == AtPlaces(column_map, {i \in DOMAIN column_map :
                          column_map[i].coalesce \/ Candidates(column_map[i], header, fuzzy) # <<>>})
  IN  IF \E i \in DOMAIN column_map : Bad(column_map[i]) THEN {}
      ELSE {[i \in DOMAIN kept |-> [canonical |-> CanonicalOf(kept[i]), type |-> kept[i].type,
                                    coalesce |-> kept[i].coalesce, transforms |-> kept[i].transforms,
                                    at |-> Candidates(kept[i], header, fuzzy)]]}

\* A coalesce column takes its first candidate that is neither empty nor a null
\* word; columns with one canonical name overwrite each other.
extract_row(cells, resolved, nulls) ==
  LET CellAt(p) == IF p <= Len(cells) THEN cells[p] ELSE Word("")
      Usable(p) == CellAt(p) # Word("") /\ CellAt(p) \notin nulls
      Chosen(c) == LET good == SelectSeq(c.at, Usable)
                   IN  IF c.coalesce THEN IF good = <<>> THEN {} ELSE {CellAt(good[1])}
                       ELSE {CellAt(c.at[1])}
      Shape(c) == LET raw == CHOOSE v \in Chosen(c) : TRUE
                  IN  IF Chosen(c) = {} THEN None
                      ELSE IF c.transforms # <<>> THEN apply_transforms(c.transforms, raw)
                      ELSE coerce(raw, c.type, nulls)
  IN  [f \in {resolved[i].canonical : i \in DOMAIN resolved} |->
         Shape(resolved[MaxOfSet({i \in DOMAIN resolved : resolved[i].canonical = f})])]

\* The rows of a table below its header; every row has all the resolved columns,
\* and without any there are no rows.
extract_rows(column_map, header, rows, nulls, fuzzy) ==
  {IF res = <<>> THEN <<>> ELSE [i \in DOMAIN rows |-> extract_row(rows[i], res, nulls)] :
     res \in resolve_columns(column_map, header, fuzzy)}

\* pairs: <<label, value>> in document order, the first of a label counts; labels
\* are matched exactly.
extract_metadata_pairs(pairs, label_map, nulls) ==
  LET Earlier(i) == {j \in 1..(i - 1) : pairs[j][1] = pairs[i][1]}
      first == [i \in DOMAIN pairs |-> IF Earlier(i) = {} THEN pairs[i] ELSE <<"", Word("")>>]
  IN  extract_rows(label_map, [i \in DOMAIN first |-> first[i][1]],
                   <<[i \in DOMAIN first |-> first[i][2]]>>, nulls, FALSE)

-----------------------------------------------------------------------------
(* Computed sections: aggregates of a section extracted before.            *)

COMPUTED_TYPES == {"row_count", "distinct_count", "grouped_count"}
compute_section(type, rows, field) ==
  LET values == {rows[i][field] : i \in {j \in DOMAIN rows : Cell(rows[j], field) # None}}
      Times(v) == Cardinality({i \in DOMAIN rows : Cell(rows[i], field) = v})
  IN  CASE type = "row_count" -> {Number(10 * Len(rows))}
        [] type = "distinct_count" -> {Number(10 * Cardinality(values))}
        [] type = "grouped_count" -> {[k |-> "groups", of |-> [v \in values |-> Times(v)]]}
        [] OTHER -> {}

\* A source section that is missing, or comes later, counts as empty.
extract_computed(instr, sections) ==
  LET rows == IF instr.source_section \in DOMAIN sections THEN sections[instr.source_section]
              ELSE <<>>
  IN  {<<[f \in {instr.output_field} |-> v]>> :
         v \in compute_section(instr.computed_type, rows, instr.field)}

-----------------------------------------------------------------------------
(* The compile gate: what it refuses of one section's recipe.              *)

AllowedFormats == [csv |-> {"single_table", "multi_section", "metadata_pairs", "computed"},
                   html |-> {"table", "metadata_pairs", "computed"}]

\* The transforms the gate sees of an entry: none where they are no list.
Inspected(c) == IF c.listed THEN Range(c.transforms) ELSE {}

\* Mutant: the sensitive fields of a label map are not looked at.
validate_recipe_columns_only(type, instr) ==
  LET entries == Range(instr.column_map) \cup Range(instr.label_map)
  IN  type \in DOMAIN AllowedFormats =>
        /\ instr.format \in AllowedFormats[type]
        /\ instr.format = "computed" => instr.computed_type \in COMPUTED_TYPES
        /\ \A c \in entries : Inspected(c) \subseteq TRANSFORMS
        /\ \A c \in Range(instr.column_map) : Required(CanonicalOf(c)) \subseteq Inspected(c)

\* Formats, computed types, transforms and masks, for file recipes only; selectors
\* are not looked at.
validate_recipe(type, instr) ==
  LET entries == Range(instr.column_map) \cup Range(instr.label_map)
  IN  type \in DOMAIN AllowedFormats =>
        /\ instr.format \in AllowedFormats[type]
        /\ instr.format = "computed" => instr.computed_type \in COMPUTED_TYPES
        /\ \A c \in entries : /\ Inspected(c) \subseteq TRANSFORMS
                              /\ Required(CanonicalOf(c)) \subseteq Inspected(c)

compile_validate_proposal(sources) ==
  \A type \in DOMAIN sources : \A i \in DOMAIN sources[type].sections :
    validate_recipe(type, sources[type].sections[i].instr)
=============================================================================
