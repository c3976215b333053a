# Specifications of cv-healthcheck

cv-healthcheck is a consultant's tool: a Flask application that collects data
from a customer's Commvault CommServe, judges it by a catalog of subjects and
rules, keeps the resulting artifacts per customer and project, and freezes them
into numbered finalizations. An MCP server, a process of its own, lets an
assistant propose subjects and rules. This directory models the parts that hold
state and the algorithms that turn what a CommServe answers into a verdict on a
page, checks them with TLC and proves the most important invariants with TLAPS.
Paths below are relative to `src/cvhealthcheck/` unless they start with `docs/`.

## The system

All durable state is one SQLite database (`db/database.py`: WAL, foreign keys
on, a five-second busy timeout, one connection per helper call) and a tree of
JSON files (`artifacts/store.py`). Two processes write both: the web application
(a thread per request) and the MCP server (`mcp/server.py`, a worker thread per
tool call). No lock spans a request, so **a step of the models is one SQL
transaction, one operation on a directory, or one access to the token slot**;
everything between two such steps can interleave with another request, and a
request can die between them.

| part | state it keeps | operations | interacts with |
|---|---|---|---|
| finalization (`db/finalizations.py`, `web/routes/projects.py`) | `finalizations` rows, `working/`, `finalized/<n>/` | finalize, reload, diff | artifact store, projects |
| projects and customers (`web/routes/projects.py`, `customers.py`, `db/customers.py`) | `projects`, `customers`, `customer_subject_pin` | create, edit, delete, select, pin | session, cascade to finalizations |
| artifact store (`artifacts/store.py`) | `working/<subject>/latest.json` and its history | save, load, delete | collect, imports, approval, finalization |
| proposal review (`db/staging.py`) | `staged_artifacts` | propose, approve, reject | publishes into the catalog |
| subject catalog (`db/subjects.py`) | `subjects`, sections, sources, bindings | publish, re-publish, delete and reap | rules, artifacts |
| rule registry (`db/rules.py`) | `rules`, references inside the bindings' JSON | save, bind, delete, promote | bindings, overrides, engine |
| compile gate (`db/compile_gate.py`) | none | check a proposal | review, rules |
| session (`web/active_project.py`) | the cookie: active project, marker of the sign-in | select, fall back, require | every write route |
| sign-in (`auth/commvault_auth.py`, `token_store.py`) | one token slot per process | login, logout, clear | CommServe, collect |
| live collection (`web/routes/quick_hc.py`) | none of its own | gate, authenticate, extract, probe, save | all of the above |
| identity (`identity.py`) | `customers.commserve_csguid` | verdict, trust on first use | collect |
| evaluation (`evaluative/`) | `rule_overrides` | judge items, cards and rows; dry run | registry, extractors, views |
| recognition and column mapping (`extractors/recognition.py`, `column_map.py`, `csv.py`, `html.py`) | none | which subject a file is of; columns to fields | catalog, gate |
| extractors (`extractors/rest.py`, `reportsplus_dataset.py`, `command_center.py`, `fixture.py`, `result_to_artifact.py`) | a collection under way | fetch section by section, judge, assemble | Reports Plus, engine, store |
| Reports Plus client (`reportsplus/session.py`, `metadata.py`, `discovery.py`) | an HTTP session | definitions, paged rows | extractors |
| license summary (`license_summary/`) | a collection under way | read report 206 without a recipe, normalise, validate | store |
| security assessment | none | the importers of the time before recipes | store |
| views and page (`quickhc/`, `registry/`, `web/static/quick_hc.js`) | what the page shows | tiles, sections, shells of proposals | store, review, catalog |
| migrations (`db/migrations/`) | `schema_migrations` | apply what is pending | everything |
| lab readiness, command line, configuration | none | report | - |

What makes these parts hard:

* **files and rows** are changed by separate steps, so a crash leaves one
  without the other (finalize, delete_subject);
* **check on one connection, write on the next** (approve, reject, delete of a
  project or a customer), so two requests can both pass the check;
* **read, change, write back** of a whole JSON or a whole cookie (bind_rule,
  any response that flashes a message), so the older copy wins;
* **a check about one thing, a use of another**: the marker is in the cookie,
  the token in the process; the active project is in the cookie, the project in
  the database;
* **identities that come back**: project ids are slugs, a subject version can be
  approved twice;
* **a source that moves while it is read**: rows come and go between two pages, a
  report is rebuilt between recipe and collection, one request of several fails;
* **one question answered by two pieces of code**: the gate and the extractors,
  recognition and import, collection and dry run, the tile and its pills, the
  shell of a proposal and the page.

What makes each part correct: finalizations are numbered without gaps, never
change and come after their files; a published version is in the catalog until
it is deleted together with its proposals; binding rules never changes a
recipe; a rule in use is not reaped; a collect uses only a token that a sign-in for its
own customer obtained; a write goes only where the operator chose; a csGUID once set is
changed only by hand; an artifact is whole or says what it lacks, and its rows are
those of the dataset the recipe names; every row carries its own verdict, and what
is shown agrees with what was stored; no program serves on half a schema.
`PROJECT.json` lists the hazards line by line with the
properties that look at them.

## Modules

| module | what it is |
|---|---|
| `SnapshotLedger` | abstract: a project's snapshots as an append-only sequence, reload as one step |
| `Finalization` | finalize, reload, save, delete and create, down to each directory copied |
| `FinalizationProofs` | its theorems: for any requests, for one at a time, and that one at a time without faults implements `SnapshotLedger` |
| `ReviewQueue` | abstract: a proposal waits, is decided once, and approving it publishes it |
| `Catalog`, `CatalogProofs` | review, publication, deletion with reaping, rules, and the collect that uses them |
| `Workspace`, `WorkspaceProofs` | cookies, token slot, customers, projects, sign-in and the collect route |
| `Migrations` | the bootstrap of the database by several programs that may be killed |
| `Evaluation` | operators: cells, rules, the verdict chain, row rules |
| `Sections` | operators: conformance, the section builders, the artifact, the dry run |
| `Views` | operators: artifact to view, tiles and sources, versions, the page, proposal shells |
| `Evidence` | the state machine over these four: bind, collect, store, show, after a boot |
| `EvidenceProofs` | the theorems of `Migrations` and of `Evidence` as far as they are about what is stored and shown |
| `EvidenceJudgementProofs` | the theorems about rules, overrides, tiles and pills |
| `ColumnMap` | operators: the compile gate's checks of a recipe and the column mapping it is for |
| `Collect` | the live extractors and the fixture, request by request |
| `Intake` | files: type, recognition, dispatch, the CSV and HTML readers |
| `Acquire`, `AcquireProofs` | the composition of `Collect` and `Intake` with a catalog that gains versions; lemmas about its operators (rows served page by page, masking, the gate) and its theorems |
| `License`, `LicenseProofs` | the license summary's own collection, and its theorem |
| `SequenceLemmas` | lemmas about sequences for several proofs: bounded induction, extrema, the part at given places, sequences put together, enumerations of sets |
| `MC*` | the instances for TLC |

A request is a program counter (`pc[r]`, or `job.pc`) and the local variables of
its handler (`num`, `seen`, `jar`, ...), which are reset when it ends, fails or
dies. An operation that is one transaction is one action; one that is several is
a chain of actions named after the function, for example `ApproveCheck`,
`ApprovePublish`, `SettleCheck`, `SettleWrite` for `execute_approval`. A pure
function of the code is an operator with the function's name; where the code
raises or returns None, the operator returns `{}`, otherwise a singleton.
`PROJECT.json` maps every definition to its lines.

**Finalization.** One project id. `working[s]` and `finalized[n][s]` are
directories: absent, being written, or holding one of a few contents. `rows` are
the finalization numbers in the database, `trees` the `finalized/<n>` that
exist. `finalize` lists the subjects, reads the next number, copies one subject
after the other (`CopyBegin`, `CopyEnd`; copytree refuses an existing
directory) and inserts the row; `reload` clears and copies back. Deleting the
project deletes the row and leaves the directories, as the code does; creating
it again reuses the id. `taken` and `cascaded` are history variables.

**Catalog.** A key is a (subject, version); a binding is a key and a source,
with a row id, a recipe (plain, one whose metric field refers to a rule, or one
the compile gate refuses) and the set of rules bound to it. A publication
binds what the proposal brings (`RowRulesOf`), whether those rules exist or not,
because neither the proposal tool nor the gate asks; the tests publish such a
proposal (`tests/test_subject_eval_adr0010.py:99-107`). `INSERT OR REPLACE`
gives a new row id, and writing a section back by a row id that is gone changes
nothing: that is what `seen` and `Overwrite` are about. `evidence` says which
subjects have an artifact in the active project.

**Workspace.** A CommServe is a model value that stands for its URL and its csGUID.
`url` and `guid` are what the customer's row says; creating and editing a customer
write both from a typed form (`Forms`). A token is the CommServe that issued it and,
as history, the customer whose sign-in obtained it: nothing in the code remembers the
former, so an edited URL meets the old token, and the other CommServe refuses it.
A request reads the URL once (`base`). `cookie[b]` is the session of a browser; a request works
on the copy it came with (`jar`) and `Respond` sends all of it back when the
request changed it, flash messages included. `picked` is a history flag of the
session: the active context was chosen by the operator.

**Migrations.** `done[f]` counts the statements of file `f` that have taken
effect, `applied` is `schema_migrations`. A file is a length, whether it wraps
itself in BEGIN and COMMIT, and whether a statement of it raises when it is run
twice (ADD COLUMN). `boot[p]` is a program on its way through the files, which
reads once what is applied; `Kill` puts it back to the start anywhere.

**Evaluation, Sections, Views.** A cell is nothing, a number (in tenths), a date
or a text of a word, its dotted leading integers and what follows, which is all
that `coerce.py` distinguishes: "0 TB", "11.4.5", "v11" and "n/a" are different
cells. A rule's verdict is a layer, a rule and a severity; `evaluate` builds the
chain, `surviving` drops what an override replaces, `resolve_headline` takes the
worst. `evaluate_section_rows` judges a table: scope first, then every rule over
the rows in scope, then one verdict per row. `result_to_artifact` builds the
sections (one that raises ends the collection), the compliance findings and the
overall status. `Views` renders what is stored.

**Evidence.** One subject in several projects: a table with row rules, a metric
section with a quotient and two thresholds, a card with an enum and a presence
rule. `CollectBegin` reads rules, scope and overrides once; `CollectSection`
fetches and checks one section; `CollectStore` builds, judges by the day `now` shows
and saves. `Midnight` lets a day pass, and a dry run reads the clock again. A
proposal declares the type of each section (`Announced`) apart from what its recipe
puts out (`output_as`): the shell of a pending proposal goes by the first, the page by
the second, and the instance's differ for one section. What the page
and the dry run show is a function of the state, so their properties are
invariants.

**Collect, Intake, Acquire.** `datasets` and `definition` are what the CommCell
holds and how its report is built at the moment; `CommCellEdits` appends or
removes a row or rebuilds the report between any two requests. A collection is a
`job` whose steps are HTTP requests: the report's definition, a dataset's
metadata, one page of rows, one endpoint. Any of them may fail (`CollectFails`).
The catalog holds recipes past the gate and those the migrations bring past
none. A file is its bytes' type, its headings, tables and cells. A selector is
a name, or one of `InvalidSelectors`, which raise in an import and as a hint. The
transforms of a column that are no list (`listed` FALSE) are what iterating over them
gives: the readers iterate, the gate sees none.

**License.** `commcell` is a report definition and the rows its datasets answer
with per organisation. `GetDatasetData` is one request, `attempt` the
organisation it is asked for; a request that fails yields no rows.

## Runs

| run | instance | properties | what it shows |
|---|---|---|---|
| `FinalizationSerial` | one request, two subjects, two contents, numbers up to 2, the project created twice, no faults, fair | `ImplementsLedger`, `FinalizeCommits`, `ReloadRestores` | handlers implement the ledger; a finalize or reload that starts has its effect |
| `FinalizationCrash` | the same with crashes at every step | `SnapshotImmutable`, `RowsNeverDeleted`, `ReloadIsRestore` | what a crash leaves behind never damages a delivered snapshot |
| `FinalizationConcurrent` | two requests, one content, crashes | `IInv`, `Numbering`, `CommittedIsCopied`, `CommittedCopiesStable` | racing finalizes leave no gap, no row without files and no second writer of a committed copy |
| `FinalizationStale` | one request, crashes | `SnapshotIsWorking` violated | after a crash, the next snapshot holds artifacts of the earlier attempt |
| `CatalogSerial` | one call, fair; a proposal brings a row rule that need not exist | `OnlyProposalsDangle`, `EvidenceHasSubject`, `ImplementsReview`, `PublishIsSettled`, `BoundRulesStay`, `ReapLeavesNoOrphan` | review implements its queue; only a publication of what was proposed leaves a row rule dangling, bound rules stay bound and are reaped when nobody uses them |
| `CatalogConcurrent` | two calls, crashes | `IInv`, `ApprovedIsLive`, `RecipeStable`, `ReapSparesBound` | what survives every race of the two processes |
| `WorkspaceSerial` | one browser, one request, two customers, two CommServes or none typed for them, two project ids, three creations | `TokenIsCustomers`, `SelectionSurvives`, `FirstConnectIsAttested` | no sequence of selecting, signing in, collecting and deleting misuses a token or strands the selection |
| `WorkspaceConcurrent` | two tabs, crashes, restart, two forms to type | `IInv`, `TypedGuidStays` | a collect never overwrites a csGUID; no project without its customer |
| `WorkspaceFallback` | one request | `FallbackNeverWrites` violated | after the active project is deleted, a collect writes into the Default project nobody selected |
| `Evidence` | two programs boot over three migration files with one kill; two projects, one collection, two changes of bindings, three sections, four waiver sets, 60 answers of the source, two days | `ServesComplete`, `RowsCarryOwnVerdict`, `PreviewMatchesStored`, `WaiversSilenceTheirRule`, `TileAgreesWithPills`, `ShellForetellsPage` | the schema is whole before anything is served; the verdicts stored, previewed and shown are one |
| `Acquire` | five subjects, one per way of acquisition; two CommCells, two edits, one acquisition, every admissible proposal | `TypeOK`, `RowsAreTheNamedDatasets`, `ParametersBite`, `StoredIsWhole`, `OnlyUnreadRaises`, `NoRawCode`, `RecognitionAgrees`, `AcquisitionEnds` | whatever is stored is whole, of the right dataset and masked; an admitted recipe fails for its own sake only over what the gate does not read; an acquisition ends |
| `License` | three CommCells, two collections, one change, any request failing | `LicensesOfOneOrganisation` | the license lists are the right organisation's, in full up to the limit |

Why the instances are large enough. Two requests are what every race above
needs: one between the check and the write of the other. Two subjects make a
partial copy and a partial clear possible, and let the leftovers of one attempt
and the copies of the next be different or the same. One content is
enough for the two-request run, whose properties compare a finished directory
with an unfinished or absent one. Two numbers distinguish
the latest snapshot from an older one, and two creations of a project show the
reuse of its id. Two subjects and a rule shared by both are what reaping has to
tell apart; three row ids allow a row to be replaced while another call holds
the old one. Two customers whose rows can name either of two CommServes are what the
token's binding distinguishes. A table's row reaches the age limit of one rule, and of
one scope, between the two days; another is over it from the start, a third never.

Of the three migration files one is a single statement, one adds a column outside
a transaction and one is a transaction, which are the three ways a file can be
cut short. The table's samples hold an absent, a low and a high number, an older,
a newer and an unreadable version, rows in and out of scope, no row at all and
more rows than the recipe allows; the metric's a critical, a warning and a good
quotient, a sentinel and a zero divisor's quotient; the waivers a standing mute,
a project's override of it and a project that mutes everything. A page holds two
rows, so a dataset of three has a full and a short page, one of four ends on a
full one, and a recipe's limit may fall inside a page. One proposal the gate admits has
transforms that are a text and a selector that is none. Every one of the three
live extractors, the fixture and both file formats has a subject, with recipes
the gate admits, recipes it refuses and one that came in past it. The license
report lists another organisation before the CommCell's own, so the order of
candidates matters, and the limit of two rows cuts one of the lists.

Each passing run's properties have a mutant of the model in `PROJECT.json` that
breaks them on the same instance. Serial and concurrent runs are separate
because several properties hold only when no second request runs: the code
takes no locks, and ADR 0002 puts concurrent editing out of scope. The hazards
say for each which side it is on.

The bounds are `MaxNumber` (finalizations of the project id), `MaxProjects` and
`MaxBorn` (projects created), `MaxId` (row ids given), `MaxKills` (crashes of a
boot), `MaxBinds`, `MaxCollects` and `MaxJobs` (changes of bindings, collections)
and `MaxEdits` (changes of the CommCell). They are guards of the action that
counts up; when they are reached the other actions go on, or, in `Evidence`,
`Acquire` and `License`, the system has done all the instance asks of it and may
stop, so deadlock is not checked there.

**Fairness** is assumed only where a property is a liveness property. In
`FinalizationSerial` and `CatalogSerial` it is weak fairness of the steps of a
request that has started, because its thread runs it to its end. No request ever
has to arrive, and a crash is not fair. Those two runs have one request and no
faults, because a finalize that meets the copies of a dead one fails: copytree
raises, the number is not used up, and every later finalize of the project meets
the same directory, until somebody removes it by hand. In `Acquire` it is weak
fairness of the steps of an acquisition: each HTTP request has a timeout of
thirty seconds (`reportsplus/session.py`), after which it has failed.
`AcquisitionEnds` is then a statement about paging, which stops on a short page
although rows keep being appended (by the edits the bound allows).

## Disagreements between the code and its documentation

Shown by a run:

1. `SnapshotIsWorking`: finalize copies before it inserts its row
   (`db/finalizations.py:119-146`). ADR 0002 calls the snapshot a frozen copy of
   the working state; after a crash it can hold more.
2. `FallbackNeverWrites`: "the fallback can NEVER satisfy a write"
   (`web/active_project.py:16`), but deleting the active project stores it as a
   selection.

Read from the source while modelling, and followed by the models as the code has
them:

* Deleting a project promises to remove its working state
  (`web/templates/project_delete.html:127-128`) and removes only the row, so a new
  project with the old id starts with the old artifacts.
* ADR 0015 calls published templates immutable
  (`docs/adr/0015-template-profile-runtime.md:84`); approving a second proposal for the same version
  replaces sources and bindings, and keeps the old type and title of its sections
  (`db/subjects.py:201`). `supersedes` is stored as a row id that the replacement
  changes (`db/subjects.py:286`).
* A proposal's row rules are stored as they are; one that does not exist makes every
  collection of its subject raise (`db/rules.py:157`).
* The session's marker names a customer, not a CommServe: after an edit of the URL,
  or a re-creation of the customer, the next collect sends the old token to the new
  URL. `TokenIsCustomers` is about the customer.
* The type a proposal declares for a section and its recipe's `output_as` may differ.
  `ShellForetellsPage` says when the shell then misleads.
* delete_rule says it strips every reference (`db/rules.py:323-325`) and strips
  only those of row rules; those of metric fields dangle.
* "Each file is applied exactly once" (`db/migrations/__init__.py`): a file with an
  ADD COLUMN outside a transaction that is cut short raises at every later boot.
* The table's verdicts number rows without an id over the whole table, the findings
  over the rows in scope (`evaluative/row_match.py:106, 150`): with a scope, a finding
  may colour another row. `RowsCarryOwnVerdict` is stated, and the instance chosen,
  for rows with ids.
* A presence rule takes "N/A" for set, a row condition `exists` for absent; a
  threshold beside a presence rule makes a card's text look missing; a threshold
  on a text metric raises and the whole collection is lost.
* The collector reads a metric section's items from `metric.items`, the shell of a
  pending proposal from `metrics` or `items`: the shell of such a section is empty.
* The csv, html and fixture extractors load no row rules, the dry run evaluates
  them all the same, and it always reads the customer and the project "default".
* A server that caps pages below the page size ends a paged read early, although
  the total it reports says there is more. Rows removed during a paged read make
  it skip rows. `RowsAreTheNamedDatasets` excepts removal.
* `discover_dataset_references` keeps the first mention of a guid; an unnamed one
  hides a later named one, and the section falls back to the hint or fails.
* A Command Center answer with status 200 that is no JSON becomes an empty card or
  table and replaces good data.
* The import route looks the active version up and ignores the customer's pin; a
  proposal that omits `supersedes` leaves two active versions, and then recognition
  and an explicit import may choose differently.
* The gate reads a `transforms` that is a string as no transforms;
  `resolve_columns` iterates its characters and raises at every import. It looks at no
  selector: an HTML recipe without one ends in errors at every import, one that is
  invalid raises, and as a recognition hint it ends the recognition of every HTML file
  for all subjects. The
  registration code is guarded in file recipes only.
* A computed section ordered before its source counts an empty one. HTML that is
  not UTF-8 is recognised and cannot be imported.
* In the license collection a failed request is stored as an empty list over good
  data; the two lists of one artifact may then be of different organisations;
  lists end at 500 rows without a warning; two datasets with the columns of one
  list store its rows twice; "Other Licenses" gives a workload table the id of the
  `other_licenses` table; a missing name is stored as "Unknown CommCell".

## Proofs

Every theorem holds for any sets of requests, subjects, contents, keys, sources,
rules, browsers, customers, servers, programs, files, reports and recipes that
satisfy the modules' named assumptions. Where a theorem has a hypothesis beside
them (one request at a time, no faults, one browser), the run that checks its
property is an instance that satisfies it, and without it TLC finds the property
violated or the hazards say how it would be. Every inductive invariant below was checked
by TLC on the runs' instances before it was proved, but for
`StoreIsCollected`, which quantifies over all collections.

*Finalization.* `InductiveInvariant` proves `Spec => []IInv`. `CommittedIsCopied`
and `Numbering` alone are not inductive: that a copy a row names has no writer
depends on who made each directory. The strengthening tracks `Made(r)`, the
directories request `r` has created under its number. They exist (`MadeExists`),
two requests with the same number made different ones (`MadeApart`, because
copytree refuses an existing directory), and none of them belongs to a committed
row (`MadeNotTaken`). `NumbersInUse` says the rows are `1 .. k` and no copying
request is beyond `k + 1`. From these follow `TypeCorrect`, `NumbersHaveNoGap`,
`RowsFollowFiles` and the action property `CommittedCopiesAreStable`.

*One finalization request at a time.* Under the assumption `OneAtATime`, written as
the premise of the theorems, more holds, crashes included. `SerialInv` adds to
`IInv` what a request in flight has behind it: a finalize copies under a number no
row has, what a reload has cleared is absent and what it has restored is the
snapshot's, a project being deleted has no rows, and none was ever cascaded away. It gives
`ReloadRestoresSnapshot`, `SnapshotsAreImmutable` and `RowsAreNeverDeleted`, the
three properties of the run `FinalizationCrash`.

*The ledger.* `LedgerIsImplemented` proves, under `OneAtATime` and `~Faults` (the
run `FinalizationSerial`), that `Spec => ImplementsLedger`: each step is one of
`SnapshotLedger` or leaves its variables alone. The INSERT of the row is the
snapshot, the start of the clearing is the reload, a save is an edit when the
directory's latest.json is whole. It needs to know what a crash would spoil:
`QuietInv` says that at rest no directory of working is incomplete
(`WorkingIsWhole`), that nothing lies under a number without a row
(`NothingBeyond`, so copytree never meets a directory), that a finalize has copied
what it has behind it and working is still what it listed (`FinalizeProgress`),
and that a reload works on the last row's whole snapshot (`ReloadProgress`,
`SnapshotsAreComplete`). `OneMore` says that one row more is `Append`.

*Catalog.* `CatalogInvariant` proves `[]IInv`: types, the shape of calls in
flight, `DecidingIsReviewable` (a proposal being decided has its row or was
deleted with its subject), `ApprovedIsLive`, `IdsAreGiven` (no two rows ever have
the same id) and `SeenIsCurrent` (a row read earlier is gone or has the recipe it
had). The last two are what `RecipesAreStable` needs: the JSON written back is
that of the same row. `ReapingSparesBound` follows from the types.

*One catalog request at a time.* Under `OneAtATime`, crashes included,
`CatalogSerialInvariant` proves `[]SerialInv`. Its middle part is that what a
request read, counted or checked is still so when it writes (`WorksOnCurrent`):
the proposal it decides is pending, the rows it holds are the table's, the rule
it binds is in the registry, and what a deletion found to reap covers every rule
its subject refers to. With `NoRowNoRules` (a binding without a row has nothing
bound) this is inductive. It gives `OnlyProposalsLeaveDangling`, `BindingsAreNotLost`
and `ReapingLeavesNoOrphan`. The first is about steps, not states: that every bound
rule resolves is no invariant, since a publication may store one that does not; but a
row that stays gets no dangling rule from anything else.

*The review queue.* `EvidenceKeepsSubject` and `ReviewIsImplemented` also need
`~Faults`: a crash between the two transactions of an approval leaves a published
proposal pending, one between the two of a deletion leaves an artifact without its
subject. `ReviewIsImplemented` proves `Spec => ImplementsReview`, each step being
one of `ReviewQueue` or leaving its variables alone: the publication is the
approval, because from then until the row says so the same request is the only
one; `WorksOnCurrent` is what makes the proposal pending at that step.

*Workspace.* `WorkspaceInvariant` proves `[]IInv`: types, `RequestShape` (a
sign-in or a collect in flight is for a customer with a CommServe, and one past
its extraction has a result) and `ProjectsHaveCustomers`, which needs the cascade
of `customers_delete` because its count of projects may be stale.
`TypedGuidsStay` proves the action property `TypedGuidStays`: only three actions
write a csGUID, and the one of a collect looks at the row again.
`FirstConnectIsAttested` is inductive beside the types (`FirstConnectsAreAttested`).

*One browser, one request at a time, all answered* (`OneAtATime`, `OneBrowser`,
`~Faults`). `WorkspaceSerialInvariant` proves `[]SerialInv` about the session in
use, which is the request's copy while one runs and the cookie between two
(`InUse`): the copy is the cookie's until the request changes it
(`CopyIsCurrent`), the marker names the customer whose sign-in obtained the token
in the slot (`MarkerMatches`), and the selection is of a project that exists
unless Default has none (`SelectionStands`). `CollectShape` carries a check to its
use: the token a collect took is that customer's, and a customer being removed has
no projects. `TokensAreTheCustomers` and `SelectionsSurvive` follow. All three
hypotheses are needed: a lost answer or a second browser leaves a cookie that has
not seen what was deleted, and the slot is one for all browsers. That the Default customer's
first project resolves is the lemma `Least`: a nonempty set of bounded numbers has
a least element, shown from the well-foundedness of strict inclusion.

*Migrations.* `MigrationsInvariant` proves `MigrationsSpec => []MigrationsIInv`.
`ServesComplete` is not inductive: what a program may serve depends on the files
behind its position. `RecordedIsDone` says a recorded file lacks no statement,
`BootFollowsFiles` that a boot has only recorded files behind it, that the files
it means to skip are recorded, and that of its present file it has run no more
than has taken effect; so the row it writes at the file's end is true, even when
the other program wrote the same statements. `ServingIsComplete` follows.

*Evidence.* `EvidenceBoots` proves that the composition implements the bootstrap:
every step is one of `MigrationsNext` or leaves its variables alone. With it
`EvidenceIsServedComplete` carries `ServesComplete` over to the composition.
`EvidenceInvariant` proves `[]EvidenceIInv` for any recipe, samples, rules and
overrides. `JobIsWhole`: a collection holds the rules that were bound when it
began and has each of the first sections of the order kept or failed.
`StoreIsWhole`: an artifact shows what one set of rules says of the rows it
stores on the day it was stored (`PreviewShows`), and has every section as it is declared or as a failure. The
second needs the first, because the artifact is judged by the collection's rules,
not by those bound when it is stored. From it follows `PreviewsMatchStored`: of the
conditions only `stale_days` reads the clock (`timeless_value`), so where each of them
says of each stored row what it said then (`NoneHasAged`), the rules do, on any day.
Without that premise TLC finds a preview that shows a row which has become stale since.
And `ShellsForetellPages` for recipes without the staging section that
`enrich_commcell_info` consumes (`NoneConsumed`) and whose metrics show badges
(`BadgedMetrics`); without either the shell announces what the page does not
show. Shell and page show a section as one kind exactly where the declared type and
`output_as` are of one. `EvidenceAssumption` says that rules are keyed by their ids, finite in
number, that the order lists each section of the recipe once, that rows come as
lists and that overrides are finitely many.

*Cells, rules and overrides.* `StoredIsCollected` is what the next three rest on:
every artifact is what some whole collection of its project built (`CollectedIn`,
which quantifies over all collections and so is proved but not run). They are then
statements about the operators, for data that saving a rule or a recipe validates:

* `RowsAreOwnVerdicts`: every stored row carries the worst severity of its own
  findings. `RowsHaveIds` is needed: a row without an id is numbered among the rows
  in scope when it is judged and among all rows when it is shown. `RowRulesAreValid`
  is what `validate_row_match_rule` checks, as far as it matters here.
* `WaiversSilenceTheirRules`: a metric shows the worst of what its rules say once a
  waived rule says what its override says, and a silenced rule takes no other with
  it. The chain of verdicts is a list whose last entry per rule counts; `Survivors`
  shows that what counts is the overrides and the template's verdicts of rules that
  have none, `EachSurvives` and `Sound` carry this to severities and advice.
  `RegistryIsValid` and `EntriesAreValid` say that rules have the fields of their
  kind. `WaiversAreKeyed` is what the table's UNIQUE promises for a project's
  overrides, and an assumption about the standing ones (see below).
* `TilesAgreeWithPills`: the tile is red only if a pill is, and where a finding or
  a row is red so is the tile. `result_to_artifact` computes the status and
  `artifact_to_view` the pills from different parts of the artifact; the proof
  shows that the severities of metrics, cards, rows and findings reach both
  (`StatusIsRed`, `SectionPill`, `TileAgrees`). `NoneHidden` excludes a recipe
  with a section under the name that derived findings take.

The instance satisfies all of them (`MCHypotheses` in `MCEvidence`).

*Acquire.* `AcquireInvariant` proves `[]AcquireIInv`, through every request of
both live extractors, the endpoints, the fixture and both file formats: versions
keep their keys, at most one acquisition runs and each section it has gone
through is read or failed, none both (`ReadTo`), and each subject has at most one
artifact, a whole one. `AcquireTypeCorrect` and `WhatIsStoredIsWhole` follow from
it; `RecognitionsAgree` needs only that the highest version of a subject is one
(`OneSubject`). `AcquireAssumption` states the keys of the tables `subjects` and
`subject_sections`, that a live section's limit is a number and none of its
parameters is named `limit`, `offset`, `format` or `cacheId` (`session.py:184` would
let it replace the page's own), that column maps and label maps are lists of entries
(the gate skips what is not, `compile_gate.py:90-93`, the readers raise), that a
CommCell's rows are lists, and that what the migrations bring
went through no gate. A file's sections are read by a recursive function over the
recipe (`extracted`); that such a function exists and what it has read after `n`
sections are the lemmas `ExtractedUnfolds` and `ExtractedIsWhole`, both by
`Climb`, which is induction stated with sets, since the theorems of the library
that take an operator cannot be used by the installed provers.

*What was read, and of what.* `FollowInvariant` proves `[]FollowIInv`, which adds to
`AcquireIInv` what ties a collection to the CommCell it reads while its users edit.
The CommCell is one of the given ones but for its rows and the report's build
(`CommCellHolds`). As long as nothing is removed, the rows fetched so far are the
first `offset` of those the dataset serves (`ReadsFirst`), and a section that has
been read holds their shaping (`Held`); a collection of a directly addressed
dataset that is past the metadata has found every parameter there (`Follows`).
Neither property is inductive without these: a row appended between two pages
must not disturb what was read, nor a rebuilt report a name already resolved.
`RowsAreNamed` and `ParametersAlwaysBite` follow, each under a hypothesis about
data the code cannot check, written as the premise of the theorem. `NamesAreTrue`:
a report calls a dataset by its own name. `ParametersStay`: a section does not
rename, convert or drop a column it asks for by parameter; one that does shows
values that no longer are the parameter's. The instance satisfies both
(`MCHypotheses` in `MCAcquire`, which TLC evaluates). The rows a CommCell serves are
those at certain places, by a recursive function (`AtPlaces`); `SequenceLemmas` proves
what it chooses (`AtPlacesUnfolds`), that a row more extends what was served
(`ServesMore`), that a page extends the rows read to the first of a longer prefix
(`TurnHolds`) of rows the parameters fit (`TurnBites`), and that the shaping keeps
them fitting (`ShapeBites`).

*What a file's recipe does.* `CodesAreMasked` and `AdmittedRaiseForTheUnread` are about the
column mapping itself, `transformed` and `extracted` being recursive functions over
a column's transforms and a recipe's sections. A masked code stays masked, or becomes
no value, under each of the six transforms (`TransformKeepsMasked`), so one that is
masked anywhere in its chain is masked at the end (`AppliedIsMasked`, by `Climb`);
`resolve_columns` refuses a sensitive column without the mask (`ResolvedAreGuarded`),
so every row of a CSV or HTML section, whether read from a table or from label and
value pairs, is masked (`CsvIsMasked`, `HtmlIsMasked`), and so are the sections read up
to any point (`FileIsMasked`). The mask is thus enforced by the reader, whichever
way the recipe came into the catalog. `CountsAreNamedApart` is the premise: a computed
section counts rows into a field its recipe names, and nothing in the code keeps it
from naming the sensitive one. For the second theorem, `AdmittedHavePassed` is
inductive: an admitted version is a proposal that passed the gate, and nothing
alters it. Of such a recipe the checks of `validate_recipe` are those the
extractors raise on (`GateSays`), as far as it reads the recipe: a section whose
transforms are lists and whose selector is one raises in no file, and in a CSV file none
errs (`CsvReads`, `HtmlReads`). What it does not read (`Unread`) is left to the
extractors, and so are HTML sections without a selector and CSV sources without any
section, which end every import in errors; the statement says of each what the gate
leaves open. Beside `AcquireAssumption` the theorem has no premise.

*The license lists.* `LicensesAreOfOneOrganisation` proves what the run `License`
checks, for any report, any rows and any order of them. `LicenseIInv` ties a
collection to the CommCell while neither a request fails nor the CommCell changes
(`ReadSoFar`): the plan is the report's (`RequestsAre`); once the first request is
answered, the candidates are the listed organisations, each once and the CommCell's
own before the others (`CandidatesAre`, `OrganisationsAre`); while a list is being
asked for, the organisations before the present attempt had no rows in it; and once
it has been read, its rows are those of the first organisation that has any, or of the
last (`OfFirstWithRows`), which is one that may contribute them (`FirstIsEntitled`).
`AnswerKeeps` is the step: one more answer keeps all of this. The invariant is needed
because the property speaks of what is stored at the end, and each of its rows has
been decided by up to as many requests as there are organisations. At the end only the
list's own dataset contributes to it (`ListOfOne`), the named rows stand beside the
rows they were read from (`NamedAre`), an amount survives being put into words and
parsed back (`AmountIs`), and of the rows of agents one of each license remains
(`FirstsAre`). Lists are put together and filtered by recursive functions; that they do
it is shown by `Climb` (`FlattenOne`, `AtPlacesTogether`, `AtPlacesLength`).

The theorem has four premises, which the code does not check and the instance
satisfies (`MCHypotheses` in `MCLicense`): the datasets the report names are there,
can be read and have their parameter declared (`DatasetsAreThere`); one answer of
`SampleLimit` rows names every organisation, each under one name
(`OrganisationsFit`); amounts are whole numbers, "unlimited" or missing
(`AmountsAreWhole`), since fractions are cut; and no other dataset of the report
passes for a license list by its name or its columns (`ListsAreApart`). On CommCells
that break one of them TLC finds the property violated, so none is idle: a list
whose report calls its parameter otherwise mixes organisations, and an own organisation beyond the
limit is not asked for.

*Model-checked only.* Liveness: `FinalizeCommits`, `ReloadRestores`,
`PublishIsSettled`, `AcquisitionEnds`: fairness and ENABLED are out of the prover's
reach. Every other property of the passing runs is a theorem.
`SnapshotIsWorking` and `FallbackNeverWrites` are violated.

## What is abstracted

* In the lifecycle models contents of artifacts, recipes and rules are members of
  small sets. In the models of evidence and acquisition a cell keeps what the
  comparisons distinguish; titles, captions, messages, time stamps and file names
  do not appear, and a regular expression or a CEL expression is an atom.
* A customer row made before `connection_url` existed falls back to its
  `commcell_hostname`, which no form writes; the models know one URL. That a project with
  finalizations is not deleted is modelled in `Finalization`; the projects of
  `Workspace` have none. Pages that only read are left out, although rendering
  one removes the flash messages it shows and so sends the cookie back.
* `Evidence` fetches a section in one step; its pages are `Collect`'s.
  `Collect` stores rows and failures; what becomes of them is `Sections`'.
  `Acquire` takes the highest active version for the one a proposal supersedes
  (row ids are `Catalog`'s), leaves the sign-in and the identity to `Workspace`,
  and a re-approval to `Catalog`.
* `Collect` takes an answer whose records are lists as records: the names that a
  recipe's `fields` would give them (`reportsplus/session.py:232`) are left out.
* `Evidence` counts time in days, and a date cell is a day; ages within a day are not
  told apart. The section row rules are bound to is a table both for the catalog and in
  the recipe.
* `License` leaves out the usage percentages' text, raw fields and the
  registration code, which its canonical artifact does not hold; a token that is
  refused is `Workspace`'s.
* Overrides have no writer in the code (`rule_overrides` is only read), so any set
  of them may be in the database; the table's UNIQUE constraint does not forbid
  two standing rows of one rule, since NULLs differ. Of those the loader keeps the
  first its query returns, the model all; the instance holds none.

## Not modelled

* **Reports Plus inventory, `extract_report`, `build_dataset_map`,
  `execute_mapping`**: offline tools for the author of a recipe, reached from their
  own command line; no state is shared with the application.
* **Security assessment** importers and registry, the license file importers and
  the legacy registry: of the time before recipes, reached from the command line.
  The live application collects and imports both subjects by other ways, which
  `Collect`, `Intake` and `License` model.
* **Lab readiness, the command line, configuration, redaction**: they report and
  keep nothing.
* **The page's script** (`web/static/quick_hc.js`): its reloads can overtake each
  other; what each answer holds is in `Views`.
* **Descriptions, titles, category and label tables, charts' options**: display
  only. `engagements` is a table no route reaches. `UPLOAD_HANDLERS` is empty, and
  `RecognitionEngine.identify` without a subject has no live caller beside the
  dispatcher, which is modelled.
* **Setting a version pin** (`web/routes/quick_hc.py:538`): read by `Views`, not an
  action. **Artifact proposals**: approving one saves an artifact; their transactions
  are those of a subject proposal.
* The history files beside `latest.json` are written and never read. Splitting
  bytes into CSV cells and HTML tags, rendering and logging are libraries' work.

## Plan

Done, in the order of what matters most to the system and of what the later
modules use:

1. `SnapshotLedger`, `Finalization` and proofs: delivered snapshots.
2. `ReviewQueue`, `Catalog` and proofs: what may be collected and judged.
3. `Workspace` and proofs: for whom, and with whose token.
4. `Migrations` and proofs: on which schema.
5. `Evaluation`, `Sections`, `Views`, `Evidence`: how it is judged, stored and shown.
6. `ColumnMap`, `Collect`, `Intake`, `Acquire`: how it is acquired.
7. `License` and its proof: the one collection without a recipe.

What would come next: artifact proposals and version pins as actions of
`Catalog`; the overlapping reloads and saves of `quick_hc.js`; what the license
collection stores of the workload tables as a property.

## Running

    tlc -config FinalizationCrash.cfg MCFinalization
    tlapm FinalizationProofs.tla

The longest runs (`FinalizationConcurrent`, `CatalogSerial`,
`WorkspaceConcurrent`, `Evidence`, `Acquire`, `License`) take one to three minutes
with two workers. `WorkspaceConcurrent` has 2,284,698 distinct states, `CatalogSerial`
757,838, `Evidence` 572,028, `License` 233,303, `Acquire` 86,520.
