------------------------------ MODULE Catalog ------------------------------
(***************************************************************************)
(* The subject catalog, the review queue that feeds it and the rules bound *)
(* to it (db/staging.py, db/subjects.py, db/rules.py, mcp/server.py and    *)
(* the routes that call them).                                             *)
(*                                                                         *)
(* The web process and the MCP process write the same SQLite file, each    *)
(* request or tool call on its own connection and its own thread.  A step  *)
(* below is one SELECT outside a transaction, or one transaction: sqlite3  *)
(* opens one at the first INSERT, UPDATE or DELETE, so what an operation   *)
(* SELECTs before that may be stale when it writes.                        *)
(*                                                                         *)
(* Row ids come from AUTOINCREMENT and are never given twice; one number   *)
(* per publication stands for the ids of the rows it inserts.  A source    *)
(* has one section; its extraction_instructions are a recipe (a model      *)
(* value) and, beside it, the rules in evaluative.row_rules.  A proposal   *)
(* brings both, and nothing asks whether the rules it brings exist.        *)
(***************************************************************************)
EXTENDS Naturals, FiniteSets

CONSTANTS
    Requests,     \* web requests and tool calls that can be in flight
    Stages,       \* the stage ids propose_new_subject can hand out
    Keys,         \* subject versions <<subject, version>>
    Sources,      \* source types
    Recipes,      \* what a proposal can hold for one source
    Rules,        \* rule ids
    NoRecipe,     \* a proposal does not name this source
    NoStage, NoSubject, NoRule,   \* a request without one
    Compiles,     \* the recipes the compile gate accepts
    RefsOf,       \* the rules a recipe's metric and card entries refer to
    RowRulesOf,   \* the row rules a proposal brings with a recipe
    SystemKeys,   \* the subject versions the migrations seed
    SeedRecipe,   \* their recipe
    SeedRules,    \* the rules the migrations seed
    Overridden,   \* rules with a rule_overrides row (no code writes one)
    MaxId,        \* bound: publications
    Faults        \* whether a request may die between two steps

Subject(key) == key[1]
Subjects == {Subject(k) : k \in Keys}
Bindings == Keys \X Sources          \* one subject_section_sources row each

ASSUME RecipeAssumption ==
    /\ Compiles \subseteq Recipes
    /\ SeedRecipe \in Recipes
    /\ NoRecipe \notin Recipes
    /\ RefsOf \in [Recipes -> SUBSET Rules]
    /\ RowRulesOf \in [Recipes -> SUBSET Rules]
ASSUME SeedAssumption ==
    /\ SystemKeys \subseteq Keys
    /\ SeedRules \subseteq Rules
    /\ RefsOf[SeedRecipe] \subseteq SeedRules
ASSUME KeysAssumption == Keys # {}
ASSUME BoundAssumption == MaxId \in Nat \ {0}
ASSUME NoneAssumption ==
    NoStage \notin Stages /\ NoSubject \notin Subjects /\ NoRule \notin Rules

VARIABLES
    status,       \* staged_artifacts: unused, pending, approved, rejected,
                  \* or deleted
    content,      \* what a stage proposes (artifact_json)
    rowid,        \* subjects.id of a version, 0 when it has no row
    active,       \* subjects.status = 'active'
    system,       \* subjects.created_by = 'system'
    binding,      \* subject_section_sources rows
    registry,     \* the rule ids in rules
    lastId,       \* the AUTOINCREMENT counters
    evidence,     \* subjects with an artifact in the active project's store
    pc,           \* where a request stands
    stage,        \* the proposal it decides
    subj,         \* the subject it works on
    rule,         \* the rule it works on
    seen,         \* the binding rows it read
    cand          \* the rules it may have to reap

review == <<status, content>>
catalog == <<rowid, active, system, binding, lastId>>
locals == <<pc, stage, subj, rule, seen, cand>>
vars == <<review, catalog, registry, evidence, locals>>

Ids == 0 .. MaxId
NoBinding == [id |-> 0, recipe |-> NoRecipe, bound |-> {}]
BindingRows ==
    {row \in [id : Ids, recipe : Recipes \cup {NoRecipe}, bound : SUBSET Rules] :
        row.id # 0 => row.recipe \in Recipes}
Contents == [key : Keys, recipes : [Sources -> Recipes \cup {NoRecipe}],
             supersedes : Keys \X Ids]
Statuses == {"unused", "pending", "approved", "rejected", "deleted"}
Phases == {"idle", "publish", "settle", "settling", "reject",
           "refs", "remove", "evidence", "bind", "binding", "unbinding",
           "collect"}

(* "supersedes" is a row id; id 0, which no row has, supersedes nothing. *)
NoContent == LET k == CHOOSE k \in Keys : TRUE IN
             [key |-> k, recipes |-> [s \in Sources |-> NoRecipe],
              supersedes |-> <<k, 0>>]
NoRows == [b \in Bindings |-> NoBinding]

OfSubject(s) == {k \in Keys : Subject(k) = s}
InCatalog(s) == \E k \in OfSubject(s) : rowid[k] # 0
Active(s) == \E k \in OfSubject(s) : rowid[k] # 0 /\ active[k]

(* _collect_rule_refs: metric and card refs and row_rules alike. *)
Refs(row) == IF row.id = 0 THEN {} ELSE RefsOf[row.recipe] \cup row.bound

Init ==
    /\ status = [st \in Stages |-> "unused"]
    /\ content = [st \in Stages |-> NoContent]
    /\ rowid = [k \in Keys |-> IF k \in SystemKeys THEN 1 ELSE 0]
    /\ active = [k \in Keys |-> k \in SystemKeys]
    /\ system = [k \in Keys |-> k \in SystemKeys]
    /\ binding = [b \in Bindings |->
                    IF b[1] \in SystemKeys
                    THEN [id |-> 1, recipe |-> SeedRecipe, bound |-> {}]
                    ELSE NoBinding]
    /\ registry = SeedRules
    /\ lastId = 1
    /\ evidence = {}
    /\ pc = [r \in Requests |-> "idle"]
    /\ stage = [r \in Requests |-> NoStage]
    /\ subj = [r \in Requests |-> NoSubject]
    /\ rule = [r \in Requests |-> NoRule]
    /\ seen = [r \in Requests |-> NoRows]
    /\ cand = [r \in Requests |-> {}]

Finish(r) ==
    /\ pc' = [pc EXCEPT ![r] = "idle"]
    /\ stage' = [stage EXCEPT ![r] = NoStage]
    /\ subj' = [subj EXCEPT ![r] = NoSubject]
    /\ rule' = [rule EXCEPT ![r] = NoRule]
    /\ seen' = [seen EXCEPT ![r] = NoRows]
    /\ cand' = [cand EXCEPT ![r] = {}]

Goto(r, phase) == pc' = [pc EXCEPT ![r] = phase]

-----------------------------------------------------------------------------
(* propose_new_subject: one INSERT.  Nothing ties a proposal to what the   *)
(* catalog already holds: the version may be live, and "supersedes" is     *)
(* whatever row id the author saw.                                         *)
Propose(r, st, c) ==
    /\ pc[r] = "idle"
    /\ status[st] = "unused"
    /\ status' = [status EXCEPT ![st] = "pending"]
    /\ content' = [content EXCEPT ![st] = c]
    /\ UNCHANGED <<catalog, registry, evidence, locals>>

(* execute_approval: the row is read once ... *)
ApproveCheck(r, st) ==
    /\ pc[r] = "idle"
    /\ status[st] = "pending"
    /\ lastId + Cardinality({q \in Requests : pc[q] = "publish"}) < MaxId  \* bound
    /\ stage' = [stage EXCEPT ![r] = st]
    /\ Goto(r, "publish")
    /\ UNCHANGED <<review, catalog, registry, evidence, subj, rule, seen, cand>>

(* The rows create_subject_from_proposal leaves behind.  INSERT OR REPLACE *)
(* gives the version a new row id, 'active' and 'ai'; a source named in    *)
(* the proposal gets a new row too, whose section bindings are the         *)
(* proposal's, its row rules among them (the old ones go by cascade, bound *)
(* rules included); a source it does not name keeps its row.               *)
PublishedBinding(c, b) ==
    IF b[1] = c.key /\ c.recipes[b[2]] # NoRecipe
    THEN [id |-> lastId + 1, recipe |-> c.recipes[b[2]],
          bound |-> RowRulesOf[c.recipes[b[2]]]]
    ELSE binding[b]

(* compile_validate_proposal *)
CompileGate(c) ==
    \A s \in Sources : c.recipes[s] # NoRecipe => c.recipes[s] \in Compiles

(* ... then create_subject_from_proposal: the gate, and one transaction. *)
ApprovePublish(r) ==
    /\ pc[r] = "publish"
    /\ LET c == content[stage[r]] IN
       IF ~CompileGate(c)
       THEN /\ Finish(r)
            /\ UNCHANGED catalog
       ELSE /\ lastId < MaxId                              \* bound
            /\ lastId' = lastId + 1
            /\ rowid' = [rowid EXCEPT ![c.key] = lastId + 1]
            /\ active' = [k \in Keys |->
                            IF k = c.key THEN TRUE
                            ELSE active[k] /\ c.supersedes # <<k, rowid[k]>>]
            /\ system' = [system EXCEPT ![c.key] = FALSE]
            /\ binding' = [b \in Bindings |-> PublishedBinding(c, b)]
            /\ Goto(r, "settle")
            /\ UNCHANGED <<stage, subj, rule, seen, cand>>
    /\ UNCHANGED <<review, registry, evidence>>

(* Mutant of SettleCheck: the second check is read the wrong way round. *)
SettleCheckDecided(r) ==
    /\ pc[r] = "settle"
    /\ IF status[stage[r]] # "pending"
       THEN /\ Goto(r, "settling")
            /\ UNCHANGED <<stage, subj, rule, seen, cand>>
       ELSE Finish(r)
    /\ UNCHANGED <<review, catalog, registry, evidence>>

(* approve_staged_artifact reads the row again: it raises when another     *)
(* reviewer decided it meanwhile, and returns None when it is gone.        *)
SettleCheck(r) ==
    /\ pc[r] = "settle"
    /\ IF status[stage[r]] = "pending"
       THEN /\ Goto(r, "settling")
            /\ UNCHANGED <<stage, subj, rule, seen, cand>>
       ELSE Finish(r)
    /\ UNCHANGED <<review, catalog, registry, evidence>>

(* UPDATE ... WHERE stage_id = ?, whatever the status is by now. *)
Decide(st, verdict) ==
    status' = [status EXCEPT ![st] = IF @ = "deleted" THEN @ ELSE verdict]

SettleWrite(r) ==
    /\ pc[r] = "settling"
    /\ Decide(stage[r], "approved")
    /\ Finish(r)
    /\ UNCHANGED <<content, catalog, registry, evidence>>

RejectCheck(r, st) ==
    /\ pc[r] = "idle"
    /\ status[st] = "pending"
    /\ stage' = [stage EXCEPT ![r] = st]
    /\ Goto(r, "reject")
    /\ UNCHANGED <<review, catalog, registry, evidence, subj, rule, seen, cand>>

RejectWrite(r) ==
    /\ pc[r] = "reject"
    /\ Decide(stage[r], "rejected")
    /\ Finish(r)
    /\ UNCHANGED <<content, catalog, registry, evidence>>

-----------------------------------------------------------------------------
(* delete_subject (db/subjects.py) and its two callers.  The subject's     *)
(* rows and source ids are read first, then the rules their bindings refer *)
(* to; nothing can come between the first two reads that an earlier or a   *)
(* later interleaving does not also give, so they are one step.            *)

DeleteSubjectCheck(r, s) ==
    /\ pc[r] = "idle"
    /\ InCatalog(s)
    /\ \A k \in OfSubject(s) : ~system[k]
    /\ subj' = [subj EXCEPT ![r] = s]
    /\ seen' = [seen EXCEPT ![r] = [b \in Bindings |->
                    IF Subject(b[1]) = s THEN binding[b] ELSE NoBinding]]
    /\ Goto(r, "refs")
    /\ UNCHANGED <<review, catalog, registry, evidence, stage, rule, cand>>

(* Mutant of DeleteSubjectRefs: the refs are read after the rows are gone. *)
DeleteSubjectRefsLate(r) ==
    /\ pc[r] = "refs"
    /\ Goto(r, "remove")
    /\ UNCHANGED <<review, catalog, registry, evidence, stage, subj, rule, seen, cand>>

(* _referenced_rule_ids, over the source ids read before. *)
DeleteSubjectRefs(r) ==
    /\ pc[r] = "refs"
    /\ cand' = [cand EXCEPT ![r] =
                  UNION {Refs(binding[b]) :
                            b \in {b \in Bindings : binding[b].id = seen[r][b].id}}]
    /\ Goto(r, "remove")
    /\ UNCHANGED <<review, catalog, registry, evidence, stage, subj, rule, seen>>

Remaining(s) ==
    [b \in Bindings |-> IF Subject(b[1]) = s THEN NoBinding ELSE binding[b]]

(* Mutant of Reaped: whoever else binds the rule. *)
ReapedAll(candidates, rows) == candidates \ Overridden

(* _reap_orphaned_rules, inside the transaction: of the candidates, those  *)
(* that no surviving binding refers to and no override names.              *)
Reaped(candidates, rows) ==
    (candidates \ UNION {Refs(rows[b]) : b \in Bindings}) \ Overridden

(* Mutant of DeleteSubjectCommit: the review queue is not reconciled. *)
DeleteSubjectCommitCatalog(r) ==
    /\ pc[r] = "remove"
    /\ rowid' = [k \in Keys |-> IF Subject(k) = subj[r] THEN 0 ELSE rowid[k]]
    /\ active' = [k \in Keys |-> active[k] /\ Subject(k) # subj[r]]
    /\ system' = [k \in Keys |-> system[k] /\ Subject(k) # subj[r]]
    /\ binding' = Remaining(subj[r])
    /\ registry' = registry \ Reaped(cand[r], Remaining(subj[r]))
    /\ Goto(r, "evidence")
    /\ UNCHANGED <<review, lastId, evidence, stage, subj, rule, seen, cand>>

DeleteSubjectCommit(r) ==
    /\ pc[r] = "remove"
    /\ rowid' = [k \in Keys |-> IF Subject(k) = subj[r] THEN 0 ELSE rowid[k]]
    /\ active' = [k \in Keys |-> active[k] /\ Subject(k) # subj[r]]
    /\ system' = [k \in Keys |-> system[k] /\ Subject(k) # subj[r]]
    /\ binding' = Remaining(subj[r])
    /\ status' = [st \in Stages |->
                    IF status[st] # "unused" /\ Subject(content[st].key) = subj[r]
                    THEN "deleted" ELSE status[st]]
    /\ registry' = registry \ Reaped(cand[r], Remaining(subj[r]))
    /\ Goto(r, "evidence")
    /\ UNCHANGED <<content, lastId, evidence, stage, subj, rule, seen, cand>>

(* Mutant of DeleteEvidence: only the catalog is cleaned. *)
DeleteEvidenceKept(r) ==
    /\ pc[r] = "evidence"
    /\ Finish(r)
    /\ UNCHANGED <<review, catalog, registry, evidence>>

(* ArtifactStore.delete_artifact, after the connection is closed. *)
DeleteEvidence(r) ==
    /\ pc[r] = "evidence"
    /\ evidence' = evidence \ {subj[r]}
    /\ Finish(r)
    /\ UNCHANGED <<review, catalog, registry>>

-----------------------------------------------------------------------------
(* save_rule, bind_rule, delete_rule.  A rule's body and version are left  *)
(* out: nothing here depends on them.                                      *)

SaveRule(r, q) ==
    /\ pc[r] = "idle"
    /\ registry' = registry \cup {q}
    /\ UNCHANGED <<review, catalog, evidence, locals>>

(* With "bind": validated against the active version, saved, then bound,   *)
(* in three transactions.                                                  *)
SaveRuleAndBind(r, q, s) ==
    /\ pc[r] = "idle"
    /\ Active(s)
    /\ registry' = registry \cup {q}
    /\ rule' = [rule EXCEPT ![r] = q]
    /\ subj' = [subj EXCEPT ![r] = s]
    /\ Goto(r, "bind")
    /\ UNCHANGED <<review, catalog, evidence, stage, seen, cand>>

BindRead(r) ==
    /\ pc[r] = "bind"
    /\ seen' = [seen EXCEPT ![r] = [b \in Bindings |->
                    IF Subject(b[1]) = subj[r] THEN binding[b] ELSE NoBinding]]
    /\ Goto(r, "binding")
    /\ UNCHANGED <<review, catalog, registry, evidence, stage, subj, rule, cand>>

(* Mutant of Overwrite: the row is found by subject, source and section. *)
OverwriteByName(old, rows) ==
    [b \in Bindings |-> IF old[b].id # 0 /\ binding[b].id # 0 /\ rows[b] # old[b]
                        THEN [rows[b] EXCEPT !.id = binding[b].id]
                        ELSE binding[b]]

(* One UPDATE ... WHERE id = ? per row that changes: the whole JSON, as it *)
(* was read, with the new row_rules.  A row replaced since has another id. *)
Overwrite(old, rows) ==
    [b \in Bindings |-> IF old[b].id # 0 /\ binding[b].id = old[b].id
                             /\ rows[b] # old[b]
                        THEN rows[b] ELSE binding[b]]

(* Mutant of WithRule: the list is set, not extended. *)
OnlyRule(rows, q) == [b \in Bindings |-> [rows[b] EXCEPT !.bound = {q}]]

WithRule(rows, q) ==
    [b \in Bindings |-> [rows[b] EXCEPT !.bound = @ \cup {q}]]

WithoutRule(rows, q) ==
    [b \in Bindings |-> [rows[b] EXCEPT !.bound = @ \ {q}]]

BindWrite(r) ==
    /\ pc[r] = "binding"
    /\ binding' = Overwrite(seen[r], WithRule(seen[r], rule[r]))
    /\ Finish(r)
    /\ UNCHANGED <<review, rowid, active, system, lastId, registry, evidence>>

(* delete_rule strips evaluative.row_rules only; a metric or card ref is   *)
(* part of the recipe and stays.  The rule need not be registered.         *)
DeleteRuleRead(r, q) ==
    /\ pc[r] = "idle"
    /\ rule' = [rule EXCEPT ![r] = q]
    /\ seen' = [seen EXCEPT ![r] = binding]
    /\ Goto(r, "unbinding")
    /\ UNCHANGED <<review, catalog, registry, evidence, stage, subj, cand>>

(* Mutant of DeleteRuleCommit: the registry row only. *)
DeleteRuleCommitRow(r) ==
    /\ pc[r] = "unbinding"
    /\ registry' = registry \ {rule[r]}
    /\ Finish(r)
    /\ UNCHANGED <<review, catalog, evidence>>

DeleteRuleCommit(r) ==
    /\ pc[r] = "unbinding"
    /\ binding' = Overwrite(seen[r], WithoutRule(seen[r], rule[r]))
    /\ registry' = registry \ {rule[r]}
    /\ Finish(r)
    /\ UNCHANGED <<review, rowid, active, system, lastId, evidence>>

-----------------------------------------------------------------------------
(* A collection, as far as the catalog is concerned: the subject and its   *)
(* rules are looked up, a ref that does not resolve is an error, and the   *)
(* artifact is saved when the Commvault calls are done.                    *)

(* get_subject: the active version with the highest number. *)
Current(s) == {k \in OfSubject(s) :
                  /\ rowid[k] # 0 /\ active[k]
                  /\ \A j \in OfSubject(s) : rowid[j] # 0 /\ active[j] => j[2] <= k[2]}

Resolves(s) ==
    \A b \in Bindings : b[1] \in Current(s) => Refs(binding[b]) \subseteq registry

CollectStart(r, s) ==
    /\ pc[r] = "idle"
    /\ Active(s)
    /\ Resolves(s)
    /\ subj' = [subj EXCEPT ![r] = s]
    /\ Goto(r, "collect")
    /\ UNCHANGED <<review, catalog, registry, evidence, stage, rule, seen, cand>>

CollectSave(r) ==
    /\ pc[r] = "collect"
    /\ evidence' = evidence \cup {subj[r]}
    /\ Finish(r)
    /\ UNCHANGED <<review, catalog, registry>>

-----------------------------------------------------------------------------
(* The process is killed, or SQLite stays locked past busy_timeout: the    *)
(* transaction under way, if any, leaves nothing.                          *)
Crash(r) ==
    /\ Faults
    /\ pc[r] # "idle"
    /\ Finish(r)
    /\ UNCHANGED <<review, catalog, registry, evidence>>

Step(r) ==
    \/ ApprovePublish(r)
    \/ SettleCheck(r)
    \/ SettleWrite(r)
    \/ RejectWrite(r)
    \/ DeleteSubjectRefs(r)
    \/ DeleteSubjectCommit(r)
    \/ DeleteEvidence(r)
    \/ BindRead(r)
    \/ BindWrite(r)
    \/ DeleteRuleCommit(r)
    \/ CollectSave(r)

(* A proposal names at least one source; it supersedes a row that exists,  *)
(* or nothing.                                                             *)
Proposals ==
    {c \in [key : Keys, recipes : [Sources -> Recipes \cup {NoRecipe}],
            supersedes : {NoContent.supersedes} \cup
                         {<<k, rowid[k]>> : k \in {k \in Keys : rowid[k] # 0}}] :
        \E s \in Sources : c.recipes[s] # NoRecipe}

Arrive(r) ==
    \/ \E st \in Stages, c \in Proposals : Propose(r, st, c)
    \/ \E st \in Stages : ApproveCheck(r, st) \/ RejectCheck(r, st)
    \/ \E s \in Subjects : DeleteSubjectCheck(r, s) \/ CollectStart(r, s)
    \/ \E q \in Rules : SaveRule(r, q) \/ DeleteRuleRead(r, q)
    \/ \E q \in Rules, s \in Subjects : SaveRuleAndBind(r, q, s)

Next == \E r \in Requests : Step(r) \/ Arrive(r) \/ Crash(r)

Spec == Init /\ [][Next]_vars

(* A request or tool call that has started runs to its end on its thread; *)
(* none ever has to arrive.                                                *)
FairSpec == Spec /\ \A r \in Requests : WF_vars(Step(r))

-----------------------------------------------------------------------------
ReviewTypeOK ==
    /\ status \in [Stages -> Statuses]
    /\ content \in [Stages -> Contents]

CatalogTypeOK ==
    /\ rowid \in [Keys -> Ids]
    /\ active \in [Keys -> BOOLEAN]
    /\ system \in [Keys -> BOOLEAN]
    /\ binding \in [Bindings -> BindingRows]
    /\ lastId \in Ids
    /\ registry \subseteq Rules
    /\ evidence \subseteq Subjects

RequestTypeOK ==
    /\ pc \in [Requests -> Phases]
    /\ stage \in [Requests -> Stages \cup {NoStage}]
    /\ subj \in [Requests -> Subjects \cup {NoSubject}]
    /\ rule \in [Requests -> Rules \cup {NoRule}]
    /\ seen \in [Requests -> [Bindings -> BindingRows]]
    /\ cand \in [Requests -> SUBSET Rules]

TypeOK == ReviewTypeOK /\ CatalogTypeOK /\ RequestTypeOK

-----------------------------------------------------------------------------
(* What holds whatever runs concurrently and wherever requests die.        *)

(* An approved proposal has its subject version in the catalog: publishing *)
(* comes first, and a subject's rows and proposals are removed together    *)
(* ("a delete can't leave an orphaned approved proposal",                  *)
(* subjects.py:396-400).                                                   *)
ApprovedIsLive ==
    \A st \in Stages : status[st] = "approved" => rowid[content[st].key] # 0

(* A row of section bindings keeps the recipe it was published with: a     *)
(* rule is bound and unbound by writing back the whole JSON as it was read,*)
(* however old that is (ADR 0015 D2a, rules.py:34-42).                     *)
RecipeStable ==
    [][\A b \in Bindings :
          binding[b].id # 0 /\ binding'[b].id = binding[b].id
              => binding'[b].recipe = binding[b].recipe]_vars

(* Removing a subject never breaks another: a rule that a surviving        *)
(* binding refers to is not reaped, even when it was bound after the       *)
(* candidates were collected.                                              *)
ReapSparesBound ==
    [][\A r \in Requests :
          pc[r] = "remove" /\ pc'[r] = "evidence"
              => \A b \in Bindings :
                    Refs(binding'[b]) \cap registry \subseteq registry']_vars

(* The inductive invariant behind these three: a proposal being decided    *)
(* still has its row, or was deleted with its subject, and once published  *)
(* its version is live; no id is given twice, so a row read earlier is     *)
(* either the row that is there now, with the same recipe, or gone.        *)
RequestShape ==
    \A r \in Requests :
        /\ pc[r] \in {"publish", "settle", "settling", "reject"} => stage[r] \in Stages
        /\ pc[r] \in {"refs", "remove", "evidence", "bind", "binding", "collect"}
              => subj[r] \in Subjects
        /\ pc[r] \in {"bind", "binding", "unbinding"} => rule[r] \in Rules

DecidingIsReviewable ==
    \A r \in Requests :
        /\ pc[r] \in {"publish", "settle", "settling", "reject"}
              => status[stage[r]] # "unused"
        /\ pc[r] \in {"settle", "settling"}
              => \/ status[stage[r]] = "deleted"
                 \/ rowid[content[stage[r]].key] # 0

IdsAreGiven ==
    \A b \in Bindings :
        /\ binding[b].id <= lastId
        /\ \A r \in Requests : seen[r][b].id <= lastId

SeenIsCurrent ==
    \A r \in Requests, b \in Bindings :
        seen[r][b].id # 0 /\ seen[r][b].id = binding[b].id
            => seen[r][b].recipe = binding[b].recipe

IInv == /\ TypeOK
        /\ RequestShape
        /\ DecidingIsReviewable
        /\ ApprovedIsLive
        /\ IdsAreGiven
        /\ SeenIsCurrent

-----------------------------------------------------------------------------
(* What holds with one request at a time. *)

(* Only a publication can bring a bound rule that does not resolve (it     *)
(* stores what was proposed): in a row that stays, no step leaves a        *)
(* reference dangling that was not.  delete_rule strips the rule from      *)
(* every section ("so a later collection can't hit the loud 'unknown ref'" *)
(* rules.py:323-324), reaping spares it, and it is saved before it is      *)
(* bound.                                                                  *)
OnlyProposalsDangle ==
    [][\A b \in Bindings : \A q \in binding'[b].bound \ registry' :
          binding'[b].id = binding[b].id => q \in binding[b].bound \ registry]_vars

(* Once bound, a rule stays bound to the row until the rule itself goes:   *)
(* no later binding overwrites it.                                         *)
BoundRulesStay ==
    [][\A b \in Bindings : \A q \in binding[b].bound :
          binding'[b].id = binding[b].id /\ q \notin binding'[b].bound
              => q \notin registry']_vars

(* A removed subject leaves no rule behind that only it used.              *)
ReapLeavesNoOrphan ==
    [][\A r \in Requests :
          pc[r] = "remove" /\ pc'[r] = "evidence"
              => \A b \in Bindings : \A q \in Refs(binding[b]) :
                    Subject(b[1]) = subj[r] /\ q \in registry'
                        => \/ q \in Overridden
                           \/ \E d \in Bindings : q \in Refs(binding'[d])]_vars

(* "No half-done state where the catalog row is gone but a stray artifact  *)
(* survives" (mcp/server.py:412-413), without a crash.                     *)
EvidenceHasSubject ==
    \A s \in evidence :
        InCatalog(s) \/ \E r \in Requests : pc[r] = "evidence" /\ subj[r] = s

(* The inductive invariant behind these: what a request read, counted or   *)
(* checked still holds when it writes.                                     *)
OneAtATime == \A r, q \in Requests : r = q

RowsOf(s) == [b \in Bindings |-> IF Subject(b[1]) = s THEN binding[b] ELSE NoBinding]

WorksOnCurrent ==
    \A r \in Requests :
        /\ pc[r] \in {"publish", "settle", "settling", "reject"}
              => status[stage[r]] = "pending"
        /\ pc[r] \in {"refs", "remove", "collect"} => InCatalog(subj[r])
        /\ pc[r] \in {"refs", "binding"} => seen[r] = RowsOf(subj[r])
        /\ pc[r] = "unbinding" => seen[r] = binding
        /\ pc[r] \in {"bind", "binding"} => rule[r] \in registry
        /\ pc[r] = "remove" =>
              \A b \in Bindings : Subject(b[1]) = subj[r] => Refs(binding[b]) \subseteq cand[r]

NoRowNoRules == \A b \in Bindings : binding[b].id = 0 => binding[b] = NoBinding

SerialInv == WorksOnCurrent /\ NoRowNoRules

(* A proposal that was published does not stay in the queue.               *)
PublishIsSettled ==
    \A r \in Requests, st \in Stages :
        (pc[r] = "settle" /\ stage[r] = st) ~> (status[st] = "approved")

(* Publishing and marking the proposal approved are two transactions; they *)
(* are one step of the review, taken when the first commits.               *)
Publishing(st) ==
    \E r \in Requests : pc[r] \in {"settle", "settling"} /\ stage[r] = st

Review == INSTANCE ReviewQueue
              WITH queue <- [st \in Stages |-> IF Publishing(st) THEN "approved"
                                                ELSE status[st]],
                   topic <- [st \in Stages |-> content[st].key],
                   live  <- {k \in Keys : rowid[k] # 0}

ImplementsReview == Review!Spec

=============================================================================
