--------------------------- MODULE CatalogProofs ---------------------------
(* Proofs about Catalog, for every set of requests, proposals, subjects,   *)
(* sources and rules.                                                      *)
EXTENDS Catalog, TLAPS

Typed == TypeOK /\ RequestShape

-----------------------------------------------------------------------------
(* Rows of bindings. *)

LEMMA RuleEditsKeepRows ==
    ASSUME NEW rows \in [Bindings -> BindingRows], NEW q \in Rules
    PROVE  /\ WithRule(rows, q) \in [Bindings -> BindingRows]
           /\ WithoutRule(rows, q) \in [Bindings -> BindingRows]
           /\ \A b \in Bindings : /\ WithRule(rows, q)[b].id = rows[b].id
                                  /\ WithRule(rows, q)[b].recipe = rows[b].recipe
                                  /\ WithoutRule(rows, q)[b].id = rows[b].id
                                  /\ WithoutRule(rows, q)[b].recipe = rows[b].recipe
  BY DEF WithRule, WithoutRule, BindingRows

LEMMA OverwriteType ==
    ASSUME binding \in [Bindings -> BindingRows],
           NEW old \in [Bindings -> BindingRows],
           NEW rows \in [Bindings -> BindingRows]
    PROVE  Overwrite(old, rows) \in [Bindings -> BindingRows]
  BY DEF Overwrite

(* A write by id does not change ids; and when what is written has the     *)
(* recipe of the row it was read from, it does not change recipes.         *)
LEMMA OverwriteKeepsRecipes ==
    ASSUME NEW old, NEW rows,
           \A b \in Bindings : rows[b].id = old[b].id /\ rows[b].recipe = old[b].recipe,
           \A b \in Bindings : old[b].id # 0 /\ old[b].id = binding[b].id
                                  => old[b].recipe = binding[b].recipe
    PROVE  \A b \in Bindings : /\ Overwrite(old, rows)[b].id = binding[b].id
                               /\ Overwrite(old, rows)[b].recipe = binding[b].recipe
  BY DEF Overwrite

LEMMA NoRowsType == NoBinding \in BindingRows /\ NoRows \in [Bindings -> BindingRows]
  BY BoundAssumption DEF NoBinding, BindingRows, NoRows, Ids

LEMMA SubjectOfBinding == \A b \in Bindings : b[1] \in Keys /\ b[2] \in Sources
  BY DEF Bindings

LEMMA RefsType ==
    ASSUME NEW row \in BindingRows
    PROVE  Refs(row) \in SUBSET Rules
  BY RecipeAssumption DEF Refs, BindingRows

-----------------------------------------------------------------------------
(* Types. *)

LEMMA FinishType ==
    ASSUME RequestTypeOK, NEW r \in Requests, Finish(r)
    PROVE  RequestTypeOK'
  BY NoRowsType DEF RequestTypeOK, Finish, Phases

LEMMA InitTyped == Init => Typed
<1> SUFFICES ASSUME Init PROVE Typed
  OBVIOUS
<1>1. (CHOOSE k \in Keys : TRUE) \in Keys
  BY KeysAssumption
<1>2. NoContent \in Contents
  BY <1>1, BoundAssumption DEF NoContent, Contents, Ids
<1>3. ReviewTypeOK
  BY <1>2 DEF Init, ReviewTypeOK, Statuses
<1>4. /\ rowid \in [Keys -> Ids]
      /\ active \in [Keys -> BOOLEAN]
      /\ system \in [Keys -> BOOLEAN]
      /\ lastId \in Ids
      /\ registry \subseteq Rules
      /\ evidence \subseteq Subjects
  BY BoundAssumption, SeedAssumption DEF Init, Ids
<1>5. binding \in [Bindings -> BindingRows]
  BY NoRowsType, RecipeAssumption, BoundAssumption DEF Init, BindingRows, Ids
<1>6. RequestTypeOK
  BY NoRowsType DEF Init, RequestTypeOK, Phases
<1>7. RequestShape
  BY DEF Init, RequestShape
<1>8. QED
  BY <1>3, <1>4, <1>5, <1>6, <1>7 DEF Typed, TypeOK, CatalogTypeOK
(* A step that leaves the database alone and only moves its request on. *)
LEMMA LocalStep ==
    ASSUME Typed, UNCHANGED <<review, catalog, registry, evidence>>, RequestTypeOK',
           RequestShape'
    PROVE  Typed'
  BY DEF Typed, TypeOK, ReviewTypeOK, CatalogTypeOK, review, catalog, Contents,
         BindingRows, Ids

(* A request at rest has no shape to keep. *)
LEMMA FinishShape ==
    ASSUME RequestShape, NEW r \in Requests, RequestTypeOK, Finish(r)
    PROVE  RequestShape'
  BY DEF RequestShape, RequestTypeOK, Finish

LEMMA ArriveTyped ==
    ASSUME Typed, NEW r \in Requests, Arrive(r)
    PROVE  Typed'
<1> USE DEF Typed, TypeOK
<1>1. CASE \E st \in Stages, c \in Proposals : Propose(r, st, c)
  <2> PICK st \in Stages, c \in Proposals : Propose(r, st, c)
    BY <1>1
  <2>1. c \in Contents
    <3>1. (CHOOSE k \in Keys : TRUE) \in Keys
      BY KeysAssumption
    <3>2. \A k \in Keys : rowid[k] \in Ids
      BY DEF CatalogTypeOK
    <3>3. QED
      BY <3>1, <3>2, BoundAssumption DEF Proposals, Contents, NoContent, Ids
  <2>2. ReviewTypeOK'
    BY <2>1 DEF Propose, ReviewTypeOK, Statuses
  <2>3. CatalogTypeOK' /\ RequestTypeOK' /\ RequestShape'
    BY DEF Propose, CatalogTypeOK, RequestTypeOK, RequestShape, catalog, locals
  <2>4. QED
    BY <2>2, <2>3
<1>2. CASE \E st \in Stages : ApproveCheck(r, st) \/ RejectCheck(r, st)
  <2> PICK st \in Stages : ApproveCheck(r, st) \/ RejectCheck(r, st)
    BY <1>2
  <2>1. UNCHANGED <<review, catalog, registry, evidence>>
    BY DEF ApproveCheck, RejectCheck
  <2>2. RequestTypeOK' /\ RequestShape'
    BY DEF ApproveCheck, RejectCheck, RequestTypeOK, RequestShape, Goto, Phases
  <2>3. QED
    BY <2>1, <2>2, LocalStep
<1>3. CASE \E s \in Subjects : DeleteSubjectCheck(r, s) \/ CollectStart(r, s)
  <2> PICK s \in Subjects : DeleteSubjectCheck(r, s) \/ CollectStart(r, s)
    BY <1>3
  <2>1. CASE DeleteSubjectCheck(r, s)
    <3>1. seen' \in [Requests -> [Bindings -> BindingRows]]
      BY <2>1, NoRowsType DEF DeleteSubjectCheck, RequestTypeOK, CatalogTypeOK
    <3>2. RequestTypeOK' /\ RequestShape'
      BY <2>1, <3>1 DEF DeleteSubjectCheck, RequestTypeOK, RequestShape, Goto, Phases
    <3>3. QED
      BY <2>1, <3>2, LocalStep DEF DeleteSubjectCheck
  <2>2. CASE CollectStart(r, s)
    <3>1. RequestTypeOK' /\ RequestShape'
      BY <2>2 DEF CollectStart, RequestTypeOK, RequestShape, Goto, Phases
    <3>2. QED
      BY <2>2, <3>1, LocalStep DEF CollectStart
  <2>3. QED
    BY <2>1, <2>2
<1>4. CASE \E q \in Rules : SaveRule(r, q) \/ DeleteRuleRead(r, q)
  <2> PICK q \in Rules : SaveRule(r, q) \/ DeleteRuleRead(r, q)
    BY <1>4
  <2>1. CASE SaveRule(r, q)
    BY <2>1 DEF SaveRule, ReviewTypeOK, CatalogTypeOK, RequestTypeOK, RequestShape,
                review, catalog, locals
  <2>2. CASE DeleteRuleRead(r, q)
    <3>1. seen' \in [Requests -> [Bindings -> BindingRows]]
      BY <2>2 DEF DeleteRuleRead, RequestTypeOK, CatalogTypeOK
    <3>2. RequestTypeOK' /\ RequestShape'
      BY <2>2, <3>1 DEF DeleteRuleRead, RequestTypeOK, RequestShape, Goto, Phases
    <3>3. QED
      BY <2>2, <3>2, LocalStep DEF DeleteRuleRead
  <2>3. QED
    BY <2>1, <2>2
<1>5. CASE \E q \in Rules, s \in Subjects : SaveRuleAndBind(r, q, s)
  <2> PICK q \in Rules, s \in Subjects : SaveRuleAndBind(r, q, s)
    BY <1>5
  <2>1. ReviewTypeOK' /\ CatalogTypeOK'
    BY DEF SaveRuleAndBind, ReviewTypeOK, CatalogTypeOK, review, catalog
  <2>2. RequestTypeOK' /\ RequestShape'
    BY DEF SaveRuleAndBind, RequestTypeOK, RequestShape, Goto, Phases
  <2>3. QED
    BY <2>1, <2>2
<1>6. QED
  BY <1>1, <1>2, <1>3, <1>4, <1>5 DEF Arrive
(* Publishing types, one lemma for each store it writes. *)
LEMMA PublishTyped ==
    ASSUME Typed, NEW r \in Requests, ApprovePublish(r)
    PROVE  Typed'
<1> USE DEF Typed, TypeOK
<1> DEFINE c == content[stage[r]]
<1>1. c \in Contents
  BY DEF ApprovePublish, RequestShape, ReviewTypeOK
<1>2. ReviewTypeOK'
  BY DEF ApprovePublish, ReviewTypeOK, review
<1>3. CASE ~CompileGate(c)
  <2>1. Finish(r) /\ UNCHANGED <<review, catalog, registry, evidence>>
    BY <1>3 DEF ApprovePublish
  <2>2. RequestTypeOK' /\ RequestShape'
    BY <2>1, FinishType, FinishShape
  <2>3. QED
    BY <2>1, <2>2, LocalStep
<1>4. CASE CompileGate(c)
  <2>1. /\ lastId < MaxId
        /\ lastId' = lastId + 1
        /\ rowid' = [rowid EXCEPT ![c.key] = lastId + 1]
        /\ active' = [k \in Keys |->
                         IF k = c.key THEN TRUE
                         ELSE active[k] /\ c.supersedes # <<k, rowid[k]>>]
        /\ system' = [system EXCEPT ![c.key] = FALSE]
        /\ binding' = [b \in Bindings |-> PublishedBinding(c, b)]
        /\ Goto(r, "settle")
        /\ UNCHANGED <<stage, subj, rule, seen, cand, registry, evidence>>
    BY <1>4 DEF ApprovePublish
  <2>2. lastId + 1 \in Ids
    BY <2>1, BoundAssumption DEF CatalogTypeOK, Ids
  <2>3. lastId + 1 # 0
    BY DEF CatalogTypeOK, Ids
  <2>4. \A b \in Bindings : PublishedBinding(c, b) \in BindingRows
    <3> SUFFICES ASSUME NEW b \in Bindings PROVE PublishedBinding(c, b) \in BindingRows
      OBVIOUS
    <3>1. c.recipes[b[2]] \in Recipes \cup {NoRecipe}
      BY <1>1, SubjectOfBinding DEF Contents
    <3>2. CASE /\ b[1] = c.key /\ c.recipes[b[2]] # NoRecipe
      <4>1. RowRulesOf[c.recipes[b[2]]] \in SUBSET Rules
        BY <3>1, <3>2, RecipeAssumption
      <4>2. QED
        BY <2>2, <3>1, <3>2, <4>1 DEF PublishedBinding, BindingRows
    <3>3. QED
      BY <3>2 DEF PublishedBinding, CatalogTypeOK
  <2>5. \A k \in Keys : (IF k = c.key THEN TRUE
                         ELSE active[k] /\ c.supersedes # <<k, rowid[k]>>) \in BOOLEAN
    OBVIOUS
  <2>6. CatalogTypeOK'
    <3>1. binding' \in [Bindings -> BindingRows]
      BY <2>1, <2>4
    <3>2. active' \in [Keys -> BOOLEAN]
      BY <2>1, <2>5, Zenon
    <3>3. QED
      BY <2>1, <2>2, <3>1, <3>2 DEF CatalogTypeOK
  <2>7. RequestTypeOK' /\ RequestShape'
    BY <2>1 DEF ApprovePublish, RequestTypeOK, RequestShape, Goto, Phases
  <2>8. QED
    BY <1>2, <2>6, <2>7
<1>5. QED
  BY <1>3, <1>4

LEMMA DeleteSubjectTyped ==
    ASSUME Typed, NEW r \in Requests, DeleteSubjectCommit(r)
    PROVE  Typed'
<1> USE DEF Typed, TypeOK
<1>1. ReviewTypeOK'
  BY DEF DeleteSubjectCommit, ReviewTypeOK, Statuses
<1>2. Remaining(subj[r]) \in [Bindings -> BindingRows]
  BY NoRowsType DEF Remaining, CatalogTypeOK
<1>3. /\ rowid' \in [Keys -> Ids]
      /\ active' \in [Keys -> BOOLEAN]
      /\ system' \in [Keys -> BOOLEAN]
  <2>1. rowid' \in [Keys -> Ids]
    BY BoundAssumption DEF DeleteSubjectCommit, CatalogTypeOK, Ids
  <2>2. active' \in [Keys -> BOOLEAN]
    BY Zenon DEF DeleteSubjectCommit
  <2>3. system' \in [Keys -> BOOLEAN]
    BY Zenon DEF DeleteSubjectCommit
  <2>4. QED
    BY <2>1, <2>2, <2>3
<1>4. CatalogTypeOK'
  <2>1. registry' \subseteq Rules /\ binding' = Remaining(subj[r])
        /\ lastId' = lastId /\ evidence' = evidence
    BY DEF DeleteSubjectCommit, CatalogTypeOK
  <2>2. QED
    BY <1>2, <1>3, <2>1 DEF CatalogTypeOK
<1>5. RequestTypeOK' /\ RequestShape'
  BY DEF DeleteSubjectCommit, RequestTypeOK, RequestShape, Goto, Phases
<1>6. QED
  BY <1>1, <1>4, <1>5

LEMMA StepTyped ==
    ASSUME Typed, NEW r \in Requests, Step(r)
    PROVE  Typed'
<1> USE DEF Typed, TypeOK
<1>1. CASE ApprovePublish(r)
  BY <1>1, PublishTyped
<1>2. CASE SettleCheck(r)
  <2>1. CASE status[stage[r]] = "pending"
    <3>1. RequestTypeOK' /\ RequestShape'
      BY <1>2, <2>1 DEF SettleCheck, RequestTypeOK, RequestShape, Goto, Phases
    <3>2. QED
      BY <1>2, <3>1, LocalStep DEF SettleCheck
  <2>2. CASE status[stage[r]] # "pending"
    <3>1. Finish(r) /\ UNCHANGED <<review, catalog, registry, evidence>>
      BY <1>2, <2>2 DEF SettleCheck
    <3>2. QED
      BY <3>1, FinishType, FinishShape, LocalStep
  <2>3. QED
    BY <2>1, <2>2
<1>3. CASE SettleWrite(r) \/ RejectWrite(r)
  <2>1. ReviewTypeOK' /\ CatalogTypeOK' /\ Finish(r)
    BY <1>3 DEF SettleWrite, RejectWrite, Decide, ReviewTypeOK, CatalogTypeOK,
                Statuses, catalog
  <2>2. QED
    BY <2>1, FinishType, FinishShape
<1>4. CASE DeleteSubjectRefs(r)
  <2>1. \A b \in Bindings : Refs(binding[b]) \in SUBSET Rules
    BY RefsType DEF CatalogTypeOK
  <2>2. cand' \in [Requests -> SUBSET Rules]
    BY <1>4, <2>1 DEF DeleteSubjectRefs, RequestTypeOK
  <2>3. RequestTypeOK' /\ RequestShape'
    BY <1>4, <2>2 DEF DeleteSubjectRefs, RequestTypeOK, RequestShape, Goto, Phases
  <2>4. QED
    BY <1>4, <2>3, LocalStep DEF DeleteSubjectRefs
<1>5. CASE DeleteSubjectCommit(r)
  BY <1>5, DeleteSubjectTyped
<1>6. CASE DeleteEvidence(r) \/ CollectSave(r)
  <2>1. ReviewTypeOK' /\ CatalogTypeOK' /\ Finish(r)
    BY <1>6 DEF DeleteEvidence, CollectSave, ReviewTypeOK, CatalogTypeOK, RequestShape,
                review, catalog
  <2>2. QED
    BY <2>1, FinishType, FinishShape
<1>7. CASE BindRead(r)
  <2>1. seen' \in [Requests -> [Bindings -> BindingRows]]
    BY <1>7, NoRowsType DEF BindRead, RequestTypeOK, CatalogTypeOK
  <2>2. RequestTypeOK' /\ RequestShape'
    BY <1>7, <2>1 DEF BindRead, RequestTypeOK, RequestShape, Goto, Phases
  <2>3. QED
    BY <1>7, <2>2, LocalStep DEF BindRead
<1>8. CASE BindWrite(r)
  <2>1. binding' \in [Bindings -> BindingRows]
    BY <1>8, RuleEditsKeepRows, OverwriteType
       DEF BindWrite, RequestTypeOK, CatalogTypeOK, RequestShape
  <2>2. ReviewTypeOK' /\ CatalogTypeOK' /\ Finish(r)
    BY <1>8, <2>1 DEF BindWrite, ReviewTypeOK, CatalogTypeOK, review
  <2>3. QED
    BY <2>2, FinishType, FinishShape
<1>9. CASE DeleteRuleCommit(r)
  <2>1. binding' \in [Bindings -> BindingRows]
    BY <1>9, RuleEditsKeepRows, OverwriteType
       DEF DeleteRuleCommit, RequestTypeOK, CatalogTypeOK, RequestShape
  <2>2. ReviewTypeOK' /\ CatalogTypeOK' /\ Finish(r)
    BY <1>9, <2>1 DEF DeleteRuleCommit, ReviewTypeOK, CatalogTypeOK, review
  <2>3. QED
    BY <2>2, FinishType, FinishShape
<1>10. QED
  BY <1>1, <1>2, <1>3, <1>4, <1>5, <1>6, <1>7, <1>8, <1>9 DEF Step

LEMMA NextTyped == Typed /\ [Next]_vars => Typed'
<1> SUFFICES ASSUME Typed, [Next]_vars PROVE Typed'
  OBVIOUS
<1>1. CASE Next
  <2> PICK r \in Requests : Step(r) \/ Arrive(r) \/ Crash(r)
    BY <1>1 DEF Next
  <2>1. CASE Crash(r)
    BY <2>1, FinishType, FinishShape, LocalStep DEF Crash, Typed, TypeOK
  <2>2. QED
    BY <2>1, StepTyped, ArriveTyped
<1>2. CASE UNCHANGED vars
  BY <1>2 DEF vars, locals, review, catalog, Typed, TypeOK, ReviewTypeOK,
              CatalogTypeOK, RequestTypeOK, RequestShape, Contents
<1>3. QED
  BY <1>1, <1>2

(* Every variable of the catalog keeps its type. *)
THEOREM CatalogTypeCorrect == Spec => []TypeOK
<1>1. Spec => []Typed
  BY InitTyped, NextTyped, PTL DEF Spec
<1>2. Typed => TypeOK
  BY DEF Typed
<1>3. QED
  BY <1>1, <1>2, PTL
-----------------------------------------------------------------------------
(* The review queue. *)

Decided == DecidingIsReviewable /\ ApprovedIsLive

(* A step that neither decides a proposal nor touches a subject's row, and *)
(* takes no request into a review.                                         *)
LEMMA DecidedFrame ==
    ASSUME Decided, UNCHANGED <<status, content, rowid>>,
           \A r \in Requests :
              pc'[r] \in {"publish", "settle", "settling", "reject"}
                  => pc'[r] = pc[r] /\ stage'[r] = stage[r]
    PROVE  Decided'
  BY DEF Decided, DecidingIsReviewable, ApprovedIsLive

LEMMA ArriveDecided ==
    ASSUME Typed, Decided, NEW r \in Requests, Arrive(r)
    PROVE  Decided'
<1> USE DEF Typed, TypeOK
<1>1. CASE \E st \in Stages, c \in Proposals : Propose(r, st, c)
  <2> PICK st \in Stages, c \in Proposals : Propose(r, st, c)
    BY <1>1
  <2>1. \A t \in Stages : status[t] # "unused"
                            => status'[t] = status[t] /\ content'[t] = content[t]
    BY DEF Propose, ReviewTypeOK
  <2>2. \A t \in Stages : status'[t] = "approved" => status[t] = "approved"
    BY DEF Propose, ReviewTypeOK
  <2>3. UNCHANGED <<rowid, pc, stage>>
    BY DEF Propose, catalog, locals
  <2>4. DecidingIsReviewable'
    BY <2>1, <2>3 DEF Decided, DecidingIsReviewable, RequestShape
  <2>5. ApprovedIsLive'
    BY <2>1, <2>2, <2>3 DEF Decided, ApprovedIsLive
  <2>6. QED
    BY <2>4, <2>5 DEF Decided
<1>2. CASE \E st \in Stages : ApproveCheck(r, st) \/ RejectCheck(r, st)
  BY <1>2 DEF ApproveCheck, RejectCheck, Decided, DecidingIsReviewable, ApprovedIsLive,
              RequestTypeOK, Goto, review, catalog
<1>3. CASE \E s \in Subjects : DeleteSubjectCheck(r, s) \/ CollectStart(r, s)
  BY <1>3, DecidedFrame DEF DeleteSubjectCheck, CollectStart, RequestTypeOK, Goto,
                            review, catalog
<1>4. CASE \E q \in Rules : SaveRule(r, q) \/ DeleteRuleRead(r, q)
  BY <1>4, DecidedFrame DEF SaveRule, DeleteRuleRead, RequestTypeOK, Goto, review,
                            catalog, locals
<1>5. CASE \E q \in Rules, s \in Subjects : SaveRuleAndBind(r, q, s)
  BY <1>5, DecidedFrame DEF SaveRuleAndBind, RequestTypeOK, Goto, review, catalog
<1>6. QED
  BY <1>1, <1>2, <1>3, <1>4, <1>5 DEF Arrive

LEMMA FinishDecided ==
    ASSUME Typed, Decided, NEW r \in Requests, Finish(r),
           UNCHANGED <<status, content, rowid>>
    PROVE  Decided'
  BY DecidedFrame DEF Finish, Typed, TypeOK, RequestTypeOK

LEMMA PublishDecided ==
    ASSUME Typed, Decided, NEW r \in Requests, ApprovePublish(r)
    PROVE  Decided'
<1> USE DEF Typed, TypeOK
<1> DEFINE c == content[stage[r]]
<1>1. CASE ~CompileGate(c)
  BY <1>1, FinishDecided DEF ApprovePublish, review, catalog
<1>2. CASE CompileGate(c)
  <2>1. /\ rowid' = [rowid EXCEPT ![c.key] = lastId + 1]
        /\ Goto(r, "settle")
        /\ UNCHANGED <<stage, status, content>>
    BY <1>2 DEF ApprovePublish, review
  <2>2. c.key \in Keys /\ lastId + 1 # 0
    BY DEF ApprovePublish, RequestShape, ReviewTypeOK, Contents, CatalogTypeOK, Ids
  <2>3. rowid'[c.key] # 0 /\ \A k \in Keys : rowid[k] # 0 => rowid'[k] # 0
    BY <2>1, <2>2 DEF CatalogTypeOK
  <2>4. \A st \in Stages : content[st].key \in Keys
    BY DEF ReviewTypeOK, Contents
  <2>5. ApprovedIsLive'
    BY <2>1, <2>3, <2>4 DEF Decided, ApprovedIsLive
  <2>6. \A q \in Requests \ {r} : pc'[q] = pc[q]
    BY <2>1 DEF Goto, RequestTypeOK
  <2>7. pc[r] = "publish" /\ pc'[r] = "settle"
    BY <2>1 DEF ApprovePublish, Goto, RequestTypeOK
  <2>8. DecidingIsReviewable'
    BY <2>1, <2>3, <2>4, <2>6, <2>7 DEF Decided, DecidingIsReviewable, RequestShape
  <2>9. QED
    BY <2>5, <2>8 DEF Decided
<1>3. QED
  BY <1>1, <1>2

LEMMA DecideDecided ==
    ASSUME Typed, Decided, NEW r \in Requests, SettleWrite(r) \/ RejectWrite(r)
    PROVE  Decided'
<1> USE DEF Typed, TypeOK
<1>1. /\ Finish(r) /\ UNCHANGED <<content, rowid>>
      /\ stage[r] \in Stages /\ status[stage[r]] # "unused"
  BY DEF SettleWrite, RejectWrite, catalog, RequestShape, Decided, DecidingIsReviewable
<1>2. \A st \in Stages : /\ status[st] = "deleted" <=> status'[st] = "deleted"
                         /\ status[st] = "unused" <=> status'[st] = "unused"
  BY <1>1 DEF SettleWrite, RejectWrite, Decide, ReviewTypeOK
<1>3. \A q \in Requests : \/ pc'[q] = "idle"
                          \/ pc'[q] = pc[q] /\ stage'[q] = stage[q]
  BY <1>1 DEF Finish, RequestTypeOK
<1>4. DecidingIsReviewable'
  BY <1>1, <1>2, <1>3 DEF Decided, DecidingIsReviewable, RequestShape
<1>5. \A st \in Stages : status'[st] = "approved" /\ status[st] # "approved"
                         => pc[r] = "settling" /\ st = stage[r] /\ status[st] # "deleted"
  BY <1>1 DEF SettleWrite, RejectWrite, Decide, ReviewTypeOK
<1>6. ApprovedIsLive'
  BY <1>1, <1>5 DEF Decided, DecidingIsReviewable, ApprovedIsLive
<1>7. QED
  BY <1>4, <1>6 DEF Decided

LEMMA DeleteSubjectDecided ==
    ASSUME Typed, Decided, NEW r \in Requests, DeleteSubjectCommit(r)
    PROVE  Decided'
<1> USE DEF Typed, TypeOK
<1>1. \A st \in Stages : content[st].key \in Keys
  BY DEF ReviewTypeOK, Contents
<1>2. \A st \in Stages :
          status[st] # "unused" => \/ status'[st] = "deleted"
                                  \/ /\ status'[st] = status[st]
                                     /\ rowid'[content[st].key] = rowid[content[st].key]
  BY <1>1 DEF DeleteSubjectCommit, ReviewTypeOK
<1>3. \A st \in Stages : status'[st] # "unused" => status[st] # "unused"
  BY DEF DeleteSubjectCommit
<1>4. \A q \in Requests :
          \/ pc'[q] = "evidence"
          \/ pc'[q] = pc[q] /\ stage'[q] = stage[q]
  BY DEF DeleteSubjectCommit, Goto, RequestTypeOK
<1>5. content' = content
  BY DEF DeleteSubjectCommit
<1>6. DecidingIsReviewable'
  <2> SUFFICES ASSUME NEW q \in Requests,
                      pc'[q] \in {"publish", "settle", "settling", "reject"}
               PROVE  /\ status'[stage'[q]] # "unused"
                      /\ pc'[q] \in {"settle", "settling"}
                            => \/ status'[stage'[q]] = "deleted"
                               \/ rowid'[content'[stage'[q]].key] # 0
    BY DEF DecidingIsReviewable
  <2>1. pc'[q] = pc[q] /\ stage'[q] = stage[q]
    BY <1>4
  <2>2. stage[q] \in Stages /\ status[stage[q]] # "unused"
    BY <2>1 DEF RequestShape, Decided, DecidingIsReviewable
  <2>3. pc[q] \in {"settle", "settling"}
            => status[stage[q]] = "deleted" \/ rowid[content[stage[q]].key] # 0
    BY DEF Decided, DecidingIsReviewable
  <2>4. QED
    BY <1>2, <1>5, <2>1, <2>2, <2>3
<1>7. ApprovedIsLive'
  BY <1>2, <1>3, <1>5 DEF Decided, ApprovedIsLive
<1>8. QED
  BY <1>6, <1>7 DEF Decided
LEMMA NextDecided == Typed /\ Decided /\ [Next]_vars => Decided'
<1> SUFFICES ASSUME Typed, Decided, [Next]_vars PROVE Decided'
  OBVIOUS
<1>1. ASSUME NEW r \in Requests, Step(r) PROVE Decided'
  <2> USE DEF Typed, TypeOK
  <2>1. CASE ApprovePublish(r)
    BY <2>1, PublishDecided
  <2>2. CASE SettleCheck(r)
    <3>1. CASE status[stage[r]] = "pending"
      BY <1>1, <2>2, <3>1 DEF SettleCheck, Decided, DecidingIsReviewable,
                              ApprovedIsLive, RequestTypeOK, Goto, review, catalog
    <3>2. CASE status[stage[r]] # "pending"
      BY <2>2, <3>2, FinishDecided DEF SettleCheck, review, catalog
    <3>3. QED
      BY <3>1, <3>2
  <2>3. CASE SettleWrite(r) \/ RejectWrite(r)
    BY <2>3, DecideDecided
  <2>4. CASE DeleteSubjectRefs(r) \/ BindRead(r)
    BY <2>4, DecidedFrame DEF DeleteSubjectRefs, BindRead, RequestTypeOK, Goto,
                              review, catalog
  <2>5. CASE DeleteSubjectCommit(r)
    BY <2>5, DeleteSubjectDecided
  <2>6. CASE DeleteEvidence(r) \/ CollectSave(r) \/ BindWrite(r) \/ DeleteRuleCommit(r)
    BY <2>6, FinishDecided DEF DeleteEvidence, CollectSave, BindWrite,
                               DeleteRuleCommit, review, catalog
  <2>7. QED
    BY <1>1, <2>1, <2>2, <2>3, <2>4, <2>5, <2>6 DEF Step
<1>2. ASSUME NEW r \in Requests, Crash(r) PROVE Decided'
  BY <1>2, FinishDecided DEF Crash, review, catalog
<1>3. CASE UNCHANGED vars
  BY <1>3, DecidedFrame DEF vars, review, catalog, locals
<1>4. QED
  BY <1>1, <1>2, <1>3, ArriveDecided DEF Next

-----------------------------------------------------------------------------
(* Row ids. *)

Identified == IdsAreGiven /\ SeenIsCurrent

(* A step after which a row is as it was or gone, and what was read is     *)
(* what was read before or what is there.                                  *)
LEMMA IdentifiedFrame ==
    ASSUME Typed, Identified, lastId' = lastId,
           \A b \in Bindings :
               \/ binding'[b].id = 0
               \/ /\ binding'[b].id = binding[b].id
                  /\ binding'[b].recipe = binding[b].recipe,
           \A r \in Requests, b \in Bindings :
               seen'[r][b] \in {seen[r][b], binding[b], NoBinding}
    PROVE  Identified'
<1>1. NoBinding.id = 0 /\ lastId \in Nat
  BY DEF NoBinding, Typed, TypeOK, CatalogTypeOK, Ids
<1>2. IdsAreGiven'
  BY <1>1 DEF Identified, IdsAreGiven
<1>3. SeenIsCurrent'
  BY <1>1 DEF Identified, SeenIsCurrent
<1>4. QED
  BY <1>2, <1>3 DEF Identified

LEMMA FinishIdentified ==
    ASSUME Typed, Identified, NEW r \in Requests, Finish(r), lastId' = lastId,
           \A b \in Bindings : /\ binding'[b].id = binding[b].id
                               /\ binding'[b].recipe = binding[b].recipe
    PROVE  Identified'
<1>1. \A q \in Requests, b \in Bindings : seen'[q][b] \in {seen[q][b], NoBinding}
  BY DEF Finish, NoRows, Typed, TypeOK, RequestTypeOK
<1>2. QED
  BY <1>1, IdentifiedFrame

LEMMA ReadIdentified ==
    ASSUME Typed, Identified, NEW r \in Requests,
           NEW rows, seen' = [seen EXCEPT ![r] = rows],
           \A b \in Bindings : rows[b] \in {binding[b], NoBinding},
           UNCHANGED <<binding, lastId>>
    PROVE  Identified'
<1>1. \A q \in Requests, b \in Bindings :
          seen'[q][b] \in {seen[q][b], binding[b], NoBinding}
  BY DEF Typed, TypeOK, RequestTypeOK
<1>2. QED
  BY <1>1, IdentifiedFrame

LEMMA PublishIdentified ==
    ASSUME Typed, Identified, NEW r \in Requests, ApprovePublish(r)
    PROVE  Identified'
<1> USE DEF Typed, TypeOK
<1> DEFINE c == content[stage[r]]
<1>1. CASE ~CompileGate(c)
  <2>1. Finish(r) /\ UNCHANGED <<binding, lastId>>
    BY <1>1 DEF ApprovePublish, catalog
  <2>2. QED
    BY <2>1, FinishIdentified
<1>2. CASE CompileGate(c)
  <2>1. /\ lastId' = lastId + 1
        /\ binding' = [b \in Bindings |-> PublishedBinding(c, b)]
        /\ seen' = seen
    BY <1>2 DEF ApprovePublish
  <2>2. /\ lastId \in Nat
        /\ \A b \in Bindings : binding[b].id \in Nat
        /\ \A q \in Requests, b \in Bindings : seen[q][b].id \in Nat
    BY DEF CatalogTypeOK, RequestTypeOK, BindingRows, Ids
  <2>3. \A b \in Bindings : binding'[b] = binding[b] \/ binding'[b].id = lastId + 1
    BY <2>1 DEF PublishedBinding
  <2>4. IdsAreGiven'
    BY <2>1, <2>2, <2>3 DEF Identified, IdsAreGiven
  <2>5. \A q \in Requests, b \in Bindings : seen[q][b].id # lastId + 1
    BY <2>2 DEF Identified, IdsAreGiven
  <2>6. SeenIsCurrent'
    BY <2>1, <2>3, <2>5 DEF Identified, SeenIsCurrent
  <2>7. QED
    BY <2>4, <2>6 DEF Identified
<1>3. QED
  BY <1>1, <1>2

(* BindWrite and DeleteRuleCommit write back what they read. *)
LEMMA WriteKeepsRecipes ==
    ASSUME Typed, Identified, NEW r \in Requests, BindWrite(r) \/ DeleteRuleCommit(r)
    PROVE  \A b \in Bindings : /\ binding'[b].id = binding[b].id
                               /\ binding'[b].recipe = binding[b].recipe
<1> USE DEF Typed, TypeOK
<1>1. seen[r] \in [Bindings -> BindingRows] /\ rule[r] \in Rules
  BY DEF BindWrite, DeleteRuleCommit, RequestTypeOK, RequestShape
<1>2. \A b \in Bindings : seen[r][b].id # 0 /\ seen[r][b].id = binding[b].id
                              => seen[r][b].recipe = binding[b].recipe
  BY DEF Identified, SeenIsCurrent
<1>3. CASE BindWrite(r)
  <2> DEFINE rows == WithRule(seen[r], rule[r])
  <2>1. \A b \in Bindings : rows[b].id = seen[r][b].id
                            /\ rows[b].recipe = seen[r][b].recipe
    BY <1>1, RuleEditsKeepRows
  <2>2. binding' = Overwrite(seen[r], rows)
    BY <1>3 DEF BindWrite
  <2> HIDE DEF rows
  <2>3. QED
    BY <1>2, <2>1, <2>2, OverwriteKeepsRecipes
<1>4. CASE DeleteRuleCommit(r)
  <2> DEFINE rows == WithoutRule(seen[r], rule[r])
  <2>1. \A b \in Bindings : rows[b].id = seen[r][b].id
                            /\ rows[b].recipe = seen[r][b].recipe
    BY <1>1, RuleEditsKeepRows
  <2>2. binding' = Overwrite(seen[r], rows)
    BY <1>4 DEF DeleteRuleCommit
  <2> HIDE DEF rows
  <2>3. QED
    BY <1>2, <2>1, <2>2, OverwriteKeepsRecipes
<1>5. QED
  BY <1>3, <1>4

LEMMA NextIdentified == Typed /\ Identified /\ [Next]_vars => Identified'
<1> SUFFICES ASSUME Typed, Identified, [Next]_vars PROVE Identified'
  OBVIOUS
<1>1. ASSUME NEW r \in Requests, Step(r) PROVE Identified'
  <2>1. CASE ApprovePublish(r)
    BY <2>1, PublishIdentified
  <2>2. CASE SettleCheck(r)
    <3>1. CASE status[stage[r]] = "pending"
      BY <2>2, <3>1, IdentifiedFrame DEF SettleCheck, catalog
    <3>2. CASE status[stage[r]] # "pending"
      BY <2>2, <3>2, FinishIdentified DEF SettleCheck, catalog
    <3>3. QED
      BY <3>1, <3>2
  <2>3. CASE SettleWrite(r) \/ RejectWrite(r) \/ DeleteEvidence(r) \/ CollectSave(r)
    BY <2>3, FinishIdentified DEF SettleWrite, RejectWrite, DeleteEvidence,
                                  CollectSave, catalog
  <2>4. CASE DeleteSubjectRefs(r)
    BY <2>4, IdentifiedFrame DEF DeleteSubjectRefs, catalog
  <2>5. CASE DeleteSubjectCommit(r)
    <3>1. \A b \in Bindings : binding'[b] = NoBinding \/ binding'[b] = binding[b]
      BY <2>5 DEF DeleteSubjectCommit, Remaining
    <3>2. NoBinding.id = 0
      BY DEF NoBinding
    <3>3. lastId' = lastId /\ seen' = seen
      BY <2>5 DEF DeleteSubjectCommit
    <3>4. QED
      BY <3>1, <3>2, <3>3, IdentifiedFrame
  <2>6. CASE BindRead(r)
    <3> DEFINE rows == [b \in Bindings |->
                    IF Subject(b[1]) = subj[r] THEN binding[b] ELSE NoBinding]
    <3>1. seen' = [seen EXCEPT ![r] = rows] /\ UNCHANGED <<binding, lastId>>
      BY <2>6 DEF BindRead, catalog
    <3>2. \A b \in Bindings : rows[b] \in {binding[b], NoBinding}
      OBVIOUS
    <3>3. QED
      BY ONLY <3>1, <3>2, ReadIdentified, Typed, Identified, r \in Requests
  <2>7. CASE BindWrite(r) \/ DeleteRuleCommit(r)
    BY <2>7, WriteKeepsRecipes, FinishIdentified DEF BindWrite, DeleteRuleCommit
  <2>8. QED
    BY <1>1, <2>1, <2>2, <2>3, <2>4, <2>5, <2>6, <2>7 DEF Step
<1>2. ASSUME NEW r \in Requests, Arrive(r) PROVE Identified'
  <2>1. CASE \E st \in Stages, c \in Proposals : Propose(r, st, c)
    BY <2>1, IdentifiedFrame DEF Propose, catalog, locals
  <2>2. CASE \E st \in Stages : ApproveCheck(r, st) \/ RejectCheck(r, st)
    BY <2>2, IdentifiedFrame DEF ApproveCheck, RejectCheck, catalog
  <2>3. ASSUME NEW s \in Subjects, DeleteSubjectCheck(r, s) PROVE Identified'
    <3> DEFINE rows == [b \in Bindings |->
                    IF Subject(b[1]) = s THEN binding[b] ELSE NoBinding]
    <3>1. seen' = [seen EXCEPT ![r] = rows] /\ UNCHANGED <<binding, lastId>>
      BY <2>3 DEF DeleteSubjectCheck, catalog
    <3>2. \A b \in Bindings : rows[b] \in {binding[b], NoBinding}
      OBVIOUS
    <3>3. QED
      BY ONLY <3>1, <3>2, ReadIdentified, Typed, Identified, r \in Requests
  <2>4. ASSUME NEW s \in Subjects, CollectStart(r, s) PROVE Identified'
    BY <2>4, IdentifiedFrame DEF CollectStart, catalog
  <2>5. ASSUME NEW q \in Rules, SaveRule(r, q) PROVE Identified'
    BY <2>5, IdentifiedFrame DEF SaveRule, catalog, locals
  <2>6. ASSUME NEW q \in Rules, DeleteRuleRead(r, q) PROVE Identified'
    BY <2>6, ReadIdentified DEF DeleteRuleRead, catalog
  <2>7. ASSUME NEW q \in Rules, NEW s \in Subjects, SaveRuleAndBind(r, q, s)
        PROVE Identified'
    BY <2>7, IdentifiedFrame DEF SaveRuleAndBind, catalog
  <2>8. QED
    BY <1>2, <2>1, <2>2, <2>3, <2>4, <2>5, <2>6, <2>7 DEF Arrive
<1>3. ASSUME NEW r \in Requests, Crash(r) PROVE Identified'
  BY <1>3, FinishIdentified DEF Crash, catalog
<1>4. CASE UNCHANGED vars
  BY <1>4, IdentifiedFrame DEF vars, catalog, locals
<1>5. QED
  BY <1>1, <1>2, <1>3, <1>4 DEF Next
-----------------------------------------------------------------------------
(* The inductive invariant holds in every behaviour: with it, a proposal   *)
(* under decision keeps its subject, and a stale row is recognised by its  *)
(* id.                                                                     *)
THEOREM CatalogInvariant == Spec => []IInv
<1>1. Init => Decided
  BY DEF Init, Decided, DecidingIsReviewable, ApprovedIsLive
<1>2. Init => Identified
  BY DEF Init, Identified, IdsAreGiven, SeenIsCurrent, NoRows, NoBinding
<1>3. Typed /\ Decided /\ Identified /\ [Next]_vars
         => Typed' /\ Decided' /\ Identified'
  BY NextTyped, NextDecided, NextIdentified
<1>4. Typed /\ Decided /\ Identified => IInv
  BY DEF Typed, Decided, Identified, IInv
<1>5. QED
  BY InitTyped, <1>1, <1>2, <1>3, <1>4, PTL DEF Spec

(* An approved proposal's subject version is in the catalog, however       *)
(* approvals, rejections, deletions and crashes interleave.                *)
THEOREM ApprovedStaysLive == Spec => []ApprovedIsLive
<1>1. IInv => ApprovedIsLive
  BY DEF IInv
<1>2. QED
  BY <1>1, CatalogInvariant, PTL

(* A row keeps the recipe it was published with, however stale the JSON    *)
(* that binding or deleting a rule writes back.                            *)
THEOREM RecipesAreStable == Spec => RecipeStable
<1> DEFINE Stable == \A b \in Bindings :
                        binding[b].id # 0 /\ binding'[b].id = binding[b].id
                            => binding'[b].recipe = binding[b].recipe
<1>1. IInv /\ [Next]_vars => Stable
  <2> SUFFICES ASSUME IInv, [Next]_vars PROVE Stable
    OBVIOUS
  <2>1. Typed /\ Identified
    BY DEF IInv, Typed, Identified
  <2>2. ASSUME NEW r \in Requests, BindWrite(r) \/ DeleteRuleCommit(r) PROVE Stable
    BY <2>1, <2>2, WriteKeepsRecipes
  <2>3. ASSUME NEW r \in Requests, ApprovePublish(r) PROVE Stable
    <3>1. \A b \in Bindings : binding[b].id # lastId + 1
      BY <2>1 DEF Identified, IdsAreGiven, Typed, TypeOK, CatalogTypeOK, BindingRows, Ids
    <3>2. \A b \in Bindings : binding'[b] = binding[b] \/ binding'[b].id = lastId + 1
      <4>1. CASE CompileGate(content[stage[r]])
        BY <2>3, <4>1 DEF ApprovePublish, PublishedBinding
      <4>2. CASE ~CompileGate(content[stage[r]])
        BY <2>3, <4>2 DEF ApprovePublish, catalog
      <4>3. QED
        BY <4>1, <4>2
    <3>3. QED
      BY <3>1, <3>2
  <2>4. ASSUME NEW r \in Requests, DeleteSubjectCommit(r) PROVE Stable
    <3>1. \A b \in Bindings : binding'[b] = binding[b] \/ binding'[b].id = 0
      BY <2>4 DEF DeleteSubjectCommit, Remaining, NoBinding
    <3>2. QED
      BY <3>1
  <2>5. ASSUME NEW r \in Requests,
               \/ SettleCheck(r) \/ SettleWrite(r) \/ RejectWrite(r)
               \/ DeleteSubjectRefs(r) \/ DeleteEvidence(r) \/ BindRead(r)
               \/ CollectSave(r) \/ Crash(r)
        PROVE  Stable
    BY <2>5 DEF SettleCheck, SettleWrite, RejectWrite, DeleteSubjectRefs,
                DeleteEvidence, BindRead, CollectSave, Crash, catalog
  <2>6. ASSUME NEW r \in Requests, Arrive(r) PROVE Stable
    BY <2>6 DEF Arrive, Propose, ApproveCheck, RejectCheck, DeleteSubjectCheck,
                CollectStart, SaveRule, DeleteRuleRead, SaveRuleAndBind, catalog
  <2>7. CASE UNCHANGED vars
    BY <2>7 DEF vars, catalog
  <2>8. QED
    BY <2>2, <2>3, <2>4, <2>5, <2>6, <2>7 DEF Next, Step
<1>2. QED
  BY <1>1, CatalogInvariant, PTL DEF Spec, RecipeStable

(* Only the transaction of delete_subject takes a request past "remove". *)
LEMMA RemovalIsCommit ==
    ASSUME RequestTypeOK, [Next]_vars,
           NEW r \in Requests, pc[r] = "remove", pc'[r] = "evidence"
    PROVE  DeleteSubjectCommit(r)
<1>1. ASSUME NEW q \in Requests, Arrive(q) \/ Crash(q) PROVE FALSE
  <2>1. CASE Arrive(q)
    <3>1. \/ pc' = pc
          \/ \E phase \in {"publish", "reject", "refs", "collect", "unbinding", "bind"} :
                pc' = [pc EXCEPT ![q] = phase]
      BY <2>1 DEF Arrive, Propose, ApproveCheck, RejectCheck, DeleteSubjectCheck,
                  CollectStart, SaveRule, DeleteRuleRead, SaveRuleAndBind, Goto, locals
    <3>2. QED
      BY <3>1 DEF RequestTypeOK
  <2>2. CASE Crash(q)
    BY <2>2 DEF Crash, Finish, RequestTypeOK
  <2>3. QED
    BY <1>1, <2>1, <2>2
<1>2. ASSUME NEW q \in Requests, Step(q) PROVE DeleteSubjectCommit(r)
  <2>1. CASE DeleteSubjectCommit(q)
    BY <2>1 DEF DeleteSubjectCommit, Goto, RequestTypeOK
  <2>2. CASE ~DeleteSubjectCommit(q)
    <3>1. \E phase \in {"idle", "settle", "settling", "remove", "binding"} :
             pc' = [pc EXCEPT ![q] = phase]
      <4>1. CASE ApprovePublish(q)
        BY <4>1 DEF ApprovePublish, Finish, Goto
      <4>2. CASE SettleCheck(q)
        BY <4>2 DEF SettleCheck, Finish, Goto
      <4>3. CASE SettleWrite(q) \/ RejectWrite(q) \/ DeleteEvidence(q)
        BY <4>3 DEF SettleWrite, RejectWrite, DeleteEvidence, Finish
      <4>4. CASE DeleteSubjectRefs(q) \/ BindRead(q)
        BY <4>4 DEF DeleteSubjectRefs, BindRead, Goto
      <4>5. CASE BindWrite(q) \/ DeleteRuleCommit(q) \/ CollectSave(q)
        BY <4>5 DEF BindWrite, DeleteRuleCommit, CollectSave, Finish
      <4>6. QED
        BY <1>2, <2>2, <4>1, <4>2, <4>3, <4>4, <4>5 DEF Step
    <3>2. QED
      BY <3>1 DEF RequestTypeOK
  <2>3. QED
    BY <2>1, <2>2
<1>3. QED
  BY <1>1, <1>2 DEF Next, vars, locals

(* Deleting a subject reaps no rule that another binding still refers to,  *)
(* whatever was bound since the candidates were collected.                 *)
THEOREM ReapingSparesBound == Spec => ReapSparesBound
<1> DEFINE Spared == \A r \in Requests :
                        pc[r] = "remove" /\ pc'[r] = "evidence"
                            => \A b \in Bindings :
                                  Refs(binding'[b]) \cap registry \subseteq registry'
<1>1. IInv /\ [Next]_vars => Spared
  <2> SUFFICES ASSUME IInv, [Next]_vars,
                      NEW r \in Requests, pc[r] = "remove", pc'[r] = "evidence",
                      NEW b \in Bindings
               PROVE  Refs(binding'[b]) \cap registry \subseteq registry'
    OBVIOUS
  <2>1. DeleteSubjectCommit(r)
    BY RemovalIsCommit DEF IInv, TypeOK
  <2>2. QED
    BY <2>1 DEF DeleteSubjectCommit, Reaped
<1>2. QED
  BY <1>1, CatalogInvariant, PTL DEF Spec, ReapSparesBound

-----------------------------------------------------------------------------
(* One request at a time: what a request read still holds when it writes.  *)

(* What WorksOnCurrent says of one request. *)
Works(r) ==
    /\ pc[r] \in {"publish", "settle", "settling", "reject"}
          => status[stage[r]] = "pending"
    /\ pc[r] \in {"refs", "remove", "collect"} => InCatalog(subj[r])
    /\ pc[r] \in {"refs", "binding"} => seen[r] = RowsOf(subj[r])
    /\ pc[r] = "unbinding" => seen[r] = binding
    /\ pc[r] \in {"bind", "binding"} => rule[r] \in registry
    /\ pc[r] = "remove" =>
          \A b \in Bindings : Subject(b[1]) = subj[r] => Refs(binding[b]) \subseteq cand[r]

LEMMA SerialParts ==
    ASSUME SerialInv, NEW r \in Requests
    PROVE  Works(r) /\ NoRowNoRules
  BY DEF SerialInv, WorksOnCurrent, Works

LEMMA WorksNext ==
    ASSUME OneAtATime, NEW r \in Requests, Works(r)', NoRowNoRules'
    PROVE  SerialInv'
<1>1. \A q \in Requests : q = r
  BY DEF OneAtATime
<1>2. WorksOnCurrent'
  BY <1>1 DEF Works, WorksOnCurrent
<1>3. QED
  BY <1>2 DEF SerialInv

LEMMA FinishSerial ==
    ASSUME OneAtATime, TypeOK, NEW r \in Requests, Finish(r), NoRowNoRules'
    PROVE  SerialInv'
<1>1. pc'[r] = "idle"
  BY DEF Finish, TypeOK, RequestTypeOK
<1>2. Works(r)'
  BY <1>1 DEF Works
<1>3. QED
  BY <1>2, WorksNext

LEMMA RowsStay ==
    ASSUME NoRowNoRules, binding' = binding
    PROVE  NoRowNoRules'
  BY DEF NoRowNoRules

LEMMA ArriveSerial ==
    ASSUME OneAtATime, TypeOK, SerialInv, NEW r \in Requests, Arrive(r)
    PROVE  SerialInv'
<1> USE DEF TypeOK, RequestTypeOK
<1>r. binding' = binding
  BY DEF Arrive, Propose, ApproveCheck, RejectCheck, DeleteSubjectCheck, CollectStart,
         SaveRule, DeleteRuleRead, SaveRuleAndBind, catalog
<1>s. NoRowNoRules'
  BY <1>r, SerialParts, RowsStay
<1>1. ASSUME NEW st \in Stages, ApproveCheck(r, st) \/ RejectCheck(r, st)
      PROVE  Works(r)'
  BY <1>1 DEF ApproveCheck, RejectCheck, Goto, Works, review
<1>2. ASSUME NEW s \in Subjects, DeleteSubjectCheck(r, s)
      PROVE  Works(r)'
  <2>1. /\ pc'[r] = "refs" /\ subj'[r] = s /\ seen'[r] = RowsOf(s)
        /\ UNCHANGED <<rowid, binding>> /\ InCatalog(s)
    BY <1>2 DEF DeleteSubjectCheck, Goto, RowsOf, catalog
  <2>2. QED
    BY <2>1 DEF Works, InCatalog, RowsOf
<1>3. ASSUME NEW s \in Subjects, CollectStart(r, s)
      PROVE  Works(r)'
  <2>1. /\ pc'[r] = "collect" /\ subj'[r] = s /\ UNCHANGED rowid /\ InCatalog(s)
    BY <1>3 DEF CollectStart, Goto, Active, InCatalog, catalog
  <2>2. QED
    BY <2>1 DEF Works, InCatalog
<1>4. ASSUME NEW q \in Rules, DeleteRuleRead(r, q)
      PROVE  Works(r)'
  BY <1>4 DEF DeleteRuleRead, Goto, Works, catalog
<1>5. ASSUME NEW q \in Rules, NEW s \in Subjects, SaveRuleAndBind(r, q, s)
      PROVE  Works(r)'
  BY <1>5 DEF SaveRuleAndBind, Goto, Works
<1>6. ASSUME \/ \E st \in Stages, c \in Proposals : Propose(r, st, c)
             \/ \E q \in Rules : SaveRule(r, q)
      PROVE  Works(r)'
  BY <1>6 DEF Propose, SaveRule, Works, locals
<1>7. QED
  BY <1>s, <1>1, <1>2, <1>3, <1>4, <1>5, <1>6, WorksNext DEF Arrive

(* Binding a rule writes the rows it read, which are still there, with one *)
(* more rule; deleting one writes every row without it.                    *)
LEMMA BindWriteRows ==
    ASSUME TypeOK, SerialInv, NEW r \in Requests, BindWrite(r), NEW b \in Bindings
    PROVE  \/ binding'[b] = binding[b]
           \/ /\ binding[b].id # 0 /\ rule[r] \in registry
              /\ binding'[b] = [binding[b] EXCEPT !.bound = @ \cup {rule[r]}]
<1>1. pc[r] = "binding" /\ seen[r] = RowsOf(subj[r]) /\ rule[r] \in registry
  BY SerialParts DEF BindWrite, Works
<1>2. binding'[b] = Overwrite(seen[r], WithRule(seen[r], rule[r]))[b]
  BY DEF BindWrite
<1>3. seen[r][b].id # 0 => seen[r][b] = binding[b]
  BY <1>1 DEF RowsOf, NoBinding
<1>4. QED
  BY <1>1, <1>2, <1>3 DEF Overwrite, WithRule

LEMMA DeleteRuleRows ==
    ASSUME TypeOK, SerialInv, NEW r \in Requests, DeleteRuleCommit(r), NEW b \in Bindings
    PROVE  binding'[b] = [binding[b] EXCEPT !.bound = @ \ {rule[r]}]
<1>1. seen[r] = binding
  BY SerialParts DEF DeleteRuleCommit, Works
<1>2. binding'[b] = Overwrite(binding, WithoutRule(binding, rule[r]))[b]
  BY <1>1 DEF DeleteRuleCommit
<1>3. binding[b] \in BindingRows
  BY DEF TypeOK, CatalogTypeOK
<1>4. CASE binding[b].id = 0
  <2>1. binding[b].bound = {}
    BY <1>4, SerialParts DEF NoRowNoRules, NoBinding
  <2>2. binding'[b] = binding[b]
    BY <1>2, <1>4 DEF Overwrite
  <2>3. QED
    BY <1>3, <2>1, <2>2 DEF BindingRows
<1>5. CASE binding[b].id # 0
  BY <1>2, <1>5 DEF Overwrite, WithoutRule
<1>6. QED
  BY <1>4, <1>5

LEMMA StepSerial ==
    ASSUME OneAtATime, TypeOK, SerialInv, NEW r \in Requests, Step(r)
    PROVE  SerialInv'
<1> USE DEF TypeOK, RequestTypeOK
<1>w. Works(r) /\ NoRowNoRules
  BY SerialParts
<1>1. CASE ApprovePublish(r)
  <2> DEFINE c == content[stage[r]]
  <2>1. CASE ~CompileGate(c)
    <3>1. Finish(r) /\ NoRowNoRules'
      BY <1>1, <1>w, <2>1, RowsStay DEF ApprovePublish, catalog
    <3>2. QED
      BY <3>1, FinishSerial
  <2>2. CASE CompileGate(c)
    <3>1. /\ binding' = [b \in Bindings |-> PublishedBinding(c, b)]
          /\ pc'[r] = "settle" /\ pc[r] = "publish"
          /\ UNCHANGED <<status, stage, registry>>
      BY <1>1, <2>2 DEF ApprovePublish, Goto, review
    <3>2. lastId + 1 # 0
      BY DEF CatalogTypeOK, Ids
    <3>3. NoRowNoRules'
      BY <1>w, <3>1, <3>2 DEF PublishedBinding, NoRowNoRules
    <3>4. Works(r)'
      BY <1>w, <3>1 DEF Works
    <3>5. QED
      BY <3>3, <3>4, WorksNext
  <2>3. QED
    BY <2>1, <2>2
<1>2. CASE SettleCheck(r)
  <2>1. /\ pc'[r] = "settling" /\ pc[r] = "settle"
        /\ UNCHANGED <<status, stage, binding, registry>>
    BY <1>2, <1>w DEF SettleCheck, Works, Goto, review, catalog
  <2>2. Works(r)' /\ NoRowNoRules'
    BY <1>w, <2>1, RowsStay DEF Works
  <2>3. QED
    BY <2>2, WorksNext
<1>3. CASE \/ SettleWrite(r) \/ RejectWrite(r)
           \/ DeleteEvidence(r) \/ CollectSave(r)
  BY <1>3, <1>w, RowsStay, FinishSerial
     DEF SettleWrite, RejectWrite, DeleteEvidence, CollectSave, catalog
<1>4. CASE DeleteSubjectRefs(r)
  <2>1. /\ pc[r] = "refs" /\ pc'[r] = "remove"
        /\ UNCHANGED <<rowid, subj, binding, registry>>
        /\ cand'[r] = UNION {Refs(binding[b]) :
                                b \in {b \in Bindings : binding[b].id = seen[r][b].id}}
    BY <1>4 DEF DeleteSubjectRefs, Goto, catalog
  <2>2. InCatalog(subj[r]) /\ seen[r] = RowsOf(subj[r])
    BY <1>w, <2>1 DEF Works
  <2>3. \A b \in Bindings : Subject(b[1]) = subj[r] => Refs(binding[b]) \subseteq cand'[r]
    <3> SUFFICES ASSUME NEW b \in Bindings, Subject(b[1]) = subj[r]
                 PROVE  Refs(binding[b]) \subseteq cand'[r]
      OBVIOUS
    <3>1. binding[b].id = seen[r][b].id
      BY <2>2 DEF RowsOf
    <3>2. QED
      BY <2>1, <3>1
  <2>4. Works(r)'
    BY <2>1, <2>2, <2>3 DEF Works, InCatalog, Refs
  <2>5. QED
    BY <1>w, <2>1, <2>4, RowsStay, WorksNext
<1>5. CASE DeleteSubjectCommit(r)
  <2>1. pc'[r] = "evidence"
    BY <1>5 DEF DeleteSubjectCommit, Goto
  <2>2. NoRowNoRules'
    <3>1. \A b \in Bindings : binding'[b] = NoBinding \/ binding'[b] = binding[b]
      BY <1>5 DEF DeleteSubjectCommit, Remaining
    <3>2. QED
      BY <1>w, <3>1 DEF NoRowNoRules
  <2>3. Works(r)'
    BY <2>1 DEF Works
  <2>4. QED
    BY <2>2, <2>3, WorksNext
<1>6. CASE BindRead(r)
  <2>1. /\ pc[r] = "bind" /\ pc'[r] = "binding" /\ seen'[r] = RowsOf(subj[r])
        /\ UNCHANGED <<subj, rule, binding, registry>>
    BY <1>6 DEF BindRead, Goto, RowsOf, catalog
  <2>2. Works(r)'
    BY <1>w, <2>1 DEF Works, RowsOf
  <2>3. QED
    BY <1>w, <2>1, <2>2, RowsStay, WorksNext
<1>7. CASE BindWrite(r)
  <2>1. \A b \in Bindings : binding[b] \in BindingRows
    BY DEF CatalogTypeOK
  <2>2. ASSUME NEW b \in Bindings, binding'[b].id = 0
        PROVE  binding'[b] = NoBinding
    <3>1. binding[b].id = 0 => binding[b] = NoBinding
      BY <1>w DEF NoRowNoRules
    <3>2. CASE binding'[b] = binding[b]
      BY <2>2, <3>1, <3>2
    <3>3. CASE /\ binding[b].id # 0 /\ rule[r] \in registry
               /\ binding'[b] = [binding[b] EXCEPT !.bound = @ \cup {rule[r]}]
      <4>1. binding'[b].id = binding[b].id
        BY <2>1, <3>3 DEF BindingRows
      <4>2. QED
        BY <2>2, <3>3, <4>1
    <3>4. QED
      BY <1>7, <3>2, <3>3, BindWriteRows
  <2>3. NoRowNoRules'
    BY <2>2 DEF NoRowNoRules
  <2>4. QED
    BY <1>7, <2>3, FinishSerial DEF BindWrite
<1>8. CASE DeleteRuleCommit(r)
  <2>1. \A b \in Bindings : binding[b] \in BindingRows
    BY DEF CatalogTypeOK
  <2>2. ASSUME NEW b \in Bindings, binding'[b].id = 0
        PROVE  binding'[b] = NoBinding
    <3>1. binding'[b] = [binding[b] EXCEPT !.bound = @ \ {rule[r]}]
      BY <1>8, DeleteRuleRows
    <3>2. binding'[b].id = binding[b].id
      BY <2>1, <3>1 DEF BindingRows
    <3>3. binding[b] = NoBinding
      BY <1>w, <2>2, <3>2 DEF NoRowNoRules
    <3>4. NoBinding.bound \ {rule[r]} = NoBinding.bound
      BY DEF NoBinding
    <3>5. [NoBinding EXCEPT !.bound = @] = NoBinding
      BY DEF NoBinding
    <3>6. QED
      BY <3>1, <3>3, <3>4, <3>5
  <2>3. NoRowNoRules'
    BY <2>2 DEF NoRowNoRules
  <2>4. QED
    BY <1>8, <2>3, FinishSerial DEF DeleteRuleCommit
<1>9. QED
  BY <1>1, <1>2, <1>3, <1>4, <1>5, <1>6, <1>7, <1>8 DEF Step

LEMMA NextSerial ==
    ASSUME OneAtATime, TypeOK, SerialInv, [Next]_vars
    PROVE  SerialInv'
<1>1. ASSUME NEW r \in Requests, Crash(r) PROVE SerialInv'
  BY <1>1, SerialParts, RowsStay, FinishSerial DEF Crash, catalog
<1>2. CASE UNCHANGED vars
  BY <1>2 DEF vars, locals, review, catalog, SerialInv, WorksOnCurrent, NoRowNoRules,
              InCatalog, RowsOf
<1>3. QED
  BY <1>1, <1>2, StepSerial, ArriveSerial DEF Next

THEOREM CatalogSerialInvariant == OneAtATime => (Spec => []SerialInv)
<1> SUFFICES ASSUME OneAtATime PROVE Spec => []SerialInv
  OBVIOUS
<1>1. Init => SerialInv
  <2> SUFFICES ASSUME Init PROVE SerialInv
    OBVIOUS
  <2>1. \A r \in Requests : pc[r] = "idle"
    BY DEF Init
  <2>2. \A b \in Bindings : binding[b].id = 0 => binding[b] = NoBinding
    BY DEF Init, NoBinding
  <2>3. QED
    BY <2>1, <2>2 DEF SerialInv, WorksOnCurrent, NoRowNoRules
<1>2. SerialInv /\ TypeOK /\ [Next]_vars => SerialInv'
  BY NextSerial
<1>3. QED
  BY <1>1, <1>2, CatalogTypeCorrect, PTL DEF Spec

(* What a step leaves dangling in a row that stays dangled there before:   *)
(* binding adds a registered rule, deleting a rule takes it from every row *)
(* first, reaping spares what the surviving rows refer to.                 *)
LEMMA StepLeavesNothingDangling ==
    ASSUME IInv, SerialInv, NEW r \in Requests, Step(r),
           NEW b \in Bindings, NEW q \in binding'[b].bound \ registry',
           binding'[b].id = binding[b].id
    PROVE  q \in binding[b].bound \ registry
<1>t. TypeOK /\ binding[b] \in BindingRows /\ NoRowNoRules
  BY SerialParts DEF IInv, TypeOK, CatalogTypeOK
<1>1. CASE UNCHANGED <<binding, registry>>
  BY <1>1
<1>2. CASE ApprovePublish(r)
  <2>1. registry' = registry /\ lastId \in Nat
    BY <1>2, <1>t DEF ApprovePublish, TypeOK, CatalogTypeOK, Ids
  <2>2. binding[b].id \in Nat /\ binding[b].id <= lastId
    BY <1>t DEF IInv, IdsAreGiven, BindingRows, Ids
  <2>3. \/ binding'[b] = binding[b]
        \/ binding'[b].id = lastId + 1
    <3>1. CASE CompileGate(content[stage[r]])
      BY <1>2, <3>1 DEF ApprovePublish, PublishedBinding
    <3>2. CASE ~CompileGate(content[stage[r]])
      BY <1>2, <3>2 DEF ApprovePublish, catalog
    <3>3. QED
      BY <3>1, <3>2
  <2>4. binding'[b] = binding[b]
    BY <2>1, <2>2, <2>3
  <2>5. QED
    BY <2>1, <2>4
<1>3. CASE DeleteSubjectCommit(r)
  <2>1. binding'[b] = Remaining(subj[r])[b] /\ binding' = Remaining(subj[r])
    BY <1>3 DEF DeleteSubjectCommit
  <2>2. binding'[b] = binding[b] /\ binding[b].id # 0
    BY <1>t, <2>1 DEF Remaining, NoRowNoRules, NoBinding
  <2>3. q \in Refs(Remaining(subj[r])[b])
    BY <2>1, <2>2 DEF Refs
  <2>4. q \notin Reaped(cand[r], Remaining(subj[r]))
    BY <2>3 DEF Reaped
  <2>5. QED
    BY <1>3, <2>2, <2>4 DEF DeleteSubjectCommit
<1>4. CASE BindWrite(r)
  <2>1. registry' = registry
    BY <1>4 DEF BindWrite
  <2>2. CASE binding'[b] = binding[b]
    BY <2>1, <2>2
  <2>3. CASE /\ rule[r] \in registry
             /\ binding'[b] = [binding[b] EXCEPT !.bound = @ \cup {rule[r]}]
    <3>1. binding'[b].bound = binding[b].bound \cup {rule[r]}
      BY <1>t, <2>3 DEF BindingRows
    <3>2. QED
      BY <2>1, <2>3, <3>1
  <2>4. QED
    BY <1>4, <1>t, <2>2, <2>3, BindWriteRows
<1>5. CASE DeleteRuleCommit(r)
  <2>1. binding'[b] = [binding[b] EXCEPT !.bound = @ \ {rule[r]}]
    BY <1>5, <1>t, DeleteRuleRows
  <2>2. binding'[b].bound = binding[b].bound \ {rule[r]}
    BY <1>t, <2>1 DEF BindingRows
  <2>3. registry' = registry \ {rule[r]}
    BY <1>5 DEF DeleteRuleCommit
  <2>4. QED
    BY <2>2, <2>3
<1>6. CASE \/ SettleCheck(r) \/ SettleWrite(r) \/ RejectWrite(r) \/ DeleteEvidence(r)
           \/ DeleteSubjectRefs(r) \/ BindRead(r) \/ CollectSave(r)
  BY <1>1, <1>6 DEF SettleCheck, SettleWrite, RejectWrite, DeleteEvidence,
                    DeleteSubjectRefs, BindRead, CollectSave, catalog
<1>7. QED
  BY <1>2, <1>3, <1>4, <1>5, <1>6 DEF Step

(* Only a publication brings a row rule that does not resolve, crashes     *)
(* included.                                                               *)
THEOREM OnlyProposalsLeaveDangling == OneAtATime => (Spec => OnlyProposalsDangle)
<1> SUFFICES ASSUME OneAtATime PROVE Spec => OnlyProposalsDangle
  OBVIOUS
<1> DEFINE Kept == \A b \in Bindings : \A q \in binding'[b].bound \ registry' :
                      binding'[b].id = binding[b].id
                          => q \in binding[b].bound \ registry
<1>1. IInv /\ SerialInv /\ [Next]_vars => Kept
  <2> SUFFICES ASSUME IInv, SerialInv, [Next]_vars PROVE Kept
    OBVIOUS
  <2>1. ASSUME NEW r \in Requests, Step(r) PROVE Kept
    BY <2>1, StepLeavesNothingDangling
  <2>2. CASE binding' = binding /\ registry \subseteq registry'
    BY <2>2
  <2>3. ASSUME NEW r \in Requests, Arrive(r) \/ Crash(r)
        PROVE  binding' = binding /\ registry \subseteq registry'
    BY <2>3 DEF Arrive, Propose, ApproveCheck, RejectCheck, DeleteSubjectCheck,
                CollectStart, SaveRule, DeleteRuleRead, SaveRuleAndBind, Crash, catalog
  <2>4. CASE UNCHANGED vars
    BY <2>2, <2>4 DEF vars, catalog
  <2>5. QED
    BY <2>1, <2>2, <2>3, <2>4 DEF Next
<1>2. Spec => [][Kept]_vars
  BY <1>1, CatalogInvariant, CatalogSerialInvariant, PTL DEF Spec
<1>3. QED
  BY <1>2 DEF OnlyProposalsDangle

(* A rule bound to a row stays bound to it until the rule itself goes. *)
THEOREM BindingsAreNotLost == OneAtATime => (Spec => BoundRulesStay)
<1> SUFFICES ASSUME OneAtATime PROVE Spec => BoundRulesStay
  OBVIOUS
<1> DEFINE Stay == \A b \in Bindings : \A q \in binding[b].bound :
                      binding'[b].id = binding[b].id /\ q \notin binding'[b].bound
                          => q \notin registry'
<1>1. IInv /\ SerialInv /\ [Next]_vars => Stay
  <2> SUFFICES ASSUME IInv, SerialInv, [Next]_vars,
                      NEW b \in Bindings, NEW q \in binding[b].bound,
                      binding'[b].id = binding[b].id, q \notin binding'[b].bound
               PROVE  q \notin registry'
    OBVIOUS
  <2>1. binding'[b] # binding[b] /\ TypeOK
    BY DEF IInv
  <2>2. binding[b] \in BindingRows /\ binding[b].id # 0
    <3>1. binding[b].id = 0 => binding[b].bound = {}
      BY DEF SerialInv, NoRowNoRules, NoBinding
    <3>2. QED
      BY <2>1, <3>1 DEF TypeOK, CatalogTypeOK
  <2>3. ASSUME NEW r \in Requests, ApprovePublish(r) PROVE FALSE
    <3>1. binding[b].id # lastId + 1
      BY <2>1 DEF IInv, IdsAreGiven, TypeOK, CatalogTypeOK, BindingRows, Ids
    <3>2. binding'[b] = binding[b] \/ binding'[b].id = lastId + 1
      <4>1. CASE CompileGate(content[stage[r]])
        BY <2>3, <4>1 DEF ApprovePublish, PublishedBinding
      <4>2. CASE ~CompileGate(content[stage[r]])
        BY <2>3, <4>2 DEF ApprovePublish, catalog
      <4>3. QED
        BY <4>1, <4>2
    <3>3. QED
      BY <2>1, <3>1, <3>2
  <2>4. ASSUME NEW r \in Requests, DeleteSubjectCommit(r) PROVE FALSE
    BY <2>1, <2>2, <2>4 DEF DeleteSubjectCommit, Remaining, NoBinding
  <2>5. ASSUME NEW r \in Requests, BindWrite(r) PROVE FALSE
    <3>1. binding'[b] = [binding[b] EXCEPT !.bound = @ \cup {rule[r]}]
      BY <2>1, <2>5, BindWriteRows
    <3>2. QED
      BY <2>2, <3>1 DEF BindingRows
  <2>6. ASSUME NEW r \in Requests, DeleteRuleCommit(r) PROVE q \notin registry'
    <3>1. binding'[b] = [binding[b] EXCEPT !.bound = @ \ {rule[r]}]
      BY <2>1, <2>6, DeleteRuleRows
    <3>2. q = rule[r]
      BY <2>2, <3>1 DEF BindingRows
    <3>3. QED
      BY <2>6, <3>2 DEF DeleteRuleCommit
  <2>7. ASSUME NEW r \in Requests,
               \/ SettleCheck(r) \/ SettleWrite(r) \/ RejectWrite(r)
               \/ DeleteSubjectRefs(r) \/ DeleteEvidence(r) \/ BindRead(r)
               \/ CollectSave(r) \/ Crash(r) \/ Arrive(r)
        PROVE  FALSE
    BY <2>1, <2>7
       DEF SettleCheck, SettleWrite, RejectWrite, DeleteSubjectRefs, DeleteEvidence,
           BindRead, CollectSave, Crash, Arrive, Propose, ApproveCheck, RejectCheck,
           DeleteSubjectCheck, CollectStart, SaveRule, DeleteRuleRead, SaveRuleAndBind,
           catalog
  <2>8. QED
    BY <2>1, <2>3, <2>4, <2>5, <2>6, <2>7 DEF Next, Step, vars, catalog
<1>2. QED
  BY <1>1, CatalogInvariant, CatalogSerialInvariant, PTL DEF Spec, BoundRulesStay

(* A removed subject leaves no rule behind that only it used. *)
THEOREM ReapingLeavesNoOrphan == OneAtATime => (Spec => ReapLeavesNoOrphan)
<1> SUFFICES ASSUME OneAtATime PROVE Spec => ReapLeavesNoOrphan
  OBVIOUS
<1> DEFINE NoOrphan == \A r \in Requests :
              pc[r] = "remove" /\ pc'[r] = "evidence"
                  => \A b \in Bindings : \A q \in Refs(binding[b]) :
                        Subject(b[1]) = subj[r] /\ q \in registry'
                            => \/ q \in Overridden
                               \/ \E d \in Bindings : q \in Refs(binding'[d])
<1>1. IInv /\ SerialInv /\ [Next]_vars => NoOrphan
  <2> SUFFICES ASSUME IInv, SerialInv, [Next]_vars,
                      NEW r \in Requests, pc[r] = "remove", pc'[r] = "evidence",
                      NEW b \in Bindings, NEW q \in Refs(binding[b]),
                      Subject(b[1]) = subj[r], q \in registry'
               PROVE  q \in Overridden \/ \E d \in Bindings : q \in Refs(binding'[d])
    OBVIOUS
  <2>1. DeleteSubjectCommit(r)
    BY RemovalIsCommit DEF IInv, TypeOK
  <2>2. q \in cand[r]
    BY SerialParts DEF Works
  <2>3. q \notin Reaped(cand[r], Remaining(subj[r])) /\ binding' = Remaining(subj[r])
    BY <2>1 DEF DeleteSubjectCommit
  <2>4. QED
    BY <2>2, <2>3 DEF Reaped
<1>2. QED
  BY <1>1, CatalogInvariant, CatalogSerialInvariant, PTL DEF Spec, ReapLeavesNoOrphan

-----------------------------------------------------------------------------
(* One request at a time, none of them lost. *)

(* What a step does to the catalog's rows and to the evidence, away from   *)
(* the operations that are about them.                                     *)
LEMMA RowsFrame ==
    ASSUME NEW r \in Requests, Step(r) \/ Arrive(r),
           ~ApprovePublish(r), ~DeleteSubjectCommit(r)
    PROVE  /\ rowid' = rowid
           /\ DeleteEvidence(r) \/ CollectSave(r) \/ evidence' = evidence
  BY DEF Step, Arrive, SettleCheck, SettleWrite, RejectWrite, DeleteSubjectRefs,
         DeleteEvidence, BindRead, BindWrite, DeleteRuleCommit, CollectSave, Propose,
         ApproveCheck, RejectCheck, DeleteSubjectCheck, CollectStart, SaveRule,
         DeleteRuleRead, SaveRuleAndBind, catalog

(* Publishing gives its version a row, and takes none away. *)
LEMMA PublishedRows ==
    ASSUME Typed, NEW r \in Requests, ApprovePublish(r)
    PROVE  /\ evidence' = evidence
           /\ \/ CompileGate(content[stage[r]]) /\ pc' = [pc EXCEPT ![r] = "settle"]
                 /\ rowid' = [rowid EXCEPT ![content[stage[r]].key] = lastId + 1]
                 /\ lastId + 1 # 0 /\ stage' = stage
              \/ Finish(r) /\ rowid' = rowid
<1>1. lastId + 1 # 0
  BY DEF Typed, TypeOK, CatalogTypeOK, Ids
<1>2. CASE CompileGate(content[stage[r]])
  BY <1>1, <1>2 DEF ApprovePublish, Goto
<1>3. CASE ~CompileGate(content[stage[r]])
  BY <1>3 DEF ApprovePublish, catalog
<1>4. QED
  BY <1>2, <1>3

LEMMA NextEvidence ==
    ASSUME OneAtATime, ~Faults, Typed, SerialInv, EvidenceHasSubject, [Next]_vars
    PROVE  EvidenceHasSubject'
<1> USE DEF Typed, TypeOK, RequestTypeOK, CatalogTypeOK
<1>1. CASE UNCHANGED vars
  BY <1>1 DEF vars, catalog, locals, EvidenceHasSubject, InCatalog
<1>2. ASSUME NEW r \in Requests, Step(r) \/ Arrive(r) PROVE EvidenceHasSubject'
  <2>1. ASSUME NEW s \in evidence, pc[r] # "evidence" PROVE InCatalog(s)
    BY <2>1 DEF EvidenceHasSubject, OneAtATime
  <2>2. CASE ApprovePublish(r)
    <3>1. pc[r] = "publish" /\ evidence' = evidence
      BY <2>2, PublishedRows DEF ApprovePublish
    <3>2. \A k \in Keys : rowid[k] # 0 => rowid'[k] # 0
      BY <2>2, PublishedRows
    <3>3. QED
      BY <2>1, <3>1, <3>2 DEF EvidenceHasSubject, InCatalog, OfSubject
  <2>3. CASE DeleteSubjectCommit(r)
    <3>1. /\ pc[r] = "remove" /\ pc'[r] = "evidence" /\ subj'[r] = subj[r]
          /\ evidence' = evidence
          /\ \A k \in Keys : Subject(k) # subj[r] => rowid'[k] = rowid[k]
      BY <2>3 DEF DeleteSubjectCommit, Goto
    <3>2. ASSUME NEW s \in evidence, s # subj[r] PROVE InCatalog(s)'
      BY <2>1, <3>1, <3>2 DEF InCatalog, OfSubject
    <3>3. QED
      BY <3>1, <3>2 DEF EvidenceHasSubject
  <2>4. CASE DeleteEvidence(r)
    <3>1. /\ pc[r] = "evidence" /\ evidence' = evidence \ {subj[r]} /\ rowid' = rowid
      BY <2>4 DEF DeleteEvidence, catalog
    <3>2. \A s \in evidence' : InCatalog(s)
      BY <3>1 DEF EvidenceHasSubject, OneAtATime
    <3>3. QED
      BY <3>1, <3>2 DEF EvidenceHasSubject, InCatalog
  <2>5. CASE CollectSave(r)
    <3>1. /\ pc[r] = "collect" /\ evidence' = evidence \cup {subj[r]} /\ rowid' = rowid
      BY <2>5 DEF CollectSave, catalog
    <3>2. InCatalog(subj[r])
      BY <3>1, SerialParts DEF Works
    <3>3. QED
      BY <2>1, <3>1, <3>2 DEF EvidenceHasSubject, InCatalog
  <2>6. CASE ~(\/ ApprovePublish(r) \/ DeleteSubjectCommit(r)
               \/ DeleteEvidence(r) \/ CollectSave(r))
    <3>1. rowid' = rowid /\ evidence' = evidence
      BY <1>2, <2>6, RowsFrame
    <3>2. pc[r] # "evidence"
      BY <1>2, <2>6
         DEF Step, Arrive, SettleCheck, SettleWrite, RejectWrite, DeleteSubjectRefs,
             BindRead, BindWrite, DeleteRuleCommit, Propose, ApproveCheck, RejectCheck,
             DeleteSubjectCheck, CollectStart, SaveRule, DeleteRuleRead, SaveRuleAndBind
    <3>3. QED
      BY <2>1, <3>1, <3>2 DEF EvidenceHasSubject, InCatalog
  <2>7. QED
    BY <2>2, <2>3, <2>4, <2>5, <2>6
<1>3. QED
  BY <1>1, <1>2 DEF Next, Crash

(* No stray artifact survives its subject, except while it is deleted. *)
THEOREM EvidenceKeepsSubject == OneAtATime /\ ~Faults => (Spec => []EvidenceHasSubject)
<1> SUFFICES ASSUME OneAtATime, ~Faults PROVE Spec => []EvidenceHasSubject
  OBVIOUS
<1>1. Init => EvidenceHasSubject
  BY DEF Init, EvidenceHasSubject
<1>2. Typed /\ SerialInv /\ EvidenceHasSubject /\ [Next]_vars
         => Typed' /\ EvidenceHasSubject'
  BY NextTyped, NextEvidence
<1>3. QED
  BY InitTyped, <1>1, <1>2, CatalogSerialInvariant, PTL DEF Spec

-----------------------------------------------------------------------------
(* Publishing and settling implement one atomic decision of the review. *)

Queue == [st \in Stages |-> IF Publishing(st) THEN "approved" ELSE status[st]]

ReviewStep == Review!Next \/ UNCHANGED Review!vars

LEMMA PublishingIs ==
    ASSUME OneAtATime, NEW r \in Requests, NEW st
    PROVE  /\ Publishing(st) <=> pc[r] \in {"settle", "settling"} /\ stage[r] = st
           /\ Publishing(st)' <=> pc'[r] \in {"settle", "settling"} /\ stage'[r] = st
  BY DEF OneAtATime, Publishing

(* A step the review does not see. *)
LEMMA ReviewUnseen ==
    ASSUME UNCHANGED <<status, content, rowid>>,
           \A st \in Stages : Publishing(st)' <=> Publishing(st)
    PROVE  ReviewStep
<1>1. Queue' = Queue
  BY DEF Queue
<1>2. QED
  BY <1>1 DEF ReviewStep, Review!vars, Queue

LEMMA ArriveReview ==
    ASSUME OneAtATime, Typed, NEW r \in Requests, Arrive(r)
    PROVE  ReviewStep
<1> USE DEF Typed, TypeOK, RequestTypeOK, ReviewTypeOK
<1>1. pc[r] = "idle" /\ \A st \in Stages : ~Publishing(st)
  BY PublishingIs
     DEF Arrive, Propose, ApproveCheck, RejectCheck, DeleteSubjectCheck,
         CollectStart, SaveRule, DeleteRuleRead, SaveRuleAndBind
<1>2. \A st \in Stages : ~Publishing(st)'
  BY <1>1, PublishingIs
     DEF Arrive, Propose, ApproveCheck, RejectCheck, DeleteSubjectCheck, CollectStart,
         SaveRule, DeleteRuleRead, SaveRuleAndBind, Goto, locals
<1>3. ASSUME NEW st \in Stages, NEW c \in Proposals, Propose(r, st, c)
      PROVE  ReviewStep
  <2>1. /\ Queue[st] = "unused" /\ Queue' = [Queue EXCEPT ![st] = "pending"]
        /\ rowid' = rowid
    BY <1>1, <1>2, <1>3 DEF Propose, Queue, catalog
  <2>2. /\ c.key \in Keys
        /\ [t \in Stages |-> content'[t].key]
              = [[t \in Stages |-> content[t].key] EXCEPT ![st] = c.key]
    BY <1>3 DEF Propose, Proposals
  <2>3. Review!Propose(st)
    BY <2>1, <2>2 DEF Review!Propose, Queue
  <2>4. QED
    BY <2>3 DEF ReviewStep, Review!Next
<1>4. CASE \A st \in Stages, c \in Proposals : ~Propose(r, st, c)
  <2>1. UNCHANGED <<status, content, rowid>>
    BY <1>4 DEF Arrive, ApproveCheck, RejectCheck, DeleteSubjectCheck, CollectStart,
                SaveRule, DeleteRuleRead, SaveRuleAndBind, review, catalog
  <2>2. QED
    BY <1>1, <1>2, <2>1, ReviewUnseen
<1>5. QED
  BY <1>3, <1>4

LEMMA StepReview ==
    ASSUME OneAtATime, Typed, SerialInv, NEW r \in Requests, Step(r)
    PROVE  ReviewStep
<1> USE DEF Typed, TypeOK, RequestTypeOK, ReviewTypeOK, RequestShape
<1>w. Works(r)
  BY SerialParts
<1> DEFINE st == stage[r]
<1>1. CASE ApprovePublish(r)
  <2>1. /\ pc[r] = "publish" /\ st \in Stages /\ status[st] = "pending"
        /\ status' = status /\ content' = content
        /\ \A t \in Stages : ~Publishing(t)
    BY <1>1, <1>w, PublishingIs DEF ApprovePublish, Works, review
  <2>2. CASE Finish(r) /\ rowid' = rowid
    <3>1. \A t \in Stages : ~Publishing(t)'
      BY <2>2, PublishingIs DEF Finish
    <3>2. QED
      BY <2>1, <2>2, <3>1, ReviewUnseen
  <2>3. CASE /\ pc' = [pc EXCEPT ![r] = "settle"]
             /\ rowid' = [rowid EXCEPT ![content[stage[r]].key] = lastId + 1]
             /\ lastId + 1 # 0 /\ stage' = stage
    <3>1. \A t \in Stages : Publishing(t)' <=> t = st
      BY <2>3, PublishingIs
    <3>2. Queue[st] = "pending" /\ Queue' = [Queue EXCEPT ![st] = "approved"]
      BY <2>1, <3>1 DEF Queue
    <3>3. {k \in Keys : rowid'[k] # 0}
             = {k \in Keys : rowid[k] # 0} \cup {content[st].key}
      BY <2>1, <2>3 DEF CatalogTypeOK, Contents
    <3>4. Review!Approve(st)
      BY <2>1, <3>2, <3>3 DEF Review!Approve, Queue
    <3>5. QED
      BY <2>1, <3>4 DEF ReviewStep, Review!Next, Review!Approve
  <2>4. QED
    BY <1>1, <2>2, <2>3, PublishedRows
<1>2. CASE SettleCheck(r)
  <2>1. /\ pc[r] = "settle" /\ pc'[r] = "settling" /\ stage' = stage
        /\ UNCHANGED <<status, content, rowid>>
    BY <1>2, <1>w DEF SettleCheck, Works, Goto, review, catalog
  <2>2. QED
    BY <2>1, PublishingIs, ReviewUnseen
<1>3. CASE SettleWrite(r)
  <2>1. /\ pc[r] = "settling" /\ st \in Stages /\ status[st] = "pending"
        /\ status' = [status EXCEPT ![st] = "approved"] /\ pc'[r] = "idle"
        /\ UNCHANGED <<content, rowid>>
    BY <1>3, <1>w DEF SettleWrite, Works, Decide, Finish, catalog
  <2>2. \A t \in Stages : ~Publishing(t)' /\ (Publishing(t) <=> t = st)
    BY <2>1, PublishingIs
  <2>3. Queue' = Queue
    BY <2>1, <2>2 DEF Queue
  <2>4. QED
    BY <2>1, <2>3 DEF ReviewStep, Review!vars, Queue
<1>4. CASE RejectWrite(r)
  <2>1. /\ pc[r] = "reject" /\ st \in Stages /\ status[st] = "pending"
        /\ status' = [status EXCEPT ![st] = "rejected"] /\ pc'[r] = "idle"
        /\ UNCHANGED <<content, rowid>>
    BY <1>4, <1>w DEF RejectWrite, Works, Decide, Finish, catalog
  <2>2. \A t \in Stages : ~Publishing(t)' /\ ~Publishing(t)
    BY <2>1, PublishingIs
  <2>3. Queue[st] = "pending" /\ Queue' = [Queue EXCEPT ![st] = "rejected"]
    BY <2>1, <2>2 DEF Queue
  <2>4. Review!Reject(st)
    BY <2>1, <2>3 DEF Review!Reject, Queue
  <2>5. QED
    BY <2>1, <2>4 DEF ReviewStep, Review!Next, Review!Reject
<1>5. CASE DeleteSubjectCommit(r)
  <2>1. /\ pc[r] = "remove" /\ pc'[r] = "evidence" /\ content' = content
        /\ InCatalog(subj[r])
    BY <1>5, <1>w DEF DeleteSubjectCommit, Works, Goto
  <2>2. \A t \in Stages : ~Publishing(t)' /\ ~Publishing(t)
    BY <2>1, PublishingIs
  <2>3. PICK k \in Keys : Subject(k) = subj[r] /\ rowid[k] # 0
    BY <2>1 DEF InCatalog, OfSubject
  <2>4. {j \in Keys : rowid'[j] # 0}
           = {j \in {i \in Keys : rowid[i] # 0} : j[1] # subj[r]}
    BY <1>5 DEF DeleteSubjectCommit, Subject
  <2>5. Queue' = [t \in Stages |->
                     IF Queue[t] # "unused" /\ content[t].key[1] = subj[r]
                     THEN "deleted" ELSE Queue[t]]
    BY <1>5, <2>2 DEF DeleteSubjectCommit, Queue, Subject
  <2>6. Review!Remove(Review!Subject(k))
    BY <2>1, <2>3, <2>4, <2>5 DEF Review!Remove, Review!Subject, Subject, Queue
  <2>7. QED
    BY <2>3, <2>6 DEF ReviewStep, Review!Next
<1>6. CASE \/ DeleteSubjectRefs(r) \/ DeleteEvidence(r) \/ BindRead(r)
           \/ BindWrite(r) \/ DeleteRuleCommit(r) \/ CollectSave(r)
  <2>1. /\ UNCHANGED <<status, content, rowid>>
        /\ pc[r] \notin {"settle", "settling"} /\ pc'[r] \notin {"settle", "settling"}
    BY <1>6 DEF DeleteSubjectRefs, DeleteEvidence, BindRead, BindWrite,
                DeleteRuleCommit, CollectSave, Finish, Goto, review, catalog
  <2>2. QED
    BY <2>1, PublishingIs, ReviewUnseen
<1>7. QED
  BY <1>1, <1>2, <1>3, <1>4, <1>5, <1>6 DEF Step

LEMMA NextReview ==
    ASSUME OneAtATime, ~Faults, Typed, SerialInv, [Next]_vars
    PROVE  ReviewStep
<1>1. CASE UNCHANGED vars
  BY <1>1, ReviewUnseen DEF vars, locals, review, catalog, Publishing
<1>2. QED
  BY <1>1, StepReview, ArriveReview DEF Next, Crash

LEMMA ReviewInit == Init => Review!Init
<1> SUFFICES ASSUME Init PROVE Review!Init
  OBVIOUS
<1>1. \A st \in Stages : ~Publishing(st) /\ status[st] = "unused"
  BY DEF Init, Publishing
<1>2. \A st \in Stages : content[st].key \in Keys
  BY InitTyped DEF Typed, TypeOK, ReviewTypeOK, Contents
<1>3. QED
  BY <1>1, <1>2 DEF Review!Init

(* Approving, rejecting and removing, as the two transactions of an        *)
(* approval and the queue's reconciliation carry them out, are the single  *)
(* steps of the review.                                                    *)
THEOREM ReviewIsImplemented == OneAtATime /\ ~Faults => (Spec => ImplementsReview)
<1> SUFFICES ASSUME OneAtATime, ~Faults PROVE Spec => ImplementsReview
  OBVIOUS
<1>1. Typed /\ SerialInv /\ [Next]_vars => [Review!Next]_(Review!vars)
  BY NextReview DEF ReviewStep
<1>2. QED
  BY <1>1, ReviewInit, InitTyped, NextTyped, CatalogSerialInvariant, PTL
     DEF Spec, ImplementsReview, Review!Spec
=============================================================================
