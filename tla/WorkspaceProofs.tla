-------------------------- MODULE WorkspaceProofs --------------------------
(* Proofs about Workspace, for every set of requests, browsers, customers, *)
(* projects and servers.                                                   *)
EXTENDS Workspace, FiniteSetTheorems, WellFoundedInduction, TLAPS

Typed == TypeOK /\ RequestShape

-----------------------------------------------------------------------------
(* Sessions and results. *)

LEMMA EmptySession == Empty \in Sessions
  BY DEF Empty, Sessions

LEMMA SessionEdits ==
    ASSUME NEW s \in Sessions, NEW context \in Contexts \cup {None},
           NEW picked \in BOOLEAN, NEW c \in Customers \cup {None}
    PROVE  /\ [s EXCEPT !.active = context, !.picked = picked] \in Sessions
           /\ [s EXCEPT !.bound = c] \in Sessions
  BY DEF Sessions

LEMMA ActiveContextsType ==
    ASSUME NEW s \in Sessions
    PROVE  ActiveContexts(s) \subseteq Contexts
  BY DefaultAssumption DEF ActiveContexts, DefaultContexts, Sessions, Contexts

LEMMA DefaultContextsType ==
    ASSUME NEW own
    PROVE  DefaultContexts(own) \subseteq Contexts
  BY DefaultAssumption DEF DefaultContexts, Contexts

LEMMA FormType ==
    ASSUME NEW form \in Forms
    PROVE  form.url \in Servers \cup {None} /\ form.guid \in Servers \cup {None}
  BY FormAssumption

LEMMA VerdictType ==
    ASSUME NEW known, NEW wire
    PROVE  Verdict(known, wire) \in Verdicts
  BY DEF Verdict, Verdicts

-----------------------------------------------------------------------------
(* Types, and what a request in flight has to work with. *)

LEMMA InitTyped == Init => Typed
<1> SUFFICES ASSUME Init PROVE Typed
  OBVIOUS
<1>1. RowsTypeOK
  BY DefaultAssumption, BoundAssumption DEF Init, RowsTypeOK
<1>2. SessionTypeOK
  BY EmptySession DEF Init, SessionTypeOK, NothingSaved
<1>3. RequestTypeOK
  BY EmptySession DEF Init, RequestTypeOK, Phases
<1>4. RequestShape
  BY DEF Init, RequestShape
<1>5. QED
  BY <1>1, <1>2, <1>3, <1>4 DEF Typed, TypeOK

LEMMA FinishTyped ==
    ASSUME RequestTypeOK, RequestShape, NEW r \in Requests, Finish(r)
    PROVE  RequestTypeOK' /\ RequestShape'
<1>1. RequestTypeOK'
  BY EmptySession DEF RequestTypeOK, Finish, Phases
<1>2. RequestShape'
  BY DEF RequestTypeOK, RequestShape, Finish, Phases
<1>3. QED
  BY <1>1, <1>2

LEMMA AnswerTyped ==
    ASSUME RequestTypeOK, RequestShape, NEW r \in Requests, pc[r] # "idle",
           NEW session \in Sessions, Answer(r, session),
           UNCHANGED <<who, cust, proj, base, declared, token, result>>
    PROVE  RequestTypeOK' /\ RequestShape'
<1>1. RequestTypeOK'
  BY DEF RequestTypeOK, Answer, Phases
<1>2. RequestShape'
  BY DEF RequestTypeOK, RequestShape, Answer, Phases
<1>3. QED
  BY <1>1, <1>2

(* A request that arrives: its phase is not one that needs more than the   *)
(* browser, or it is a collect whose customer has a CommServe.             *)
LEMMA OpenTyped ==
    ASSUME RequestTypeOK, RequestShape, SessionTypeOK,
           NEW r \in Requests, NEW b \in Browsers,
           NEW phase \in {"respond", "login", "auth", "delete", "edit", "remove"},
           Open(r, b, phase),
           NEW session \in Sessions, jar' = [jar EXCEPT ![r] = session],
           dirty' = dirty \/ \E x \in BOOLEAN : dirty' = [dirty EXCEPT ![r] = x],
           cust' = cust \/ \E c \in Customers : cust' = [cust EXCEPT ![r] = c],
           proj' = proj \/ \E p \in Projects : proj' = [proj EXCEPT ![r] = p],
           base' = base
             \/ \E s \in Servers \cup {None} : base' = [base EXCEPT ![r] = s],
           declared' = declared
             \/ \E s \in Servers \cup {None} : declared' = [declared EXCEPT ![r] = s],
           UNCHANGED <<token, result>>,
           phase \in {"login", "auth"} =>
             /\ \E c \in Customers : cust' = [cust EXCEPT ![r] = c]
             /\ \E s \in Servers : base' = [base EXCEPT ![r] = s]
    PROVE  RequestTypeOK' /\ RequestShape'
<1>1. pc' \in [Requests -> Phases] /\ who' \in [Requests -> Browsers \cup {None}]
  BY DEF RequestTypeOK, Open, Phases
<1>2. jar' \in [Requests -> Sessions] /\ dirty' \in [Requests -> BOOLEAN]
  BY DEF RequestTypeOK
<1>3. /\ cust' \in [Requests -> Customers \cup {None}]
      /\ proj' \in [Requests -> Projects \cup {None}]
  BY DEF RequestTypeOK
<1>4. /\ base' \in [Requests -> Servers \cup {None}]
      /\ declared' \in [Requests -> Servers \cup {None}]
  BY DEF RequestTypeOK
<1>5. RequestTypeOK'
  BY <1>1, <1>2, <1>3, <1>4 DEF RequestTypeOK
<1>6. ASSUME NEW q \in Requests, q # r
      PROVE  /\ pc'[q] = pc[q] /\ who'[q] = who[q]
             /\ cust'[q] = cust[q] /\ base'[q] = base[q]
             /\ result'[q] = result[q]
  BY <1>6 DEF RequestTypeOK, Open
<1>7. /\ pc'[r] = phase /\ who'[r] = b
      /\ phase \in {"login", "auth"} =>
            cust'[r] \in Customers /\ base'[r] \in Servers
  BY DEF RequestTypeOK, Open
<1>8. RequestShape'
  BY <1>6, <1>7 DEF RequestShape
<1>9. QED
  BY <1>5, <1>8

(* Requests that arrive. *)
LEMMA ArriveTyped ==
    ASSUME Typed, NEW r \in Requests, NEW b \in Browsers, Arrive(r, b)
    PROVE  Typed'
<1> USE DEF Typed, TypeOK
<1>b. cookie[b] \in Sessions
  BY DEF SessionTypeOK
<1>1. ASSUME NEW c \in Customers, NEW p \in Projects, SetActive(r, b, c, p)
      PROVE  Typed'
  <2> DEFINE session == [cookie[b] EXCEPT !.active = <<c, p>>, !.picked = TRUE]
  <2>1. session \in Sessions
    BY <1>b, SessionEdits DEF Contexts
  <2>2. RequestTypeOK' /\ RequestShape'
    BY <1>1, <2>1, OpenTyped DEF SetActive
  <2>3. RowsTypeOK' /\ SessionTypeOK'
    BY <1>1 DEF SetActive, RowsTypeOK, SessionTypeOK, rows
  <2>4. QED
    BY <2>2, <2>3
<1>2. ASSUME NEW c \in Customers, NEW p \in Projects, ProjectsNew(r, b, c, p)
      PROVE  Typed'
  <2> DEFINE session == [cookie[b] EXCEPT !.active = <<c, p>>, !.picked = TRUE]
  <2>1. session \in Sessions
    BY <1>b, SessionEdits DEF Contexts
  <2>2. RequestTypeOK' /\ RequestShape'
    BY <1>2, <2>1, OpenTyped DEF ProjectsNew
  <2>3. RowsTypeOK'
    BY <1>2, BoundAssumption DEF ProjectsNew, RowsTypeOK
  <2>4. SessionTypeOK'
    BY <1>2 DEF ProjectsNew, SessionTypeOK
  <2>5. QED
    BY <2>2, <2>3, <2>4
<1>3. ASSUME NEW c \in Customers, NEW p \in Projects, ProjectsDelete(r, b, c, p)
      PROVE  Typed'
  <2>1. RequestTypeOK' /\ RequestShape'
    BY <1>3, <1>b, OpenTyped DEF ProjectsDelete
  <2>2. RowsTypeOK' /\ SessionTypeOK'
    BY <1>3 DEF ProjectsDelete, RowsTypeOK, SessionTypeOK, rows
  <2>3. QED
    BY <2>1, <2>2
<1>4. ASSUME NEW c \in Customers, NEW form \in Forms, CustomersNew(r, b, c, form)
      PROVE  Typed'
  <2>1. RequestTypeOK' /\ RequestShape'
    BY <1>4, <1>b, OpenTyped DEF CustomersNew
  <2>2. RowsTypeOK' /\ SessionTypeOK'
    BY <1>4, FormType DEF CustomersNew, RowsTypeOK, SessionTypeOK
  <2>3. QED
    BY <2>1, <2>2
<1>5. ASSUME NEW c \in Customers, CustomersEdit(r, b, c)
      PROVE  Typed'
  <2>1. RequestTypeOK' /\ RequestShape'
    BY <1>5, <1>b, OpenTyped DEF CustomersEdit
  <2>2. RowsTypeOK' /\ SessionTypeOK'
    BY <1>5 DEF CustomersEdit, RowsTypeOK, SessionTypeOK, rows
  <2>3. QED
    BY <2>1, <2>2
<1>6. ASSUME NEW c \in Customers, CustomersDelete(r, b, c)
      PROVE  Typed'
  <2>1. RequestTypeOK' /\ RequestShape'
    BY <1>6, <1>b, OpenTyped DEF CustomersDelete
  <2>2. RowsTypeOK' /\ SessionTypeOK'
    BY <1>6 DEF CustomersDelete, RowsTypeOK, SessionTypeOK, rows
  <2>3. QED
    BY <2>1, <2>2
<1>7. CASE Login(r, b)
  <2>1. ActiveContexts(cookie[b]) \subseteq Contexts
    BY <1>b, ActiveContextsType
  <2>2. /\ \E c \in Customers : cust' = [cust EXCEPT ![r] = c]
        /\ \E s \in Servers : base' = [base EXCEPT ![r] = s]
    BY <1>7, <2>1 DEF Login, Contexts, RowsTypeOK
  <2>3. RequestTypeOK' /\ RequestShape'
    BY <1>7, <1>b, <2>2, OpenTyped DEF Login
  <2>4. RowsTypeOK' /\ SessionTypeOK'
    BY <1>7 DEF Login, RowsTypeOK, SessionTypeOK, rows
  <2>5. QED
    BY <2>3, <2>4
<1>8. CASE Logout(r, b)
  <2>1. [cookie[b] EXCEPT !.bound = None] \in Sessions
    BY <1>b, SessionEdits
  <2>2. RequestTypeOK' /\ RequestShape'
    BY <1>8, <2>1, OpenTyped DEF Logout
  <2>3. RowsTypeOK' /\ SessionTypeOK'
    BY <1>8 DEF Logout, RowsTypeOK, SessionTypeOK, rows
  <2>4. QED
    BY <2>2, <2>3
<1>9. CASE CollectRefused(r, b)
  <2>1. RequestTypeOK' /\ RequestShape'
    BY <1>9, <1>b, OpenTyped DEF CollectRefused
  <2>2. RowsTypeOK' /\ SessionTypeOK'
    BY <1>9 DEF CollectRefused, RowsTypeOK, SessionTypeOK, rows
  <2>3. QED
    BY <2>1, <2>2
<1>10. CASE Collect(r, b)
  <2> DEFINE c == cookie[b].active[1]
  <2>1. c \in Customers /\ url[c] # None
    BY <1>10, <1>b DEF Collect, Collectable, Sessions, Contexts
  <2>2. url[c] \in Servers /\ guid[c] \in Servers \cup {None}
    BY <2>1 DEF RowsTypeOK
  <2>3. RequestTypeOK' /\ RequestShape'
    BY <1>10, <1>b, <2>1, <2>2, OpenTyped DEF Collect
  <2>4. RowsTypeOK' /\ SessionTypeOK'
    BY <1>10 DEF Collect, RowsTypeOK, SessionTypeOK, rows
  <2>5. QED
    BY <2>3, <2>4
<1>11. QED
  BY <1>1, <1>2, <1>3, <1>4, <1>5, <1>6, <1>7, <1>8, <1>9, <1>10 DEF Arrive

(* Steps of a request that changes projects or customers. *)
LEMMA RowStepTyped ==
    ASSUME Typed, NEW r \in Requests,
           \/ ProjectsDeleteCommit(r)
           \/ CustomersDeleteCommit(r)
           \/ \E form \in Forms : CustomersEditCommit(r, form)
    PROVE  Typed'
<1> USE DEF Typed, TypeOK
<1>j. jar[r] \in Sessions
  BY DEF RequestTypeOK
<1>1. CASE ProjectsDeleteCommit(r)
  <2> DEFINE deleted == [owner EXCEPT ![proj[r]] = IF @ = cust[r] THEN None ELSE @]
  <2>1. deleted \in [Projects -> Customers \cup {None}]
    BY DEF RowsTypeOK
  <2>2. RowsTypeOK' /\ SessionTypeOK'
    BY <1>1, <2>1 DEF ProjectsDeleteCommit, RowsTypeOK, SessionTypeOK
  <2>3. CASE Finish(r)
    BY <2>2, <2>3, FinishTyped
  <2>4. ASSUME NEW d \in DefaultContexts(deleted),
               Answer(r, [jar[r] EXCEPT !.active = d, !.picked = FALSE]),
               UNCHANGED <<who, cust, proj, base, declared, token, result>>
        PROVE  Typed'
    <3>1. d \in Contexts
      BY DefaultContextsType
    <3>2. [jar[r] EXCEPT !.active = d, !.picked = FALSE] \in Sessions
      BY <1>j, <3>1, SessionEdits
    <3>3. QED
      BY <1>1, <2>2, <2>4, <3>2, AnswerTyped DEF ProjectsDeleteCommit
  <2>5. CASE Answer(r, jar[r]) /\ UNCHANGED <<who, cust, proj, base, declared, token, result>>
    BY <1>1, <1>j, <2>2, <2>5, AnswerTyped DEF ProjectsDeleteCommit
  <2>6. \/ Finish(r)
        \/ \E d \in DefaultContexts(deleted) :
              /\ Answer(r, [jar[r] EXCEPT !.active = d, !.picked = FALSE])
              /\ UNCHANGED <<who, cust, proj, base, declared, token, result>>
        \/ Answer(r, jar[r]) /\ UNCHANGED <<who, cust, proj, base, declared, token, result>>
    BY <1>1 DEF ProjectsDeleteCommit
  <2>7. QED
    BY <2>3, <2>4, <2>5, <2>6
<1>2. CASE CustomersDeleteCommit(r)
  <2>1. Cascaded(cust[r]) \in [Projects -> Customers \cup {None}]
    BY DEF RowsTypeOK, Cascaded
  <2>2. RowsTypeOK' /\ SessionTypeOK'
    BY <1>2, <2>1 DEF CustomersDeleteCommit, RowsTypeOK, SessionTypeOK
  <2>3. RequestTypeOK' /\ RequestShape'
    BY <1>2, <1>j, AnswerTyped DEF CustomersDeleteCommit
  <2>4. QED
    BY <2>2, <2>3
<1>3. ASSUME NEW form \in Forms, CustomersEditCommit(r, form)
      PROVE  Typed'
  <2>1. RowsTypeOK' /\ SessionTypeOK'
    BY <1>3, FormType DEF CustomersEditCommit, RowsTypeOK, SessionTypeOK
  <2>2. RequestTypeOK' /\ RequestShape'
    BY <1>3, <1>j, AnswerTyped DEF CustomersEditCommit
  <2>3. QED
    BY <2>1, <2>2
<1>4. QED
  BY <1>1, <1>2, <1>3

(* The steps of sign-in and of a collect, and the end of a request. *)
LEMMA StepTyped ==
    ASSUME Typed, NEW r \in Requests, Step(r)
    PROVE  Typed'
<1> USE DEF Typed, TypeOK
<1>j. jar[r] \in Sessions /\ cust[r] \in Customers \cup {None}
  BY DEF RequestTypeOK
<1>1. CASE Respond(r)
  <2>1. RowsTypeOK' /\ SessionTypeOK'
    BY <1>1, <1>j DEF Respond, RowsTypeOK, SessionTypeOK, rows
  <2>2. QED
    BY <1>1, <2>1, FinishTyped DEF Respond
<1>2. CASE ProjectsDeleteCommit(r) \/ CustomersDeleteCommit(r)
  BY <1>2, RowStepTyped
<1>3. CASE LoginDone(r)
  <2>2. [jar[r] EXCEPT !.bound = cust[r]] \in Sessions
    BY <1>j, SessionEdits
  <2>3. RequestTypeOK' /\ RequestShape'
    BY <1>3, <2>2, AnswerTyped DEF LoginDone
  <2>4. [by |-> base[r], for |-> cust[r]] \in Tokens
    BY <1>3 DEF LoginDone, RequestShape, Tokens
  <2>5. RowsTypeOK' /\ SessionTypeOK'
    BY <1>3, <2>4 DEF LoginDone, RowsTypeOK, SessionTypeOK, rows
  <2>6. QED
    BY <2>3, <2>5
<1>4. CASE LoginFails(r)
  <2>1. RowsTypeOK' /\ SessionTypeOK'
    BY <1>4 DEF LoginFails, RowsTypeOK, SessionTypeOK, rows
  <2>2. QED
    BY <1>4, <2>1, FinishTyped DEF LoginFails
<1>5. CASE CollectAuth(r)
  <2>1. RowsTypeOK' /\ SessionTypeOK'
    BY <1>5 DEF CollectAuth, RowsTypeOK, SessionTypeOK, rows
  <2>2. CASE AuthenticatedFor(r)
    <3>1. RequestTypeOK'
      BY <1>5, <2>2 DEF CollectAuth, RequestTypeOK, Phases
    <3>2. RequestShape'
      BY <1>5, <2>2 DEF CollectAuth, RequestTypeOK, RequestShape
    <3>3. QED
      BY <2>1, <3>1, <3>2
  <2>3. CASE ~AuthenticatedFor(r)
    <3> DEFINE session == IF slot = None THEN jar[r] ELSE [jar[r] EXCEPT !.bound = None]
    <3>1. session \in Sessions
      BY <1>j, SessionEdits
    <3>2. RequestTypeOK' /\ RequestShape'
      BY <1>5, <2>3, <3>1, AnswerTyped DEF CollectAuth
    <3>3. QED
      BY <2>1, <3>2
  <2>4. QED
    BY <2>2, <2>3
<1>6. CASE CollectToken(r)
  <2>1. RowsTypeOK' /\ SessionTypeOK'
    BY <1>6 DEF CollectToken, RowsTypeOK, SessionTypeOK, rows
  <2>2. RequestTypeOK'
    BY <1>6 DEF CollectToken, RequestTypeOK, SessionTypeOK, Phases
  <2>3. RequestShape'
    BY <1>6 DEF CollectToken, RequestTypeOK, RequestShape
  <2>4. QED
    BY <2>1, <2>2, <2>3
<1>7. ASSUME NEW source \in {"report", "endpoint"}, CollectExtract(r, source)
      PROVE  Typed'
  <2> DEFINE extracted == [source |-> source, from |-> Contacted(r, source),
                           verdict |-> "attested"]
  <2>1. RowsTypeOK' /\ SessionTypeOK'
    BY <1>7 DEF CollectExtract, RowsTypeOK, SessionTypeOK, rows
  <2>2. Contacted(r, source) \in Servers
    BY <1>7, EnvAssumption DEF CollectExtract, Contacted, RequestShape
  <2>3. extracted \in Extracts
    BY <2>2, <1>7 DEF Extracts, Verdicts
  <2>4. RequestTypeOK'
    BY <1>7, <2>3 DEF CollectExtract, RequestTypeOK, Phases
  <2>5. RequestShape'
    BY <1>7, <2>3 DEF CollectExtract, RequestTypeOK, RequestShape
  <2>6. QED
    BY <2>1, <2>4, <2>5
<1>8. CASE CollectFails(r)
  <2>1. RowsTypeOK' /\ SessionTypeOK'
    BY <1>8 DEF CollectFails, RowsTypeOK, SessionTypeOK, rows
  <2>2. QED
    BY <1>8, <1>j, <2>1, AnswerTyped DEF CollectFails
<1>9. ASSUME NEW wire \in {EnvServer, None}, CollectProbe(r, wire)
      PROVE  Typed'
  <2>1. RowsTypeOK' /\ SessionTypeOK'
    BY <1>9, EnvAssumption DEF CollectProbe, Learned, RowsTypeOK, SessionTypeOK
  <2>2. result[r] \in Extracts
    BY <1>9 DEF CollectProbe, RequestShape
  <2>3. [result[r] EXCEPT !.verdict = Verdict(Known(r), wire)] \in Extracts
    BY <2>2, VerdictType DEF Extracts
  <2>4. RequestTypeOK'
    BY <1>9, <2>3 DEF CollectProbe, RequestTypeOK, Phases
  <2>5. RequestShape'
    BY <1>9, <2>3 DEF CollectProbe, RequestTypeOK, RequestShape
  <2>6. QED
    BY <2>1, <2>4, <2>5
<1>10. CASE CollectSave(r)
  <2>1. RowsTypeOK' /\ SessionTypeOK'
    BY <1>10, <1>j DEF CollectSave, RowsTypeOK, SessionTypeOK, Sessions, rows
  <2>2. QED
    BY <1>10, <1>j, <2>1, AnswerTyped DEF CollectSave
<1>11. QED
  BY <1>1, <1>2, <1>3, <1>4, <1>5, <1>6, <1>7, <1>8, <1>9, <1>10 DEF Step

LEMMA NextTyped == Typed /\ [Next]_vars => Typed'
<1> SUFFICES ASSUME Typed, [Next]_vars PROVE Typed'
  OBVIOUS
<1>1. ASSUME NEW r \in Requests, Step(r) PROVE Typed'
  BY <1>1, StepTyped
<1>2. ASSUME NEW r \in Requests, Crash(r) PROVE Typed'
  BY <1>2, FinishTyped
     DEF Crash, Typed, TypeOK, RowsTypeOK, SessionTypeOK, rows
<1>3. ASSUME NEW r \in Requests, NEW b \in Browsers, Arrive(r, b) PROVE Typed'
  BY <1>3, ArriveTyped
<1>4. ASSUME NEW r \in Requests, NEW form \in Forms,
             CustomersEditCommit(r, form)
      PROVE  Typed'
  BY <1>4, RowStepTyped
<1>5. CASE Restart
  BY <1>5, EmptySession
     DEF Restart, Typed, TypeOK, RowsTypeOK, SessionTypeOK, RequestTypeOK,
         RequestShape, rows, locals
<1>6. CASE UNCHANGED vars
  BY <1>6 DEF vars, Typed, TypeOK, RowsTypeOK, SessionTypeOK, RequestTypeOK,
              RequestShape, rows, locals
<1>7. QED
  BY <1>1, <1>2, <1>3, <1>4, <1>5, <1>6 DEF Next

(* The variables keep their types. *)
THEOREM WorkspaceTypeCorrect == Spec => []TypeOK
<1>1. Typed => TypeOK
  BY DEF Typed
<1>2. QED
  BY InitTyped, NextTyped, <1>1, PTL DEF Spec

-----------------------------------------------------------------------------
(* Customers and projects: four actions touch them. *)

LEMMA NextKeepsCustomers ==
    ASSUME TypeOK, ProjectsHaveCustomers, [Next]_vars
    PROVE  ProjectsHaveCustomers'
<1> USE DEF TypeOK, RowsTypeOK
<1>1. ASSUME NEW r \in Requests, NEW b \in Browsers, NEW c \in Customers,
             NEW p \in Projects, ProjectsNew(r, b, c, p)
      PROVE  ProjectsHaveCustomers'
  BY <1>1 DEF ProjectsNew, ProjectsHaveCustomers
<1>2. ASSUME NEW r \in Requests, ProjectsDeleteCommit(r)
      PROVE  ProjectsHaveCustomers'
  <2>1. /\ customers' = customers
        /\ \A p \in Projects : owner'[p] = owner[p] \/ owner'[p] = None
    BY <1>2 DEF ProjectsDeleteCommit
  <2>2. QED
    BY <2>1 DEF ProjectsHaveCustomers
<1>3. ASSUME NEW r \in Requests, NEW b \in Browsers, NEW c \in Customers,
             NEW form \in Forms, CustomersNew(r, b, c, form)
      PROVE  ProjectsHaveCustomers'
  BY <1>3 DEF CustomersNew, ProjectsHaveCustomers
<1>4. ASSUME NEW r \in Requests, CustomersDeleteCommit(r)
      PROVE  ProjectsHaveCustomers'
  BY <1>4 DEF CustomersDeleteCommit, Cascaded, ProjectsHaveCustomers
<1>5. CASE UNCHANGED <<customers, owner>>
  BY <1>5 DEF ProjectsHaveCustomers
<1>6. ASSUME NEW r \in Requests, Step(r)
      PROVE  ProjectsHaveCustomers'
  <2>1. CASE ProjectsDeleteCommit(r) \/ CustomersDeleteCommit(r)
    BY <1>2, <1>4, <2>1
  <2>2. CASE ~(ProjectsDeleteCommit(r) \/ CustomersDeleteCommit(r))
    BY <1>5, <1>6, <2>2
       DEF Step, Respond, LoginDone, LoginFails, CollectAuth, CollectToken,
           CollectExtract, CollectFails, CollectProbe, CollectSave, rows
  <2>3. QED
    BY <2>1, <2>2
<1>7. ASSUME NEW r \in Requests, NEW b \in Browsers, Arrive(r, b)
      PROVE  ProjectsHaveCustomers'
  BY <1>1, <1>3, <1>5, <1>7
     DEF Arrive, SetActive, ProjectsDelete, CustomersEdit, CustomersDelete, Login,
         Logout, CollectRefused, Collect, rows
<1>8. QED
  BY <1>5, <1>6, <1>7
     DEF Next, Crash, CustomersEditCommit, Restart, vars, rows

(* Types, the shape of requests in flight and the foreign key together,    *)
(* through every interleaving, crash and restart.                          *)
THEOREM WorkspaceInvariant == Spec => []IInv
<1>1. Init => ProjectsHaveCustomers
  BY DEF Init, ProjectsHaveCustomers
<1>2. Typed => TypeOK
  BY DEF Typed
<1>3. Typed /\ ProjectsHaveCustomers /\ [Next]_vars
         => Typed' /\ ProjectsHaveCustomers'
  BY <1>2, NextTyped, NextKeepsCustomers
<1>4. Typed /\ ProjectsHaveCustomers => IInv
  BY DEF Typed, IInv
<1>5. QED
  BY InitTyped, <1>1, <1>3, <1>4, PTL DEF Spec

(* A csGUID that is set is changed by the customer's form or goes with its *)
(* customer; a collect never overwrites it, whatever was typed since it    *)
(* read the row.                                                           *)
THEOREM TypedGuidsStay == Spec => TypedGuidStays
<1> DEFINE Kept == \A c \in customers :
                      guid[c] # None /\ guid'[c] # guid[c] =>
                          \/ c \notin customers'
                          \/ \E r \in Requests : /\ pc[r] = "edit"
                                                 /\ pc'[r] # "edit"
                                                 /\ cust[r] = c
<1>1. TypeOK /\ [Next]_vars => Kept
  <2> SUFFICES ASSUME TypeOK, [Next]_vars PROVE Kept
    OBVIOUS
  <2> USE DEF TypeOK, RowsTypeOK
  <2>1. CASE guid' = guid
    BY <2>1
  <2>2. ASSUME NEW r \in Requests, NEW form \in Forms,
               CustomersEditCommit(r, form)
        PROVE  Kept
    <3>1. pc[r] = "edit" /\ pc'[r] # "edit"
      BY <2>2 DEF CustomersEditCommit, Answer, RequestTypeOK
    <3>2. \A c \in Customers : c # cust[r] => guid'[c] = guid[c]
      BY <2>2 DEF CustomersEditCommit
    <3>3. QED
      BY <3>1, <3>2
  <2>3. ASSUME NEW r \in Requests, CustomersDeleteCommit(r)
        PROVE  Kept
    <3>1. cust[r] \notin customers'
      BY <2>3 DEF CustomersDeleteCommit
    <3>2. \A c \in Customers : c # cust[r] => guid'[c] = guid[c]
      BY <2>3 DEF CustomersDeleteCommit
    <3>3. QED
      BY <3>1, <3>2
  <2>4. ASSUME NEW r \in Requests, NEW wire, CollectProbe(r, wire)
        PROVE  Kept
    <3>1. \A c \in Customers : guid[c] # None => guid'[c] = guid[c]
      BY <2>4 DEF CollectProbe, Learned
    <3>2. QED
      BY <3>1
  <2>5. ASSUME NEW r \in Requests, Step(r)
        PROVE  guid' = guid \/ CustomersDeleteCommit(r)
                 \/ \E wire \in {EnvServer, None} : CollectProbe(r, wire)
    BY <2>5 DEF Step, Respond, ProjectsDeleteCommit, LoginDone, LoginFails,
                CollectAuth, CollectToken, CollectExtract, CollectFails, CollectSave,
                rows
  <2>6. ASSUME NEW r \in Requests, NEW b \in Browsers, Arrive(r, b)
        PROVE  \/ guid' = guid
               \/ \E c \in Customers \ customers, form \in Forms :
                     guid' = [guid EXCEPT ![c] = form.guid]
    BY <2>6 DEF Arrive, SetActive, ProjectsNew, ProjectsDelete, CustomersNew,
                CustomersEdit, CustomersDelete, Login, Logout, CollectRefused,
                Collect, rows
  <2>7. CASE Restart \/ (\E r \in Requests : Crash(r)) \/ UNCHANGED vars
    BY <2>1, <2>7 DEF Restart, Crash, vars, rows
  <2>8. ASSUME NEW c \in Customers \ customers, NEW g,
               guid' = [guid EXCEPT ![c] = g]
        PROVE  Kept
    BY <2>8
  <2>9. QED
    BY <2>1, <2>2, <2>3, <2>4, <2>5, <2>6, <2>7, <2>8 DEF Next
<1>2. QED
  BY <1>1, WorkspaceTypeCorrect, PTL DEF Spec, TypedGuidStays

-----------------------------------------------------------------------------
(* One request at a time from one browser, none of them lost. *)

(* A nonempty set of bounded naturals has a least element: the intervals   *)
(* below its elements are well-founded by inclusion.                       *)
LEMMA Least ==
    ASSUME NEW N \in Nat, NEW T, T \subseteq 0 .. N, T # {}
    PROVE  \E m \in T : \A n \in T : m <= n
<1> DEFINE Below == {0 .. n : n \in T}
<1>1. IsFiniteSet(0 .. N)
  BY FS_Interval
<1>2. Below \subseteq FiniteSubsetsOf(0 .. N) /\ Below # {}
  <2>1. \A n \in T : 0 .. n \subseteq 0 .. N /\ n \in Nat
    OBVIOUS
  <2>2. \A n \in T : IsFiniteSet(0 .. n)
    BY <2>1, FS_Interval
  <2>3. QED
    BY <2>1, <2>2 DEF FiniteSubsetsOf
<1>3. PICK X \in Below : \A Y \in Below : ~(<<Y, X>> \in StrictSubsetOrdering(0 .. N))
  BY <1>2, FS_StrictSubsetOrderingWellFounded, WFMin
<1>4. PICK m \in T : X = 0 .. m
  OBVIOUS
<1>5. ASSUME NEW n \in T PROVE m <= n
  <2>1. ~(0 .. n \subseteq 0 .. m /\ 0 .. n # 0 .. m)
    <3>1. X \in SUBSET (0 .. N) /\ 0 .. n \in SUBSET (0 .. N) /\ 0 .. n \in Below
      BY <1>2 DEF FiniteSubsetsOf
    <3>2. ~(<<0 .. n, X>> \in StrictSubsetOrdering(0 .. N))
      BY <1>3, <3>1
    <3> HIDE DEF Below
    <3>3. QED
      BY <3>1, <3>2, <1>4 DEF StrictSubsetOrdering
  <2>2. m \in Nat /\ n \in Nat
    OBVIOUS
  <2>3. CASE n < m
    <3>1. 0 .. n \subseteq 0 .. m
      BY <2>2, <2>3
    <3>2. m \in 0 .. m /\ m \notin 0 .. n
      BY <2>2, <2>3
    <3>3. QED
      BY <2>1, <3>1, <3>2
  <2>4. QED
    BY <2>2, <2>3
<1>6. QED
  BY <1>5

(* As long as the Default customer has a project, resolve_default_project  *)
(* finds one: the earliest.                                                *)
LEMMA DefaultResolves ==
    ASSUME TypeOK, NEW own, DefaultContexts(own) = {}
    PROVE  \A p \in Projects : own[p] # Default
<1> SUFFICES ASSUME NEW p \in Projects, own[p] = Default PROVE FALSE
  OBVIOUS
<1> DEFINE births == {born[q] : q \in {q \in Projects : own[q] = Default}}
<1>1. MaxBorn \in Nat /\ births \subseteq 0 .. MaxBorn /\ births # {}
  BY BoundAssumption DEF TypeOK, RowsTypeOK
<1>2. PICK m \in births : \A n \in births : m <= n
  BY <1>1, Least
<1>3. PICK q \in Projects : own[q] = Default /\ born[q] = m
  OBVIOUS
<1>4. <<Default, q>> \in DefaultContexts(own)
  BY <1>2, <1>3 DEF DefaultContexts
<1>5. QED
  BY <1>4

Marked(s, held) == held # None /\ s.bound # None => held.for = s.bound

Stands(s, own) ==
    s.active # None /\ own[s.active[2]] # s.active[1] =>
        \A p \in Projects : own[p] # Default

(* What SerialInv says of the one request, or of the one browser.          *)
Serves(r) ==
    /\ Marked(jar[r], slot) /\ Stands(jar[r], owner)
    /\ pc[r] # "respond" \/ ~dirty[r] => jar[r] = cookie[who[r]]
    /\ pc[r] = "token" => AuthenticatedFor(r)
    /\ pc[r] = "extract" /\ token[r] # None => token[r].for = cust[r]
    /\ pc[r] = "remove" => \A p \in Projects : owner[p] # cust[r]

Rests(b) == Marked(cookie[b], slot) /\ Stands(cookie[b], owner)

LEMMA SerialParts ==
    ASSUME OneAtATime, SerialInv, NEW r \in Requests
    PROVE  /\ pc[r] # "idle" => Serves(r)
           /\ pc[r] = "idle" => \A b \in Browsers : Rests(b)
<1>1. Idle <=> pc[r] = "idle"
  BY DEF OneAtATime, Idle
<1>2. ASSUME pc[r] # "idle" PROVE Serves(r)
  <2>1. jar[r] \in InUse
    BY <1>1, <1>2 DEF InUse
  <2>2. QED
    BY <1>2, <2>1
       DEF SerialInv, CopyIsCurrent, MarkerMatches, SelectionStands, CollectShape,
           Serves, Marked, Stands, Dangling
<1>3. ASSUME pc[r] = "idle", NEW b \in Browsers PROVE Rests(b)
  <2>1. cookie[b] \in InUse
    BY <1>1, <1>3 DEF InUse
  <2>2. QED
    BY <2>1 DEF SerialInv, MarkerMatches, SelectionStands, Rests, Marked, Stands, Dangling
<1>4. QED
  BY <1>2, <1>3

LEMMA ServesNext ==
    ASSUME OneAtATime, NEW r \in Requests, pc'[r] # "idle", Serves(r)'
    PROVE  SerialInv'
<1>1. \A q \in Requests : q = r
  BY DEF OneAtATime
<1>2. \A s \in InUse' : s = jar'[r]
  BY <1>1 DEF InUse, Idle
<1>3. QED
  BY <1>1, <1>2
     DEF SerialInv, CopyIsCurrent, MarkerMatches, SelectionStands, CollectShape,
         Serves, Marked, Stands, Dangling

LEMMA RestsNext ==
    ASSUME OneAtATime, OneBrowser, NEW r \in Requests, pc'[r] = "idle",
           NEW b \in Browsers, Rests(b)'
    PROVE  SerialInv'
<1>1. \A q \in Requests : pc'[q] = "idle"
  BY DEF OneAtATime
<1>2. \A s \in InUse' : s = cookie'[b]
  BY <1>1 DEF InUse, Idle, OneBrowser
<1>3. QED
  BY <1>1, <1>2
     DEF SerialInv, CopyIsCurrent, MarkerMatches, SelectionStands, CollectShape,
         Rests, Marked, Stands, Dangling

(* A request that arrives with the cookie as it stands. *)
LEMMA OpenSerial ==
    ASSUME TypeOK, OneAtATime, NEW r \in Requests, NEW b \in Browsers, Rests(b),
           NEW phase \in {"respond", "login", "auth", "delete", "edit", "remove"},
           Open(r, b, phase),
           jar' = [jar EXCEPT ![r] = cookie[b]],
           UNCHANGED <<owner, slot, cookie>>,
           phase = "remove" => \A p \in Projects : owner[p] # cust'[r]
    PROVE  SerialInv'
<1> USE DEF TypeOK, RequestTypeOK
<1>1. pc'[r] = phase /\ who'[r] = b /\ jar'[r] = cookie'[b]
  BY DEF Open
<1>2. Serves(r)'
  BY <1>1 DEF Serves, Rests
<1>3. QED
  BY <1>1, <1>2, ServesNext

(* An answer keeps the invariant when the session it sends does.           *)
LEMMA AnswerSerial ==
    ASSUME TypeOK, OneAtATime, NEW r \in Requests, NEW session,
           Answer(r, session), Marked(session, slot'), Stands(session, owner')
    PROVE  SerialInv'
<1> USE DEF TypeOK, RequestTypeOK
<1>1. pc'[r] = "respond" /\ jar'[r] = session /\ dirty'[r] = TRUE
  BY DEF Answer
<1>2. Serves(r)'
  BY <1>1 DEF Serves, Marked, Stands
<1>3. QED
  BY <1>1, <1>2, ServesNext

(* A request that ends leaves the cookie it sent, or the one it came with. *)
LEMMA FinishSerial ==
    ASSUME TypeOK, OneAtATime, OneBrowser, NEW r \in Requests, NEW b \in Browsers,
           Finish(r), Marked(cookie'[b], slot'), Stands(cookie'[b], owner')
    PROVE  SerialInv'
<1>1. pc'[r] = "idle"
  BY DEF Finish, TypeOK, RequestTypeOK
<1>2. Rests(b)'
  BY DEF Rests, Marked, Stands
<1>3. QED
  BY <1>1, <1>2, RestsNext

LEMMA ArriveSerial ==
    ASSUME Typed, OneAtATime, SerialInv,
           NEW r \in Requests, NEW b \in Browsers, Arrive(r, b)
    PROVE  SerialInv'
<1> USE DEF Typed
<1>1. pc[r] = "idle"
  BY DEF Arrive, Open, SetActive, ProjectsNew, ProjectsDelete, CustomersNew,
         CustomersEdit, CustomersDelete, Login, Logout, CollectRefused, Collect
<1>2. Rests(b) /\ cookie[b] \in Sessions
  BY <1>1, SerialParts DEF TypeOK, SessionTypeOK
<1>3. ASSUME NEW c \in Customers, NEW p \in Projects,
             SetActive(r, b, c, p) \/ ProjectsNew(r, b, c, p)
      PROVE  SerialInv'
  <2> DEFINE session == [cookie[b] EXCEPT !.active = <<c, p>>, !.picked = TRUE]
  <2>1. /\ jar'[r] = session /\ pc'[r] = "respond" /\ dirty'[r] = TRUE
        /\ slot' = slot /\ owner'[p] = c
    BY <1>3 DEF SetActive, ProjectsNew, Open, Exists, TypeOK, RowsTypeOK, RequestTypeOK, rows
  <2>2. session.bound = cookie[b].bound /\ session.active = <<c, p>>
    BY <1>2 DEF Sessions
  <2>3. Serves(r)'
    BY <1>2, <2>1, <2>2 DEF Serves, Rests, Marked, Stands
  <2>4. QED
    BY <2>1, <2>3, ServesNext
<1>4. ASSUME NEW c \in Customers, NEW p \in Projects, ProjectsDelete(r, b, c, p)
      PROVE  SerialInv'
  BY <1>2, <1>4, OpenSerial DEF ProjectsDelete, rows
<1>5. ASSUME NEW c \in Customers,
             CustomersEdit(r, b, c) \/ \E form \in Forms : CustomersNew(r, b, c, form)
      PROVE  SerialInv'
  BY <1>2, <1>5, OpenSerial DEF CustomersNew, CustomersEdit, rows
<1>6. ASSUME NEW c \in Customers, CustomersDelete(r, b, c)
      PROVE  SerialInv'
  <2>1. \A p \in Projects : owner[p] # cust'[r]
    BY <1>6 DEF CustomersDelete, TypeOK, RequestTypeOK
  <2>2. QED
    BY <1>2, <1>6, <2>1, OpenSerial DEF CustomersDelete, rows
<1>7. CASE Login(r, b) \/ CollectRefused(r, b) \/ Collect(r, b)
  BY <1>2, <1>7, OpenSerial DEF Login, CollectRefused, Collect, rows
<1>8. CASE Logout(r, b)
  <2> DEFINE session == [cookie[b] EXCEPT !.bound = None]
  <2>1. /\ jar'[r] = session /\ pc'[r] = "respond" /\ slot' = None
        /\ dirty'[r] = (cookie[b].bound # None)
        /\ who'[r] = b /\ cookie' = cookie /\ owner' = owner
    BY <1>8 DEF Logout, Open, TypeOK, RequestTypeOK, rows
  <2>2. session.active = cookie[b].active
    BY <1>2 DEF Sessions
  <2>3. ~dirty'[r] => session = cookie[b]
    BY <1>2, <2>1 DEF Sessions
  <2>4. Serves(r)'
    BY <1>2, <2>1, <2>2, <2>3 DEF Serves, Rests, Marked, Stands
  <2>5. QED
    BY <2>1, <2>4, ServesNext
<1>9. QED
  BY <1>3, <1>4, <1>5, <1>6, <1>7, <1>8 DEF Arrive

(* Deleting a project: the active one is left for the Default customer's   *)
(* earliest, unless that customer has none left.                           *)
LEMMA ProjectsDeleteSerial ==
    ASSUME Typed, OneAtATime, OneBrowser, SerialInv,
           NEW r \in Requests, ProjectsDeleteCommit(r)
    PROVE  SerialInv'
<1> USE DEF Typed
<1> DEFINE active == ActiveContexts(jar[r])
           deleted == [owner EXCEPT ![proj[r]] = IF @ = cust[r] THEN None ELSE @]
           wasActive == <<cust[r], proj[r]>> \in active
<1>1. /\ pc[r] = "delete" /\ who[r] \in Browsers
      /\ Serves(r) /\ jar[r] \in Sessions
  BY SerialParts DEF ProjectsDeleteCommit, RequestShape, TypeOK, RequestTypeOK
<1>2. slot' = slot /\ cookie' = cookie /\ jar[r] = cookie[who[r]]
  BY <1>1 DEF ProjectsDeleteCommit, Serves
<1>3. /\ deleted \in [Projects -> Customers \cup {None}]
      /\ \A p \in Projects :
            \/ deleted[p] = owner[p]
            \/ p = proj[r] /\ owner[p] = cust[r] /\ deleted[p] = None
  BY DEF TypeOK, RowsTypeOK
<1>4. CASE active = {} /\ Finish(r) /\ owner' = owner
  BY <1>1, <1>2, <1>4, FinishSerial DEF Serves
<1>5. CASE wasActive /\ DefaultContexts(deleted) = {} /\ Finish(r) /\ owner' = deleted
  <2>1. \A p \in Projects : owner'[p] # Default
    BY <1>5, DefaultResolves
  <2>2. QED
    BY <1>1, <1>2, <1>5, <2>1, FinishSerial DEF Serves, Stands
<1>6. ASSUME wasActive, owner' = deleted, NEW d \in DefaultContexts(deleted),
             Answer(r, [jar[r] EXCEPT !.active = d, !.picked = FALSE])
      PROVE  SerialInv'
  <2> DEFINE session == [jar[r] EXCEPT !.active = d, !.picked = FALSE]
  <2>1. d[1] = Default /\ owner'[d[2]] = Default
    BY <1>6 DEF DefaultContexts
  <2>2. session.bound = jar[r].bound /\ session.active = d
    BY <1>1 DEF Sessions
  <2>3. Marked(session, slot') /\ Stands(session, owner')
    BY <1>1, <1>2, <2>1, <2>2 DEF Serves, Marked, Stands
  <2> HIDE DEF session
  <2>4. QED
    BY <1>6, <2>3, AnswerSerial DEF session
<1>7. CASE active # {} /\ ~wasActive /\ owner' = deleted /\ Answer(r, jar[r])
  <2>1. ASSUME jar[r].active # None, deleted[jar[r].active[2]] # jar[r].active[1]
        PROVE  \A p \in Projects : deleted[p] # Default
    <3>1. active = {jar[r].active}
      BY <2>1 DEF ActiveContexts
    <3>2. PICK c \in Customers, p \in Projects : jar[r].active = <<c, p>>
      BY <1>1, <2>1 DEF Sessions, Contexts
    <3>3. owner[p] # c
      BY <1>3, <1>7, <2>1, <3>1, <3>2
    <3>4. \A q \in Projects : owner[q] # Default
      BY <1>1, <2>1, <3>2, <3>3 DEF Serves, Stands
    <3>5. QED
      BY <1>3, <3>4, DefaultAssumption, NoneAssumption
  <2>2. Stands(jar[r], owner')
    BY <1>7, <2>1 DEF Stands
  <2>3. QED
    BY <1>1, <1>2, <1>7, <2>2, AnswerSerial DEF Serves
<1>8. QED
  BY <1>4, <1>5, <1>6, <1>7 DEF ProjectsDeleteCommit

(* The steps of a request up to its answer, and its end. *)
LEMMA StepSerial ==
    ASSUME Typed, OneAtATime, OneBrowser, SerialInv, NEW r \in Requests,
           Step(r) \/ \E form \in Forms : CustomersEditCommit(r, form)
    PROVE  SerialInv'
<1> USE DEF Typed
<1>1. /\ pc[r] # "idle" /\ Serves(r) /\ who[r] \in Browsers
      /\ jar[r] \in Sessions /\ cust[r] \in Customers \cup {None}
  <2>1. pc[r] # "idle"
    BY DEF Step, Respond, ProjectsDeleteCommit, CustomersDeleteCommit, LoginDone,
           LoginFails, CollectAuth, CollectToken, CollectExtract, CollectFails,
           CollectProbe, CollectSave, CustomersEditCommit
  <2>2. QED
    BY <2>1, SerialParts DEF RequestShape, TypeOK, RequestTypeOK
<1>2. CASE Respond(r)
  <2>1. /\ cookie'[who[r]] = jar[r]
        /\ slot' = slot /\ owner' = owner
    BY <1>1, <1>2 DEF Respond, Serves, TypeOK, SessionTypeOK, rows
  <2>2. QED
    BY <1>1, <1>2, <2>1, FinishSerial DEF Respond, Serves
<1>3. CASE CustomersDeleteCommit(r)
  <2>1. owner' = owner
    BY <1>1, <1>3 DEF CustomersDeleteCommit, Cascaded, Serves, TypeOK, RowsTypeOK
  <2>2. QED
    BY <1>1, <1>3, <2>1, AnswerSerial DEF CustomersDeleteCommit, Serves
<1>4. CASE LoginDone(r)
  <2> DEFINE session == [jar[r] EXCEPT !.bound = cust[r]]
  <2>1. /\ session.bound = cust[r] /\ session.active = jar[r].active
        /\ slot'.for = cust[r] /\ owner' = owner
    BY <1>1, <1>4 DEF LoginDone, Sessions, rows
  <2>2. Marked(session, slot') /\ Stands(session, owner')
    BY <1>1, <2>1 DEF Serves, Marked, Stands
  <2> HIDE DEF session
  <2>3. QED
    BY <1>4, <2>2, AnswerSerial DEF LoginDone, session
<1>5. CASE LoginFails(r)
  BY <1>1, <1>5, FinishSerial DEF LoginFails, Serves, rows
<1>6. CASE CollectAuth(r) /\ AuthenticatedFor(r)
  <2>1. /\ pc'[r] = "token" /\ jar' = jar /\ slot' = slot /\ owner' = owner
        /\ cookie' = cookie /\ who' = who /\ cust' = cust /\ pc[r] = "auth"
    BY <1>6 DEF CollectAuth, TypeOK, RequestTypeOK, rows
  <2>2. Serves(r)'
    BY <1>1, <1>6, <2>1 DEF Serves, Marked, Stands, AuthenticatedFor
  <2>3. QED
    BY <2>1, <2>2, ServesNext
<1>7. CASE CollectAuth(r) /\ ~AuthenticatedFor(r)
  <2> DEFINE session == IF slot = None THEN jar[r] ELSE [jar[r] EXCEPT !.bound = None]
  <2>1. session.active = jar[r].active /\ slot' = None /\ owner' = owner
    BY <1>1, <1>7 DEF CollectAuth, Sessions, rows
  <2>2. Marked(session, slot') /\ Stands(session, owner')
    BY <1>1, <2>1 DEF Serves, Marked, Stands
  <2> HIDE DEF session
  <2>3. QED
    BY <1>7, <2>2, AnswerSerial DEF CollectAuth, session
<1>8. CASE CollectToken(r)
  <2>1. /\ pc'[r] = "extract" /\ jar' = jar /\ slot' = slot /\ owner' = owner
        /\ cookie' = cookie /\ who' = who /\ cust' = cust
        /\ token'[r] = slot /\ pc[r] = "token"
    BY <1>8 DEF CollectToken, TypeOK, RequestTypeOK, rows
  <2>2. slot.for = cust[r]
    BY <1>1, <2>1, NoneAssumption DEF Serves, Marked, AuthenticatedFor, RequestShape
  <2>3. Serves(r)'
    BY <1>1, <2>1, <2>2 DEF Serves, Marked, Stands
  <2>4. QED
    BY <2>1, <2>3, ServesNext
<1>9. ASSUME \/ \E source \in {"report", "endpoint"} : CollectExtract(r, source)
             \/ \E wire \in {EnvServer, None} : CollectProbe(r, wire)
      PROVE  SerialInv'
  <2>1. /\ pc'[r] \in {"probe", "save"} /\ jar' = jar /\ slot' = slot /\ owner' = owner
        /\ cookie' = cookie /\ who' = who /\ pc[r] \in {"extract", "probe"}
    BY <1>9 DEF CollectExtract, CollectProbe, TypeOK, RequestTypeOK, rows
  <2>2. Serves(r)'
    BY <1>1, <2>1 DEF Serves, Marked, Stands
  <2>3. QED
    BY <2>1, <2>2, ServesNext
<1>10. ASSUME \/ CollectFails(r) \/ CollectSave(r)
              \/ \E form \in Forms : CustomersEditCommit(r, form)
       PROVE  SerialInv'
  BY <1>1, <1>10, AnswerSerial
     DEF CollectFails, CollectSave, CustomersEditCommit, Serves, rows
<1>11. QED
  BY <1>2, <1>3, <1>4, <1>5, <1>6, <1>7, <1>8, <1>9, <1>10, ProjectsDeleteSerial DEF Step

LEMMA NextSerial ==
    ASSUME Typed, OneAtATime, OneBrowser, ~Faults, SerialInv, [Next]_vars
    PROVE  SerialInv'
<1>1. CASE UNCHANGED vars
  BY <1>1
     DEF vars, rows, locals, SerialInv, CopyIsCurrent, MarkerMatches,
         SelectionStands, CollectShape, InUse, Idle, Dangling, AuthenticatedFor
<1>2. CASE Next
  BY <1>2, ArriveSerial, StepSerial DEF Next, Crash, Restart
<1>3. QED
  BY <1>1, <1>2

(* The session in use, the token slot and the projects agree: of the only  *)
(* browser's session the marker names the customer whose sign-in obtained  *)
(* the token, and the selection stands.                                    *)
THEOREM WorkspaceSerialInvariant ==
    OneAtATime /\ OneBrowser /\ ~Faults => (Spec => []SerialInv)
<1> SUFFICES ASSUME OneAtATime, OneBrowser, ~Faults PROVE Spec => []SerialInv
  OBVIOUS
<1>1. Init => SerialInv
  <2> SUFFICES ASSUME Init PROVE SerialInv
    OBVIOUS
  <2>1. Idle /\ \A s \in InUse : s = Empty
    BY DEF Init, Idle, InUse
  <2>2. slot = None /\ \A r \in Requests : pc[r] = "idle"
    BY DEF Init
  <2>3. QED
    BY <2>1, <2>2
       DEF SerialInv, CopyIsCurrent, MarkerMatches, SelectionStands, CollectShape,
           Empty, Dangling
<1>2. Typed /\ SerialInv /\ [Next]_vars => Typed' /\ SerialInv'
  BY NextTyped, NextSerial
<1>3. QED
  BY InitTyped, <1>1, <1>2, PTL DEF Spec

(* A collect for a customer uses only a token that a sign-in for that      *)
(* customer obtained.                                                      *)
THEOREM TokensAreTheCustomers ==
    OneAtATime /\ OneBrowser /\ ~Faults => (Spec => []TokenIsCustomers)
<1> SUFFICES ASSUME OneAtATime, OneBrowser, ~Faults PROVE Spec => []TokenIsCustomers
  OBVIOUS
<1>1. SerialInv => TokenIsCustomers
  BY DEF SerialInv, CollectShape, TokenIsCustomers
<1>2. QED
  BY <1>1, WorkspaceSerialInvariant, PTL

(* Deleting projects and customers leaves no browser on a project that is  *)
(* gone while the Default customer has one.                                *)
THEOREM SelectionsSurvive ==
    OneAtATime /\ OneBrowser /\ ~Faults => (Spec => []SelectionSurvives)
<1> SUFFICES ASSUME OneAtATime, OneBrowser, ~Faults PROVE Spec => []SelectionSurvives
  OBVIOUS
<1>1. SerialInv => SelectionSurvives
  BY DEF SerialInv, SelectionStands, InUse, SelectionSurvives, DefaultContexts
<1>2. QED
  BY <1>1, WorkspaceSerialInvariant, PTL

(* A collect for a customer without a csGUID is saved as attested: for any *)
(* requests and browsers, faults included.                                 *)
THEOREM FirstConnectsAreAttested == Spec => []FirstConnectIsAttested
<1>1. Init => FirstConnectIsAttested
  BY DEF Init, FirstConnectIsAttested
<1> DEFINE Elsewhere(r) ==
             \A q \in Requests : q # r => /\ pc'[q] = pc[q]
                                          /\ declared'[q] = declared[q]
                                          /\ result'[q] = result[q]
<1>2. ASSUME Typed, FirstConnectIsAttested, [Next]_vars
      PROVE  FirstConnectIsAttested'
  <2> USE DEF Typed, TypeOK, RequestTypeOK
  <2>1. ASSUME NEW r \in Requests, Elsewhere(r),
               pc'[r] = "save" /\ declared'[r] = None => result'[r].verdict = "attested"
        PROVE  FirstConnectIsAttested'
    BY <1>2, <2>1 DEF FirstConnectIsAttested
  <2>2. ASSUME NEW r \in Requests, NEW source \in {"report", "endpoint"},
               CollectExtract(r, source)
        PROVE  FirstConnectIsAttested'
    <3>1. Elsewhere(r) /\ result'[r].verdict = "attested"
      BY <1>2, <2>2 DEF CollectExtract
    <3>2. QED
      BY <2>1, <3>1
  <2>3. ASSUME NEW r \in Requests, NEW wire, CollectProbe(r, wire)
        PROVE  FirstConnectIsAttested'
    <3>1. /\ result'[r] = [result[r] EXCEPT !.verdict = Verdict(declared[r], wire)]
          /\ result[r] \in Extracts /\ declared'[r] = declared[r]
          /\ Elsewhere(r)
      BY <1>2, <2>3 DEF CollectProbe, RequestShape, Known
    <3>2. declared'[r] = None => result'[r].verdict = "attested"
      BY <3>1 DEF Verdict, Extracts
    <3>3. QED
      BY <2>1, <3>1, <3>2
  <2>4. ASSUME NEW r \in Requests, Elsewhere(r), pc'[r] # "save"
        PROVE  FirstConnectIsAttested'
    BY <2>1, <2>4
  <2>5. ASSUME NEW r \in Requests, NEW session, Answer(r, session),
               UNCHANGED <<declared, result>>
        PROVE  FirstConnectIsAttested'
    BY <1>2, <2>4, <2>5 DEF Answer
  <2>6. ASSUME NEW r \in Requests, Finish(r)
        PROVE  FirstConnectIsAttested'
    BY <1>2, <2>4, <2>6 DEF Finish
  <2>7. ASSUME NEW r \in Requests, NEW b \in Browsers, Arrive(r, b)
        PROVE  FirstConnectIsAttested'
    BY <1>2, <2>4, <2>7
       DEF Arrive, Open, SetActive, ProjectsNew, ProjectsDelete, CustomersNew,
           CustomersEdit, CustomersDelete, Login, Logout, CollectRefused, Collect
  <2>8. ASSUME NEW r \in Requests, CollectAuth(r) \/ CollectToken(r)
        PROVE  FirstConnectIsAttested'
    BY <1>2, <2>4, <2>8 DEF CollectAuth, CollectToken, Answer
  <2>9. ASSUME NEW r \in Requests, Step(r)
        PROVE  FirstConnectIsAttested'
    BY <2>2, <2>3, <2>5, <2>6, <2>8, <2>9
       DEF Step, Respond, ProjectsDeleteCommit, CustomersDeleteCommit, LoginDone,
           LoginFails, CollectFails, CollectSave
  <2>10. CASE Restart \/ UNCHANGED vars
    BY <1>2, <2>10 DEF Restart, vars, locals, FirstConnectIsAttested
  <2>11. QED
    BY <1>2, <2>5, <2>6, <2>7, <2>9, <2>10 DEF Next, Crash, CustomersEditCommit
<1>3. QED
  BY InitTyped, NextTyped, <1>1, <1>2, PTL DEF Spec
=============================================================================
