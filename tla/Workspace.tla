----------------------------- MODULE Workspace -----------------------------
(***************************************************************************)
(* Who the operator is working for and whose token is in use               *)
(* (web/active_project.py, auth/commvault_auth.py, token_store.py and the  *)
(* routes that select, sign in, collect, create, edit and delete).         *)
(*                                                                         *)
(* Three places hold that knowledge: the cookie of a browser (the active   *)
(* customer and project, and the customer its sign-in was for), the single *)
(* token slot of the process, and the rows of customers and projects.  The *)
(* cookie is the whole session: a request works on the copy it came with   *)
(* and, when it changed it (a flash message is a change), its response     *)
(* sends the whole copy back.  Requests of the tabs of one browser share   *)
(* the cookie and interleave; the slot is shared by all browsers.          *)
(*                                                                         *)
(* A CommServe is abstracted to a model value that stands for its URL and  *)
(* for its csGUID; a token is the CommServe that issued it and, as         *)
(* history, the customer whose sign-in obtained it.  A CommServe refuses a *)
(* token that another one issued.                                          *)
(***************************************************************************)
EXTENDS Naturals, FiniteSets

CONSTANTS
    Requests,     \* the requests that can be in flight
    Browsers,
    Customers,    \* customer ids
    Projects,     \* project ids
    Servers,      \* CommServes
    Default,      \* the customer migration 0005 seeds ...
    DefaultProject,   \* ... and its project
    Forms,        \* what the operator can type for a customer
    EnvServer,    \* CV_BASE_URL, where the Command Center client goes
    None,
    MaxBorn,      \* bound: projects ever created
    Faults        \* whether a request may die, and the process restart

Contexts == Customers \X Projects
Tokens == [by : Servers, for : Customers]

ASSUME DefaultAssumption == Default \in Customers /\ DefaultProject \in Projects
ASSUME FormAssumption ==
    Forms \subseteq [url : Servers \cup {None}, guid : Servers \cup {None}]
ASSUME EnvAssumption == EnvServer \in Servers
ASSUME NoneAssumption ==
    None \notin Customers \cup Projects \cup Servers \cup Contexts \cup Tokens
ASSUME BoundAssumption == MaxBorn \in Nat \ {0}

VARIABLES
    customers,    \* the customers rows
    url,          \* customers.connection_url, or None
    guid,         \* customers.commserve_csguid
    owner,        \* projects.customer_id, or None when there is no row
    born,         \* the order of projects.created_at
    slot,         \* token_store: the held token
    cookie,       \* each browser's session
    saved,        \* where a collect last saved an artifact
    pc,           \* where a request stands
    who,          \* its browser
    jar,          \* its copy of the session
    dirty,        \* whether it changed that copy
    cust,         \* the customer it works on
    proj,         \* the project it works on
    base,         \* the URL it read from the customer's row ...
    declared,     \* ... and the csGUID
    token,        \* the token it read
    result        \* what its collect extracted

rows == <<customers, url, guid, owner, born>>
locals == <<pc, who, jar, dirty, cust, proj, base, declared, token, result>>
vars == <<rows, slot, cookie, saved, locals>>

(* "picked" is history: the operator picked the active context. *)
Sessions == [active : Contexts \cup {None}, bound : Customers \cup {None},
             picked : BOOLEAN]
Empty == [active |-> None, bound |-> None, picked |-> FALSE]

Verdicts == {"attested", "verified", "mismatch"}
Extracts == [source : {"report", "endpoint"}, from : Servers, verdict : Verdicts]
NothingSaved == [context |-> None, picked |-> FALSE]

Phases == {"idle", "respond", "login", "auth", "token", "extract", "probe", "save",
           "delete", "edit", "remove"}

Init ==
    /\ customers = {Default}
    /\ url = [c \in Customers |-> None]
    /\ guid = [c \in Customers |-> None]
    /\ owner = [p \in Projects |-> IF p = DefaultProject THEN Default ELSE None]
    /\ born = [p \in Projects |-> IF p = DefaultProject THEN 1 ELSE 0]
    /\ slot = None
    /\ cookie = [b \in Browsers |-> Empty]
    /\ saved = NothingSaved
    /\ pc = [r \in Requests |-> "idle"]
    /\ who = [r \in Requests |-> None]
    /\ jar = [r \in Requests |-> Empty]
    /\ dirty = [r \in Requests |-> FALSE]
    /\ cust = [r \in Requests |-> None]
    /\ proj = [r \in Requests |-> None]
    /\ base = [r \in Requests |-> None]
    /\ declared = [r \in Requests |-> None]
    /\ token = [r \in Requests |-> None]
    /\ result = [r \in Requests |-> None]

-----------------------------------------------------------------------------
(* A request comes with its browser's cookie, and ends by sending its copy *)
(* back if it changed it.                                                  *)

Open(r, b, phase) ==
    /\ pc[r] = "idle"
    /\ pc' = [pc EXCEPT ![r] = phase]
    /\ who' = [who EXCEPT ![r] = b]

Answer(r, session) ==
    /\ pc' = [pc EXCEPT ![r] = "respond"]
    /\ jar' = [jar EXCEPT ![r] = session]
    /\ dirty' = [dirty EXCEPT ![r] = TRUE]

Finish(r) ==
    /\ pc' = [pc EXCEPT ![r] = "idle"]
    /\ who' = [who EXCEPT ![r] = None]
    /\ jar' = [jar EXCEPT ![r] = Empty]
    /\ dirty' = [dirty EXCEPT ![r] = FALSE]
    /\ cust' = [cust EXCEPT ![r] = None]
    /\ proj' = [proj EXCEPT ![r] = None]
    /\ base' = [base EXCEPT ![r] = None]
    /\ declared' = [declared EXCEPT ![r] = None]
    /\ token' = [token EXCEPT ![r] = None]
    /\ result' = [result EXCEPT ![r] = None]

Respond(r) ==
    /\ pc[r] = "respond"
    /\ cookie' = IF dirty[r] THEN [cookie EXCEPT ![who[r]] = jar[r]] ELSE cookie
    /\ Finish(r)
    /\ UNCHANGED <<rows, slot, saved>>

Exists(c, p) == p \in Projects /\ owner[p] = c

(* resolve_default_project: the Default customer's earliest project. *)
DefaultContexts(own) ==
    {<<Default, p>> : p \in {p \in Projects :
        /\ own[p] = Default
        /\ \A q \in Projects : own[q] = Default => born[p] <= born[q]}}

(* get_active_project with its fallback; empty when that raises. *)
ActiveContexts(session) ==
    IF session.active # None THEN {session.active} ELSE DefaultContexts(owner)

-----------------------------------------------------------------------------
(* set_active_project, by selecting (validated) and by creating a project. *)

SetActive(r, b, c, p) ==
    /\ Exists(c, p)
    /\ Open(r, b, "respond")
    /\ jar' = [jar EXCEPT ![r] = [cookie[b] EXCEPT !.active = <<c, p>>,
                                                   !.picked = TRUE]]
    /\ dirty' = [dirty EXCEPT ![r] = TRUE]
    /\ UNCHANGED <<rows, slot, cookie, saved, cust, proj, base, declared, token, result>>

ProjectsNew(r, b, c, p) ==
    /\ c \in customers
    /\ owner[p] = None
    /\ owner' = [owner EXCEPT ![p] = c]
    /\ \E n \in 1 .. MaxBorn :                              \* bound
          /\ \A q \in Projects : born[q] < n
          /\ \E q \in Projects : born[q] = n - 1
          /\ born' = [born EXCEPT ![p] = n]
    /\ Open(r, b, "respond")
    /\ jar' = [jar EXCEPT ![r] = [cookie[b] EXCEPT !.active = <<c, p>>,
                                                   !.picked = TRUE]]
    /\ dirty' = [dirty EXCEPT ![r] = TRUE]
    /\ UNCHANGED <<customers, url, guid, slot, cookie, saved, cust, proj, base, declared,
                   token, result>>

(* projects_delete, of a project without finalizations.  Deleting the      *)
(* active project selects the Default one; when there is none the route    *)
(* fails, before the DELETE or after its commit, and the cookie stays.     *)
ProjectsDelete(r, b, c, p) ==
    /\ Exists(c, p)
    /\ Open(r, b, "delete")
    /\ jar' = [jar EXCEPT ![r] = cookie[b]]
    /\ cust' = [cust EXCEPT ![r] = c]
    /\ proj' = [proj EXCEPT ![r] = p]
    /\ UNCHANGED <<rows, slot, cookie, saved, dirty, base, declared, token, result>>

(* Mutant of ProjectsDeleteCommit: the active project is not left. *)
ProjectsDeleteCommitStay(r) ==
    /\ pc[r] = "delete"
    /\ owner' = [owner EXCEPT ![proj[r]] = IF @ = cust[r] THEN None ELSE @]
    /\ Answer(r, jar[r])
    /\ UNCHANGED <<customers, url, guid, born, slot, cookie, saved, who, cust, proj,
                   base, declared, token, result>>

ProjectsDeleteCommit(r) ==
    /\ pc[r] = "delete"
    /\ LET active == ActiveContexts(jar[r])
           deleted == [owner EXCEPT ![proj[r]] = IF @ = cust[r] THEN None ELSE @]
           default == DefaultContexts(deleted)
           wasActive == <<cust[r], proj[r]>> \in active
       IN  /\ owner' = IF active = {} THEN owner ELSE deleted
           /\ \/ /\ active = {} \/ (wasActive /\ default = {})
                 /\ Finish(r)
              \/ /\ wasActive
                 /\ \E d \in default :
                       Answer(r, [jar[r] EXCEPT !.active = d, !.picked = FALSE])
                 /\ UNCHANGED <<who, cust, proj, base, declared, token, result>>
              \/ /\ active # {} /\ ~wasActive
                 /\ Answer(r, jar[r])
                 /\ UNCHANGED <<who, cust, proj, base, declared, token, result>>
    /\ UNCHANGED <<customers, url, guid, born, slot, cookie, saved>>

-----------------------------------------------------------------------------
(* Customers: created, edited through a form, deleted.                     *)

CustomersNew(r, b, c, form) ==
    /\ c \notin customers
    /\ customers' = customers \cup {c}
    /\ url' = [url EXCEPT ![c] = form.url]
    /\ guid' = [guid EXCEPT ![c] = form.guid]
    /\ Open(r, b, "respond")
    /\ jar' = [jar EXCEPT ![r] = cookie[b]]
    /\ dirty' = [dirty EXCEPT ![r] = TRUE]
    /\ UNCHANGED <<owner, born, slot, cookie, saved, cust, proj, base, declared,
                   token, result>>

(* The form finds the row on one connection and writes every column on the *)
(* next, URL and csGUID included, with whatever it carries.  Neither the   *)
(* slot nor any session hears of it.                                       *)
CustomersEdit(r, b, c) ==
    /\ c \in customers
    /\ Open(r, b, "edit")
    /\ jar' = [jar EXCEPT ![r] = cookie[b]]
    /\ cust' = [cust EXCEPT ![r] = c]
    /\ UNCHANGED <<rows, slot, cookie, saved, dirty, proj, base, declared, token, result>>

CustomersEditCommit(r, form) ==
    /\ pc[r] = "edit"
    /\ IF cust[r] \in customers
       THEN /\ url' = [url EXCEPT ![cust[r]] = form.url]
            /\ guid' = [guid EXCEPT ![cust[r]] = form.guid]
       ELSE UNCHANGED <<url, guid>>
    /\ Answer(r, jar[r])
    /\ UNCHANGED <<customers, owner, born, slot, cookie, saved, who, cust, proj,
                   base, declared, token, result>>

(* Mutant of CustomersDelete: its projects are not counted. *)
CustomersDeleteUncounted(r, b, c) ==
    /\ c \in customers
    /\ Open(r, b, "remove")
    /\ jar' = [jar EXCEPT ![r] = cookie[b]]
    /\ cust' = [cust EXCEPT ![r] = c]
    /\ UNCHANGED <<rows, slot, cookie, saved, dirty, proj, base, declared, token, result>>

(* The projects are counted on one connection, the row is deleted on the   *)
(* next.                                                                   *)
CustomersDelete(r, b, c) ==
    /\ c \in customers
    /\ \A p \in Projects : owner[p] # c
    /\ Open(r, b, "remove")
    /\ jar' = [jar EXCEPT ![r] = cookie[b]]
    /\ cust' = [cust EXCEPT ![r] = c]
    /\ UNCHANGED <<rows, slot, cookie, saved, dirty, proj, base, declared, token, result>>

(* Mutant of Cascaded: the foreign key has no ON DELETE CASCADE. *)
NotCascaded(c) == owner

(* projects.customer_id REFERENCES customers ... ON DELETE CASCADE. *)
Cascaded(c) == [p \in Projects |-> IF owner[p] = c THEN None ELSE owner[p]]

CustomersDeleteCommit(r) ==
    /\ pc[r] = "remove"
    /\ customers' = customers \ {cust[r]}
    /\ url' = [url EXCEPT ![cust[r]] = None]
    /\ guid' = [guid EXCEPT ![cust[r]] = None]
    /\ owner' = Cascaded(cust[r])
    /\ Answer(r, jar[r])
    /\ UNCHANGED <<born, slot, cookie, saved, who, cust, proj, base, declared, token, result>>

-----------------------------------------------------------------------------
(* /login and /api/login connect to the active customer's CommServe, the   *)
(* Default customer's when nothing is selected; /logout.                   *)

Login(r, b) ==
    /\ \E context \in ActiveContexts(cookie[b]) :
          /\ context[1] \in customers
          /\ url[context[1]] # None
          /\ cust' = [cust EXCEPT ![r] = context[1]]
          /\ base' = [base EXCEPT ![r] = url[context[1]]]
    /\ Open(r, b, "login")
    /\ jar' = [jar EXCEPT ![r] = cookie[b]]
    /\ UNCHANGED <<rows, slot, cookie, saved, dirty, proj, declared, token, result>>

(* set_current_token: the marker goes to the session, the token to the slot. *)
LoginDone(r) ==
    /\ pc[r] = "login"
    /\ slot' = [by |-> base[r], for |-> cust[r]]
    /\ Answer(r, [jar[r] EXCEPT !.bound = cust[r]])
    /\ UNCHANGED <<rows, cookie, saved, who, cust, proj, base, declared, token, result>>

LoginFails(r) ==
    /\ pc[r] = "login"
    /\ Finish(r)
    /\ UNCHANGED <<rows, slot, cookie, saved>>

Logout(r, b) ==
    /\ Open(r, b, "respond")
    /\ slot' = None
    /\ jar' = [jar EXCEPT ![r] = [cookie[b] EXCEPT !.bound = None]]
    /\ dirty' = [dirty EXCEPT ![r] = cookie[b].bound # None]
    /\ UNCHANGED <<rows, cookie, saved, cust, proj, base, declared, token, result>>

-----------------------------------------------------------------------------
(* quick_hc_generic_collect *)

(* The context must be explicit, its customer must exist and have a URL;   *)
(* otherwise the request only leaves a message.                            *)
Collectable(session) ==
    /\ session.active # None
    /\ session.active[1] \in customers
    /\ url[session.active[1]] # None

CollectRefused(r, b) ==
    /\ ~Collectable(cookie[b])
    /\ Open(r, b, "respond")
    /\ jar' = [jar EXCEPT ![r] = cookie[b]]
    /\ dirty' = [dirty EXCEPT ![r] = TRUE]
    /\ UNCHANGED <<rows, slot, cookie, saved, cust, proj, base, declared, token, result>>

Collect(r, b) ==
    /\ Collectable(cookie[b])
    /\ Open(r, b, "auth")
    /\ jar' = [jar EXCEPT ![r] = cookie[b]]
    /\ cust' = [cust EXCEPT ![r] = cookie[b].active[1]]
    /\ base' = [base EXCEPT ![r] = url[cookie[b].active[1]]]
    /\ declared' = [declared EXCEPT ![r] = guid[cookie[b].active[1]]]
    /\ UNCHANGED <<rows, slot, cookie, saved, dirty, proj, token, result>>

(* Mutant of AuthenticatedFor: any held token will do. *)
Authenticated(r) == slot # None

(* is_authenticated_for: the slot holds a token, and the session's marker  *)
(* names this customer.                                                    *)
AuthenticatedFor(r) == slot # None /\ jar[r].bound = cust[r]

CollectAuth(r) ==
    /\ pc[r] = "auth"
    /\ IF AuthenticatedFor(r)
       THEN /\ pc' = [pc EXCEPT ![r] = "token"]
            /\ UNCHANGED <<slot, jar, dirty>>
       ELSE /\ slot' = None                       \* clear_current_token
            /\ Answer(r, IF slot = None THEN jar[r] ELSE [jar[r] EXCEPT !.bound = None])
    /\ UNCHANGED <<rows, cookie, saved, who, cust, proj, base, declared, token, result>>

(* The slot is read again: by now it may be empty or hold another token. *)
CollectToken(r) ==
    /\ pc[r] = "token"
    /\ token' = [token EXCEPT ![r] = slot]
    /\ pc' = [pc EXCEPT ![r] = "extract"]
    /\ UNCHANGED <<rows, slot, cookie, saved, who, jar, dirty, cust, proj,
                   base, declared, result>>

(* A Reports Plus subject is read from the customer's URL as it was when   *)
(* the request began, a Command Center subject from the configured one.    *)
Contacted(r, source) == IF source = "report" THEN base[r] ELSE EnvServer

CollectExtract(r, source) ==
    /\ pc[r] = "extract"
    /\ token[r] # None
    /\ token[r].by = Contacted(r, source)
    /\ result' = [result EXCEPT ![r] = [source |-> source,
                                        from |-> Contacted(r, source),
                                        verdict |-> "attested"]]
    /\ pc' = [pc EXCEPT ![r] = IF source = "report" THEN "save" ELSE "probe"]
    /\ UNCHANGED <<rows, slot, cookie, saved, who, jar, dirty, cust, proj,
                   base, declared, token>>

CollectFails(r) ==
    /\ pc[r] = "extract"
    /\ Answer(r, jar[r])
    /\ UNCHANGED <<rows, slot, cookie, saved, who, cust, proj, base, declared, token, result>>

(* verify_commcell_guid *)
Verdict(known, wire) ==
    IF known = None \/ wire = None THEN "attested"
    ELSE IF known = wire THEN "verified" ELSE "mismatch"

(* Mutant of Learned: UPDATE without its WHERE. *)
LearnedAlways(c, wire) ==
    IF c \in customers THEN [guid EXCEPT ![c] = wire] ELSE guid

(* learn_commserve_csguid: UPDATE ... WHERE commserve_csguid IS NULL. *)
Learned(c, wire) ==
    IF c \in customers /\ guid[c] = None THEN [guid EXCEPT ![c] = wire] ELSE guid

(* Mutant of Known: what is declared is read when the verdict is made. *)
KnownNow(r) == guid'[cust[r]]

(* The verdict uses what was declared when the request began. *)
Known(r) == declared[r]

(* _probe_session_commserve_guid, which may get no answer. *)
CollectProbe(r, wire) ==
    /\ pc[r] = "probe"
    /\ guid' = IF wire # None /\ declared[r] = None THEN Learned(cust[r], wire)
                                                    ELSE guid
    /\ result' = [result EXCEPT ![r].verdict = Verdict(Known(r), wire)]
    /\ pc' = [pc EXCEPT ![r] = "save"]
    /\ UNCHANGED <<customers, url, owner, born, slot, cookie, saved, who, jar, dirty,
                   cust, proj, base, declared, token>>

CollectSave(r) ==
    /\ pc[r] = "save"
    /\ saved' = [context |-> jar[r].active, picked |-> jar[r].picked]
    /\ Answer(r, jar[r])
    /\ UNCHANGED <<rows, slot, cookie, who, cust, proj, base, declared, token, result>>

-----------------------------------------------------------------------------
(* The request dies, or its response is lost. *)
Crash(r) ==
    /\ Faults
    /\ pc[r] # "idle"
    /\ Finish(r)
    /\ UNCHANGED <<rows, slot, cookie, saved>>

(* The web process restarts: the slot is empty and, unless CV_SECRET_KEY   *)
(* is set, no cookie is accepted any more.                                 *)
Restart ==
    /\ Faults
    /\ \A r \in Requests : pc[r] = "idle"
    /\ slot' = None
    /\ cookie' \in {cookie, [b \in Browsers |-> Empty]}
    /\ UNCHANGED <<rows, saved, locals>>

Step(r) ==
    \/ Respond(r)
    \/ ProjectsDeleteCommit(r)
    \/ CustomersDeleteCommit(r)
    \/ LoginDone(r)
    \/ LoginFails(r)
    \/ CollectAuth(r)
    \/ CollectToken(r)
    \/ \E source \in {"report", "endpoint"} : CollectExtract(r, source)
    \/ CollectFails(r)
    \/ \E wire \in {EnvServer, None} : CollectProbe(r, wire)
    \/ CollectSave(r)

Arrive(r, b) ==
    \/ \E c \in Customers, p \in Projects :
          SetActive(r, b, c, p) \/ ProjectsNew(r, b, c, p) \/ ProjectsDelete(r, b, c, p)
    \/ \E c \in Customers :
          \/ \E form \in Forms : CustomersNew(r, b, c, form)
          \/ CustomersEdit(r, b, c)
          \/ CustomersDelete(r, b, c)
    \/ Login(r, b)
    \/ Logout(r, b)
    \/ CollectRefused(r, b)
    \/ Collect(r, b)

Next ==
    \/ \E r \in Requests :
          \/ Step(r)
          \/ Crash(r)
          \/ \E b \in Browsers : Arrive(r, b)
          \/ \E form \in Forms : CustomersEditCommit(r, form)
    \/ Restart

Spec == Init /\ [][Next]_vars

-----------------------------------------------------------------------------
RowsTypeOK ==
    /\ customers \subseteq Customers
    /\ url \in [Customers -> Servers \cup {None}]
    /\ guid \in [Customers -> Servers \cup {None}]
    /\ owner \in [Projects -> Customers \cup {None}]
    /\ born \in [Projects -> 0 .. MaxBorn]

SessionTypeOK ==
    /\ slot \in Tokens \cup {None}
    /\ cookie \in [Browsers -> Sessions]
    /\ saved \in [context : Contexts \cup {None}, picked : BOOLEAN]

RequestTypeOK ==
    /\ pc \in [Requests -> Phases]
    /\ who \in [Requests -> Browsers \cup {None}]
    /\ jar \in [Requests -> Sessions]
    /\ dirty \in [Requests -> BOOLEAN]
    /\ cust \in [Requests -> Customers \cup {None}]
    /\ proj \in [Requests -> Projects \cup {None}]
    /\ base \in [Requests -> Servers \cup {None}]
    /\ declared \in [Requests -> Servers \cup {None}]
    /\ token \in [Requests -> Tokens \cup {None}]
    /\ result \in [Requests -> Extracts \cup {None}]

TypeOK == RowsTypeOK /\ SessionTypeOK /\ RequestTypeOK

-----------------------------------------------------------------------------
(* For one request at a time from one browser, none of them lost.          *)

(* A collect for a customer uses only a token that a sign-in for that      *)
(* customer obtained, from the CommServe its row named then: whatever      *)
(* customers the operator selected and signed in for since,                *)
(* is_authenticated_for (commvault_auth.py:133) lets no other one through. *)
(* It is not a claim about the URL the token is sent to, which is read     *)
(* from the row again and may have been edited since.                      *)
TokenIsCustomers ==
    \A r \in Requests :
        pc[r] = "extract" /\ token[r] # None => token[r].for = cust[r]

Idle == \A r \in Requests : pc[r] = "idle"

Dangling(session) ==
    session.active # None /\ owner[session.active[2]] # session.active[1]

(* Deleting projects and customers leaves no browser on a project that is  *)
(* gone, unless the Default customer has no project left to fall back to   *)
(* (projects.py:493-515, customers.py:314).                                *)
SelectionSurvives ==
    Idle /\ (\E b \in Browsers : Dangling(cookie[b])) => DefaultContexts(owner) = {}

(* The inductive invariant behind both: until it has an answer a request   *)
(* works on the very cookie of its browser, and of the session in use, the *)
(* request's copy or the cookie between two, the marker names the customer *)
(* whose sign-in obtained the token, and the selection stands.             *)
OneAtATime == \A r, q \in Requests : r = q
OneBrowser == \A b, d \in Browsers : b = d

InUse == IF Idle THEN {cookie[b] : b \in Browsers}
                 ELSE {jar[r] : r \in {q \in Requests : pc[q] # "idle"}}

CopyIsCurrent ==
    \A r \in Requests :
        pc[r] # "idle" /\ (pc[r] # "respond" \/ ~dirty[r]) => jar[r] = cookie[who[r]]

MarkerMatches ==
    \A s \in InUse : slot # None /\ s.bound # None => slot.for = s.bound

SelectionStands ==
    \A s \in InUse : Dangling(s) => \A p \in Projects : owner[p] # Default

CollectShape ==
    \A r \in Requests :
        /\ pc[r] = "token" => AuthenticatedFor(r)
        /\ pc[r] = "extract" /\ token[r] # None => token[r].for = cust[r]
        /\ pc[r] = "remove" => \A p \in Projects : owner[p] # cust[r]

SerialInv == CopyIsCurrent /\ MarkerMatches /\ SelectionStands /\ CollectShape

-----------------------------------------------------------------------------
(* For any requests, faults included.                                      *)

(* A csGUID that is set is only changed by the operator's form: a collect  *)
(* learns one for a customer that has none, and never overwrites the one   *)
(* typed while it ran (learn_commserve_csguid, customers.py:248-251).      *)
TypedGuidStays ==
    [][\A c \in customers :
         guid[c] # None /\ guid'[c] # guid[c] =>
             \/ c \notin customers'
             \/ \E r \in Requests : /\ pc[r] = "edit"
                                    /\ pc'[r] # "edit"
                                    /\ cust[r] = c]_vars

(* A collect for a customer whose csGUID nobody had declared is saved as   *)
(* attested: it is never checked against the value it learned itself       *)
(* (quick_hc.py:381-385).                                                  *)
FirstConnectIsAttested ==
    \A r \in Requests :
        pc[r] = "save" /\ declared[r] = None => result[r].verdict = "attested"

(* Every project belongs to a customer that exists, also when the project  *)
(* is created between the count and the DELETE of customers_delete.        *)
ProjectsHaveCustomers ==
    \A p \in Projects : owner[p] # None => owner[p] \in customers

(* What a request in flight has to work with. *)
RequestShape ==
    \A r \in Requests :
        /\ pc[r] # "idle" => who[r] \in Browsers
        /\ pc[r] \in {"login", "auth", "token", "extract"} =>
              cust[r] \in Customers /\ base[r] \in Servers
        /\ pc[r] \in {"probe", "save"} => result[r] \in Extracts

(* The types and the foreign key together, which every step keeps. *)
IInv == TypeOK /\ RequestShape /\ ProjectsHaveCustomers

-----------------------------------------------------------------------------
(* What the code does not keep.                                            *)

(* A collect writes only to a context the operator picked: "the fallback   *)
(* can NEVER satisfy a write" (active_project.py:16).                      *)
FallbackNeverWrites == saved # NothingSaved => saved.picked
=============================================================================
