---------------------------- MODULE Finalization ----------------------------
(***************************************************************************)
(* One project's artifact tree and its finalization rows                   *)
(* (db/finalizations.py, artifacts/store.py, web/routes/projects.py).      *)
(*                                                                         *)
(* The state of a project is split between two stores that are never       *)
(* updated together: rows in SQLite (projects, finalizations) and          *)
(* directories on disk (working/<subject>, finalized/<n>/<subject>).       *)
(* Every request is a sequence of steps on one store or the other, any     *)
(* two requests interleave (Flask serves each on its own thread), and a    *)
(* request may die between two steps.                                      *)
(*                                                                         *)
(* A directory is abstracted to what its latest.json says: NoDir (the      *)
(* directory is not there), Partial (it is there without a complete        *)
(* latest.json), or the content of latest.json.  Two projects share        *)
(* neither rows (every statement names project_id) nor directories (every  *)
(* path starts with <customer>/<project>), so one project is modelled.     *)
(***************************************************************************)
EXTENDS Naturals, FiniteSets, FiniteSetsExt

CONSTANTS
    Requests,     \* the requests the web process can have in flight
    Subjects,     \* subject ids; numbers, because copies go in sorted order
    Contents,     \* what a complete latest.json can hold
    NoDir,        \* no directory for this subject
    Partial,      \* a directory without a complete latest.json
    MaxNumber,    \* bound: highest finalization number
    MaxProjects,  \* bound: how often the project is created
    Faults        \* whether a request may die between two of its steps

ASSUME SubjectsAssumption == Subjects \subseteq Nat
ASSUME NumberAssumption == MaxNumber \in Nat /\ MaxProjects \in Nat
ASSUME ContentsAssumption == /\ NoDir \notin Contents
                             /\ Partial \notin Contents
                             /\ NoDir # Partial
ASSUME FaultsAssumption == Faults \in BOOLEAN

VARIABLES
    project,      \* 0: no projects row; k: the k-th row created for this id
    created,      \* how many rows were created for this id
    rows,         \* the finalization_numbers of this project_id
    working,      \* working/<subject>
    trees,        \* the n for which the directory finalized/<n> exists
    finalized,    \* finalized/<n>/<subject>
    pc,           \* where a request stands
    todo,         \* subjects its loop has not reached
    listed,       \* subjects its directory listing returned
    num,          \* the finalization number it works on
    subj,         \* the subject it is saving or copying
    art,          \* the content it is saving, or found when it began to copy
    taken,        \* history: the listing of the finalize that inserted row n
    cascaded      \* history: a DELETE of the project took rows with it

locals == <<pc, todo, listed, num, subj, art>>
vars == <<project, created, rows, working, trees, finalized, locals,
          taken, cascaded>>

Numbers == 1 .. MaxNumber
Dirs == Contents \cup {NoDir, Partial}
Phases == {"idle", "save", "unlink", "number", "copy", "copying",
           "clear", "restore", "restoring", "delete"}

(* Mutant of SubjectDirs: only what changed since the last snapshot. *)
ChangedSubjectDirs(tree) ==
    {s \in Subjects : tree[s] # NoDir /\ \A n \in rows : finalized[n][s] # tree[s]}

(* _list_subject_dirs: the subjects that have a directory in a tree. *)
SubjectDirs(tree) == {s \in Subjects : tree[s] # NoDir}

(* Mutants of MaxRow: off by one; directories counted instead of rows. *)
PreviousRow == IF rows = {} THEN 0 ELSE Max(rows) - 1
TreeCount == Cardinality(trees)

(* _max_finalization_number: SELECT MAX(...), 0 when there is no row. *)
MaxRow == IF rows = {} THEN 0 ELSE Max(rows)

(* The loops run over sorted(subject ids). *)
IsNext(s, S) == s \in S /\ \A t \in S : s <= t

-----------------------------------------------------------------------------
(* A request at rest, and the two ways it comes to rest. *)

NoSubject == 0
NoArt == Partial

Finish(r) ==
    /\ pc' = [pc EXCEPT ![r] = "idle"]
    /\ todo' = [todo EXCEPT ![r] = {}]
    /\ listed' = [listed EXCEPT ![r] = {}]
    /\ num' = [num EXCEPT ![r] = 0]
    /\ subj' = [subj EXCEPT ![r] = NoSubject]
    /\ art' = [art EXCEPT ![r] = NoArt]

Goto(r, phase) == pc' = [pc EXCEPT ![r] = phase]

Init ==
    /\ project = 1
    /\ created = 1
    /\ rows = {}
    /\ working = [s \in Subjects |-> NoDir]
    /\ trees = {}
    /\ finalized = [n \in Numbers |-> [s \in Subjects |-> NoDir]]
    /\ pc = [r \in Requests |-> "idle"]
    /\ todo = [r \in Requests |-> {}]
    /\ listed = [r \in Requests |-> {}]
    /\ num = [r \in Requests |-> 0]
    /\ subj = [r \in Requests |-> NoSubject]
    /\ art = [r \in Requests |-> NoArt]
    /\ taken = [n \in Numbers |-> {}]
    /\ cascaded = FALSE

-----------------------------------------------------------------------------
(* ArtifactStore: save (mkdir and the timestamped copy, then latest.json)  *)
(* and delete.  Neither looks at the database.                             *)

SaveStart(r, s, c) ==
    /\ pc[r] = "idle"
    /\ working' = [working EXCEPT ![s] = IF @ = NoDir THEN Partial ELSE @]
    /\ subj' = [subj EXCEPT ![r] = s]
    /\ art' = [art EXCEPT ![r] = c]
    /\ Goto(r, "save")
    /\ UNCHANGED <<project, created, rows, trees, finalized, todo, listed,
                   num, taken, cascaded>>

(* write_text raises when the directory has been removed meanwhile. *)
SaveWrite(r) ==
    /\ pc[r] = "save"
    /\ working' = [working EXCEPT ![subj[r]] = IF @ = NoDir THEN NoDir
                                                            ELSE art[r]]
    /\ Finish(r)
    /\ UNCHANGED <<project, created, rows, trees, finalized, taken, cascaded>>

(* Other requests are creating or writing files in working/<s>. *)
Writing(r, s) ==
    \E q \in Requests \ {r} : pc[q] \in {"save", "restoring"} /\ subj[q] = s

(* The *.json files are unlinked one by one ... *)
DeleteArtifact(r, s) ==
    /\ pc[r] = "idle"
    /\ working[s] # NoDir
    /\ working' = [working EXCEPT ![s] = Partial]
    /\ subj' = [subj EXCEPT ![r] = s]
    /\ Goto(r, "unlink")
    /\ UNCHANGED <<project, created, rows, trees, finalized, todo, listed,
                   num, art, taken, cascaded>>

(* ... and rmdir fails, unnoticed, on a directory that has a file again. *)
DeleteArtifactDir(r) ==
    /\ pc[r] = "unlink"
    /\ \/ /\ working[subj[r]] = Partial
          /\ working' = [working EXCEPT ![subj[r]] = NoDir]
       \/ /\ working[subj[r]] # Partial \/ Writing(r, subj[r])
          /\ UNCHANGED working
    /\ Finish(r)
    /\ UNCHANGED <<project, created, rows, trees, finalized, taken, cascaded>>

-----------------------------------------------------------------------------
(* finalize_project *)

InFlight == {q \in Requests : pc[q] \in {"number", "copy", "copying"}}

(* The project row, then the working listing; an empty one is refused. *)
FinalizeList(r) ==
    /\ pc[r] = "idle"
    /\ project # 0
    /\ SubjectDirs(working) # {}
    /\ MaxRow + Cardinality(InFlight) < MaxNumber     \* bound
    /\ listed' = [listed EXCEPT ![r] = SubjectDirs(working)]
    /\ Goto(r, "number")
    /\ UNCHANGED <<project, created, rows, working, trees, finalized, todo,
                   num, subj, art, taken, cascaded>>

(* MAX + 1, then mkdir(parents=True, exist_ok=True). *)
FinalizeNumber(r) ==
    /\ pc[r] = "number"
    /\ MaxRow + 1 \in Numbers                         \* bound
    /\ num' = [num EXCEPT ![r] = MaxRow + 1]
    /\ trees' = trees \cup {MaxRow + 1}
    /\ todo' = [todo EXCEPT ![r] = listed[r]]
    /\ Goto(r, "copy")
    /\ UNCHANGED <<project, created, rows, working, finalized, listed, subj,
                   art, taken, cascaded>>

(* Mutant of CopyBegin: dirs_exist_ok=True. *)
CopyBeginOver(r) ==
    /\ pc[r] = "copy"
    /\ \E s \in Subjects :
          /\ IsNext(s, todo[r])
          /\ working[s] # NoDir
          /\ finalized' = [finalized EXCEPT ![num[r]][s] = Partial]
          /\ subj' = [subj EXCEPT ![r] = s]
          /\ art' = [art EXCEPT ![r] = working[s]]
    /\ Goto(r, "copying")
    /\ UNCHANGED <<project, created, rows, working, trees, todo, listed, num,
                   taken, cascaded>>

(* copytree lists the source, then makes the destination directory: it     *)
(* raises when the source is gone or the destination is already there.     *)
CopyBegin(r) ==
    /\ pc[r] = "copy"
    /\ \E s \in Subjects :
          /\ IsNext(s, todo[r])
          /\ IF working[s] = NoDir \/ finalized[num[r]][s] # NoDir
             THEN /\ Finish(r)
                  /\ UNCHANGED finalized
             ELSE /\ finalized' = [finalized EXCEPT ![num[r]][s] = Partial]
                  /\ subj' = [subj EXCEPT ![r] = s]
                  /\ art' = [art EXCEPT ![r] = working[s]]
                  /\ Goto(r, "copying")
                  /\ UNCHANGED <<todo, listed, num>>
    /\ UNCHANGED <<project, created, rows, working, trees, taken, cascaded>>

(* The listed files are copied as they are now.  A latest.json that was    *)
(* not yet listed, or that is just being written, comes out incomplete; a  *)
(* vanished source is an error.                                            *)
CopyEnd(r) ==
    /\ pc[r] = "copying"
    /\ IF working[subj[r]] = NoDir
       THEN /\ Finish(r)
            /\ UNCHANGED finalized
       ELSE /\ \E c \in {working[subj[r]], Partial} :
                  /\ c = working[subj[r]] \/ art[r] = Partial \/ Writing(r, subj[r])
                  /\ finalized' = [finalized EXCEPT ![num[r]][subj[r]] = c]
            /\ todo' = [todo EXCEPT ![r] = @ \ {subj[r]}]
            /\ subj' = [subj EXCEPT ![r] = NoSubject]
            /\ art' = [art EXCEPT ![r] = NoArt]
            /\ Goto(r, "copy")
            /\ UNCHANGED <<listed, num>>
    /\ UNCHANGED <<project, created, rows, working, trees, taken, cascaded>>

(* Mutant of FinalizeCommit: the row is inserted before the copies are done. *)
FinalizeCommitFirst(r) ==
    /\ pc[r] = "copy"
    /\ project # 0 /\ num[r] \notin rows
    /\ rows' = rows \cup {num[r]}
    /\ taken' = [taken EXCEPT ![num[r]] = listed[r]]
    /\ UNCHANGED <<project, created, working, trees, finalized, locals, cascaded>>

(* INSERT and commit: UNIQUE(project_id, finalization_number) and the      *)
(* foreign key to projects reject the row, and the request fails.          *)
FinalizeCommit(r) ==
    /\ pc[r] = "copy"
    /\ todo[r] = {}
    /\ IF project = 0 \/ num[r] \in rows
       THEN UNCHANGED <<rows, taken>>
       ELSE /\ rows' = rows \cup {num[r]}
            /\ taken' = [taken EXCEPT ![num[r]] = listed[r]]
    /\ Finish(r)
    /\ UNCHANGED <<project, created, working, trees, finalized, cascaded>>

-----------------------------------------------------------------------------
(* reload_latest_finalization *)

ReloadStart(r) ==
    /\ pc[r] = "idle"
    /\ project # 0
    /\ rows # {}
    /\ MaxRow \in trees
    /\ num' = [num EXCEPT ![r] = MaxRow]
    /\ todo' = [todo EXCEPT ![r] = SubjectDirs(working)]
    /\ Goto(r, "clear")
    /\ UNCHANGED <<project, created, rows, working, trees, finalized, listed,
                   subj, art, taken, cascaded>>

(* rmtree of one subject, in directory order; it raises on a missing one. *)
ReloadClear(r) ==
    /\ pc[r] = "clear"
    /\ \E s \in todo[r] :
          IF working[s] = NoDir
          THEN /\ Finish(r)
               /\ UNCHANGED working
          ELSE /\ working' = [working EXCEPT ![s] = NoDir]
               /\ todo' = [todo EXCEPT ![r] = @ \ {s}]
               /\ UNCHANGED <<pc, listed, num, subj, art>>
    /\ UNCHANGED <<project, created, rows, trees, finalized, taken, cascaded>>

ReloadList(r) ==
    /\ pc[r] = "clear"
    /\ todo[r] = {}
    /\ todo' = [todo EXCEPT ![r] = SubjectDirs(finalized[num[r]])]
    /\ Goto(r, "restore")
    /\ UNCHANGED <<project, created, rows, working, trees, finalized, listed,
                   num, subj, art, taken, cascaded>>

RestoreBegin(r) ==
    /\ pc[r] = "restore"
    /\ \E s \in Subjects :
          /\ IsNext(s, todo[r])
          /\ IF working[s] # NoDir
             THEN /\ Finish(r)
                  /\ UNCHANGED working
             ELSE /\ working' = [working EXCEPT ![s] = Partial]
                  /\ subj' = [subj EXCEPT ![r] = s]
                  /\ Goto(r, "restoring")
                  /\ UNCHANGED <<todo, listed, num, art>>
    /\ UNCHANGED <<project, created, rows, trees, finalized, taken, cascaded>>

RestoreEnd(r) ==
    /\ pc[r] = "restoring"
    /\ IF working[subj[r]] = NoDir
       THEN /\ Finish(r)
            /\ UNCHANGED working
       ELSE /\ working' = [working EXCEPT ![subj[r]] =
                                         finalized[num[r]][subj[r]]]
            /\ todo' = [todo EXCEPT ![r] = @ \ {subj[r]}]
            /\ subj' = [subj EXCEPT ![r] = NoSubject]
            /\ Goto(r, "restore")
            /\ UNCHANGED <<listed, num, art>>
    /\ UNCHANGED <<project, created, rows, trees, finalized, taken, cascaded>>

(* The UPDATE of projects only stamps working_state_modified_at. *)
ReloadDone(r) ==
    /\ pc[r] = "restore"
    /\ todo[r] = {}
    /\ Finish(r)
    /\ UNCHANGED <<project, created, rows, working, trees, finalized, taken,
                   cascaded>>

-----------------------------------------------------------------------------
(* projects_new and projects_delete.  The id is a slug of the number, so a *)
(* project created again under its old number has the id, and with it the  *)
(* directories, of the deleted one.  The count of finalizations is read on *)
(* one connection and the DELETE runs on the next.                         *)

CreateProject(r) ==
    /\ pc[r] = "idle"
    /\ project = 0
    /\ created < MaxProjects                          \* bound
    /\ project' = created + 1
    /\ created' = created + 1
    /\ UNCHANGED <<rows, working, trees, finalized, locals, taken, cascaded>>

(* Mutant of DeleteProjectCheck: the finalizations are not counted. *)
DeleteProjectUnchecked(r) ==
    /\ pc[r] = "idle"
    /\ project # 0
    /\ Goto(r, "delete")
    /\ UNCHANGED <<project, created, rows, working, trees, finalized, todo,
                   listed, num, subj, art, taken, cascaded>>

DeleteProjectCheck(r) ==
    /\ pc[r] = "idle"
    /\ project # 0
    /\ rows = {}
    /\ Goto(r, "delete")
    /\ UNCHANGED <<project, created, rows, working, trees, finalized, todo,
                   listed, num, subj, art, taken, cascaded>>

(* DELETE FROM projects; finalizations rows go with it (ON DELETE CASCADE). *)
DeleteProjectCommit(r) ==
    /\ pc[r] = "delete"
    /\ project' = 0
    /\ rows' = {}
    /\ cascaded' = IF rows # {} THEN TRUE ELSE cascaded
    /\ Finish(r)
    /\ UNCHANGED <<created, working, trees, finalized, taken>>

-----------------------------------------------------------------------------
(* The request dies: the process is killed, the disk is full, SQLite stays *)
(* locked.  What it wrote stays; a write_text cut short leaves latest.json *)
(* truncated, an rmtree cut short a directory without it.                  *)
Crash(r) ==
    /\ Faults
    /\ pc[r] # "idle"
    /\ Finish(r)
    /\ \/ UNCHANGED working
       \/ /\ pc[r] = "save"
          /\ working[subj[r]] # NoDir
          /\ working' = [working EXCEPT ![subj[r]] = Partial]
       \/ /\ pc[r] = "clear"
          /\ \E s \in todo[r] :
                /\ working[s] # NoDir
                /\ working' = [working EXCEPT ![s] = Partial]
    /\ UNCHANGED <<project, created, rows, trees, finalized, taken, cascaded>>

Step(r) ==
    \/ SaveWrite(r)
    \/ DeleteArtifactDir(r)
    \/ FinalizeNumber(r)
    \/ CopyBegin(r)
    \/ CopyEnd(r)
    \/ FinalizeCommit(r)
    \/ ReloadClear(r)
    \/ ReloadList(r)
    \/ RestoreBegin(r)
    \/ RestoreEnd(r)
    \/ ReloadDone(r)
    \/ DeleteProjectCommit(r)

Arrive(r) ==
    \/ \E s \in Subjects, c \in Contents : SaveStart(r, s, c)
    \/ \E s \in Subjects : DeleteArtifact(r, s)
    \/ FinalizeList(r)
    \/ ReloadStart(r)
    \/ CreateProject(r)
    \/ DeleteProjectCheck(r)

Next == \E r \in Requests : Step(r) \/ Arrive(r) \/ Crash(r)

Spec == Init /\ [][Next]_vars

(* A request that has started is run to its end by its thread; no request  *)
(* ever has to arrive.                                                     *)
FairSpec == Spec /\ \A r \in Requests : WF_vars(Step(r))

-----------------------------------------------------------------------------
DatabaseTypeOK ==
    /\ project \in 0 .. MaxProjects \cup {1}
    /\ created \in 0 .. MaxProjects \cup {1}
    /\ rows \subseteq Numbers
    /\ taken \in [Numbers -> SUBSET Subjects]
    /\ cascaded \in BOOLEAN

DiskTypeOK ==
    /\ working \in [Subjects -> Dirs]
    /\ trees \subseteq Numbers
    /\ finalized \in [Numbers -> [Subjects -> Dirs]]

RequestTypeOK ==
    /\ pc \in [Requests -> Phases]
    /\ todo \in [Requests -> SUBSET Subjects]
    /\ listed \in [Requests -> SUBSET Subjects]
    /\ num \in [Requests -> Numbers \cup {0}]
    /\ subj \in [Requests -> Subjects \cup {NoSubject}]
    /\ art \in [Requests -> Contents \cup {NoArt}]

TypeOK == DatabaseTypeOK /\ DiskTypeOK /\ RequestTypeOK
-----------------------------------------------------------------------------
(* What holds whatever runs concurrently and wherever requests die.        *)

(* Finalization numbers are 1, 2, 3, ... without a gap (ADR 0002: "a       *)
(* per-project monotonic integer"), however many finalizes race for one,   *)
(* as long as no project was deleted together with rows.                   *)
Numbering == ~cascaded => rows = 1 .. Cardinality(rows)

(* A row never precedes its files: every subject that the finalize listed  *)
(* has its directory, and no request is still filling it.                  *)
CommittedIsCopied ==
    \A n \in rows :
        /\ n \in trees
        /\ taken[n] # {}
        /\ \A s \in taken[n] :
              /\ finalized[n][s] # NoDir
              /\ \A r \in Requests :
                    ~(pc[r] = "copying" /\ num[r] = n /\ subj[r] = s)

(* A subject that a committed finalize copied is never written again: not  *)
(* by a second finalize that took the same number, nor by one of a later   *)
(* project with the same id.                                               *)
CommittedCopiesStable ==
    [][\A n \in rows : \A s \in taken[n] :
            n \in rows' => finalized'[n][s] = finalized[n][s]]_vars

(* The inductive invariant behind these three.  Made(r) is what request r  *)
(* has created under finalized/<num[r]>.  Directories are created, never   *)
(* adopted (copytree refuses an existing one), so what one request made,   *)
(* what another made under the same number and what a committed finalize   *)
(* took do not meet; and a number in use is never beyond the next free one.*)
Copying(r) == pc[r] \in {"copy", "copying"}

Made(r) == (listed[r] \ todo[r]) \cup (IF pc[r] = "copying" THEN {subj[r]}
                                                          ELSE {})

NumbersInUse ==
    ~cascaded =>
        \E k \in 0 .. MaxNumber :
            /\ rows = 1 .. k
            /\ \A r \in Requests : Copying(r) => num[r] <= k + 1

RequestShape ==
    \A r \in Requests :
        /\ pc[r] \in {"number", "copy", "copying"} => listed[r] # {}
        /\ Copying(r) => num[r] \in trees \cap Numbers /\ todo[r] \subseteq listed[r]
        /\ pc[r] = "copying" => subj[r] \in todo[r]
        /\ pc[r] \in {"clear", "restore", "restoring"} => num[r] \in Numbers
        /\ pc[r] \in {"save", "unlink", "restoring"} => subj[r] \in Subjects

MadeExists ==
    \A r \in Requests :
        Copying(r) => \A s \in Made(r) : finalized[num[r]][s] # NoDir

MadeApart ==
    \A r, q \in Requests :
        r # q /\ Copying(r) /\ Copying(q) /\ num[r] = num[q]
            => Made(r) \cap Made(q) = {}

MadeNotTaken ==
    \A r \in Requests :
        Copying(r) /\ num[r] \in rows => Made(r) \cap taken[num[r]] = {}

TakenExists ==
    \A n \in rows :
        /\ n \in trees
        /\ taken[n] # {}
        /\ \A s \in taken[n] : finalized[n][s] # NoDir

IInv == /\ TypeOK
        /\ NumbersInUse
        /\ RequestShape
        /\ MadeExists
        /\ MadeApart
        /\ MadeNotTaken
        /\ TakenExists

-----------------------------------------------------------------------------
(* What holds with one request at a time, crashes included. *)

(* The whole tree of a committed finalization is immutable: "the           *)
(* application never overwrites a finalization once made" (ADR 0002:43).   *)
SnapshotImmutable ==
    [][\A n \in rows : n \in rows' => finalized'[n] = finalized[n]]_vars

(* "Once inserted, rows are never updated or deleted by the application"   *)
(* (ADR 0002:57).                                                          *)
RowsNeverDeleted == [][rows \subseteq rows']_vars

(* Reload is "restore from snapshot", not "merge into snapshot": when its  *)
(* last copy is done, working is the snapshot, and nothing beside it.      *)
ReloadIsRestore ==
    \A r \in Requests :
        pc[r] = "restore" /\ todo[r] = {} => working = finalized[num[r]]

(* The inductive invariant behind these three: what a reload has behind it *)
(* is cleared, and later is the snapshot's; a finalize copies under a      *)
(* number no row has; a project is deleted without rows.                   *)
OneAtATime == \A r, q \in Requests : r = q

SerialInv ==
    /\ ~cascaded
    /\ \A r \in Requests :
          /\ pc[r] = "delete" => rows = {}
          /\ Copying(r) => num[r] \notin rows
          /\ pc[r] = "clear" =>
                \A s \in Subjects \ todo[r] : working[s] = NoDir
          /\ pc[r] \in {"restore", "restoring"} =>
                \A s \in Subjects \ todo[r] : working[s] = finalized[num[r]][s]

-----------------------------------------------------------------------------
(* What holds with one request at a time and no crash. *)

(* The files under finalized/<n> are "a frozen copy of the working state   *)
(* at the time of finalization" (ADR 0002:67) when its row is inserted.    *)
SnapshotIsWorking ==
    \A r \in Requests :
        pc[r] = "copy" /\ todo[r] = {} => finalized[num[r]] = working

(* A finalize that got past its checks adds a row: with nobody beside it,  *)
(* no copytree and no constraint of the table stops it half way.           *)
FinalizeCommits ==
    \A r \in Requests, k \in 0 .. MaxNumber - 1 :
        (pc[r] = "number" /\ Cardinality(rows) = k)
            ~> (Cardinality(rows) = k + 1)

(* A reload that started clearing makes working the snapshot it chose. *)
ReloadRestores ==
    \A r \in Requests, n \in Numbers :
        (pc[r] = "clear" /\ num[r] = n) ~> (working = finalized[n])

(* The inductive invariant behind ImplementsLedger: which directories are  *)
(* there, and how full, at each point of the one request.  At rest all of  *)
(* working is complete and nothing lies beyond the last row.               *)
SnapshotsAreComplete ==
    \A n \in rows : /\ \A s \in Subjects : finalized[n][s] # Partial
                    /\ \E s \in Subjects : finalized[n][s] # NoDir

NothingBeyond ==
    \A n \in Numbers \ rows :
        \/ \E r \in Requests : Copying(r) /\ num[r] = n
        \/ \A s \in Subjects : finalized[n][s] = NoDir

WorkingIsWhole ==
    /\ \A r \in Requests : pc[r] = "save" => art[r] \in Contents
    /\ \A s \in Subjects :
          working[s] = Partial =>
              \E r \in Requests : pc[r] \in {"save", "unlink", "restoring"} /\ subj[r] = s

FinalizeProgress ==
    \A r \in Requests :
        /\ pc[r] \in {"number", "copy", "copying"} =>
              project # 0 /\ listed[r] = SubjectDirs(working)
        /\ pc[r] = "copying" => art[r] = working[subj[r]]
        /\ Copying(r) =>
              \A s \in Subjects :
                  finalized[num[r]][s] =
                      IF s \notin todo[r] THEN working[s]
                      ELSE IF pc[r] = "copying" /\ s = subj[r] THEN Partial ELSE NoDir

ReloadProgress ==
    \A r \in Requests :
        /\ pc[r] \in {"clear", "restore", "restoring"} => num[r] \in rows /\ num[r] = MaxRow
        /\ pc[r] = "clear" => \A s \in todo[r] : working[s] # NoDir
        /\ pc[r] = "restoring" => subj[r] \in todo[r]
        /\ pc[r] \in {"restore", "restoring"} =>
              \A s \in todo[r] :
                  working[s] = IF pc[r] = "restoring" /\ s = subj[r] THEN Partial ELSE NoDir

ProjectStays == \A r \in Requests : pc[r] \in {"clear", "restore", "restoring", "delete"} => project # 0

QuietInv == /\ SnapshotsAreComplete
            /\ NothingBeyond
            /\ WorkingIsWhole
            /\ FinalizeProgress
            /\ ReloadProgress
            /\ ProjectStays

-----------------------------------------------------------------------------
(* The promise to the consultant (ADR 0002): finalize and reload are one   *)
(* step each, on an append-only ledger of snapshots.  A reload takes       *)
(* effect when it starts clearing, and a directory without a complete      *)
(* latest.json counts as absent.                                           *)

Visible(dir) == IF dir = Partial THEN NoDir ELSE dir

Reloading == {r \in Requests : pc[r] \in {"clear", "restore", "restoring"}}

AbstractWorking ==
    IF Reloading # {}
    THEN LET r == CHOOSE q \in Reloading : TRUE
         IN  [s \in Subjects |-> Visible(finalized[num[r]][s])]
    ELSE [s \in Subjects |-> Visible(working[s])]

Ledger == INSTANCE SnapshotLedger
              WITH Absent  <- NoDir,
                   open    <- project # 0,
                   working <- AbstractWorking,
                   ledger  <- [n \in 1 .. Cardinality(rows) |->
                                 [s \in Subjects |-> Visible(finalized[n][s])]]

ImplementsLedger == Ledger!Spec
=============================================================================
