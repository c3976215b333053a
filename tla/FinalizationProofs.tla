------------------------- MODULE FinalizationProofs -------------------------
(***************************************************************************)
(* Theorems about Finalization, for every set of requests, subjects and    *)
(* contents and every bound: for any requests, then for requests that come *)
(* one at a time, any of which may die, and then for requests that also    *)
(* run to their ends: these implement SnapshotLedger, finalize and reload  *)
(* one step each on an append-only ledger.                                 *)
(***************************************************************************)
EXTENDS Finalization, FiniteSetTheorems, SequenceTheorems, TLAPS

-----------------------------------------------------------------------------
(* Types, together with the shape of a request in each phase: a directory  *)
(* is copied back from finalized[num][subj], which is a Dirs value only    *)
(* when num and subj are set.                                              *)

LEMMA ShapeInit == Init => TypeOK /\ RequestShape
<1>. SUFFICES ASSUME Init
              PROVE  TypeOK /\ RequestShape
    OBVIOUS
<1>. USE DEF Init, Dirs, Phases, NoArt, NoSubject
<1>1. DatabaseTypeOK
    BY NumberAssumption DEF DatabaseTypeOK
<1>2. DiskTypeOK
    BY DEF DiskTypeOK
<1>3. RequestTypeOK
    BY DEF RequestTypeOK
<1>4. RequestShape
    BY DEF RequestShape, Copying
<1>. QED
    BY <1>1, <1>2, <1>3, <1>4 DEF TypeOK

LEMMA ShapeArrive ==
    ASSUME TypeOK, RequestShape, NEW r \in Requests, Arrive(r)
    PROVE  TypeOK' /\ RequestShape'
<1>. USE DEF TypeOK, DatabaseTypeOK, DiskTypeOK, RequestTypeOK, RequestShape,
             Copying, Dirs, Phases, Goto, locals, SubjectDirs
<1>1. CASE \E s \in Subjects, c \in Contents : SaveStart(r, s, c)
    <2>. USE <1>1 DEF SaveStart
    <2>1. DatabaseTypeOK'
        BY DEF DatabaseTypeOK
    <2>2. DiskTypeOK'
        BY DEF DiskTypeOK
    <2>3. RequestTypeOK'
        BY DEF RequestTypeOK
    <2>4. RequestShape'
        BY DEF RequestShape
    <2>. QED
        BY <2>1, <2>2, <2>3, <2>4 DEF TypeOK
<1>2. CASE \E s \in Subjects : DeleteArtifact(r, s)
    <2>. USE <1>2 DEF DeleteArtifact
    <2>1. DatabaseTypeOK'
        BY DEF DatabaseTypeOK
    <2>2. DiskTypeOK'
        BY DEF DiskTypeOK
    <2>3. RequestTypeOK'
        BY DEF RequestTypeOK
    <2>4. RequestShape'
        BY DEF RequestShape
    <2>. QED
        BY <2>1, <2>2, <2>3, <2>4 DEF TypeOK
<1>3. CASE FinalizeList(r)
    <2>. USE <1>3 DEF FinalizeList
    <2>1. DatabaseTypeOK'
        BY DEF DatabaseTypeOK
    <2>2. DiskTypeOK'
        BY DEF DiskTypeOK
    <2>3. RequestTypeOK'
        BY DEF RequestTypeOK
    <2>4. RequestShape'
        BY DEF RequestShape
    <2>. QED
        BY <2>1, <2>2, <2>3, <2>4 DEF TypeOK
<1>4. CASE ReloadStart(r)
    <2>. USE <1>4 DEF ReloadStart
    <2>1. DatabaseTypeOK'
        BY DEF DatabaseTypeOK
    <2>2. DiskTypeOK'
        BY DEF DiskTypeOK
    <2>3. RequestTypeOK'
        BY DEF RequestTypeOK
    <2>4. RequestShape'
        BY DEF RequestShape
    <2>. QED
        BY <2>1, <2>2, <2>3, <2>4 DEF TypeOK
<1>5. CASE CreateProject(r)
    <2>. USE <1>5 DEF CreateProject
    <2>1. DatabaseTypeOK'
        BY NumberAssumption DEF DatabaseTypeOK
    <2>2. DiskTypeOK'
        BY DEF DiskTypeOK
    <2>3. RequestTypeOK'
        BY DEF RequestTypeOK
    <2>4. RequestShape'
        BY DEF RequestShape
    <2>. QED
        BY <2>1, <2>2, <2>3, <2>4 DEF TypeOK
<1>6. CASE DeleteProjectCheck(r)
    <2>. USE <1>6 DEF DeleteProjectCheck
    <2>1. DatabaseTypeOK'
        BY DEF DatabaseTypeOK
    <2>2. DiskTypeOK'
        BY DEF DiskTypeOK
    <2>3. RequestTypeOK'
        BY DEF RequestTypeOK
    <2>4. RequestShape'
        BY DEF RequestShape
    <2>. QED
        BY <2>1, <2>2, <2>3, <2>4 DEF TypeOK
<1>. QED
    BY <1>1, <1>2, <1>3, <1>4, <1>5, <1>6 DEF Arrive

LEMMA FinishTypeOK ==
    ASSUME RequestTypeOK, NEW r \in Requests, Finish(r)
    PROVE  RequestTypeOK'
BY DEF RequestTypeOK, Finish, Phases, NoArt, NoSubject

LEMMA ShapeStep ==
    ASSUME TypeOK, RequestShape, NEW r \in Requests, Step(r)
    PROVE  TypeOK' /\ RequestShape'
<1>. USE DEF TypeOK, DatabaseTypeOK, DiskTypeOK, RequestTypeOK, RequestShape,
             Copying, Dirs, Phases, Goto, Finish, SubjectDirs, NoArt,
             NoSubject
<1>1. CASE SaveWrite(r)
    <2>. USE <1>1 DEF SaveWrite
    <2>1. DatabaseTypeOK'
        BY DEF DatabaseTypeOK
    <2>2. DiskTypeOK'
        BY DEF DiskTypeOK
    <2>3. RequestTypeOK'
        BY DEF RequestTypeOK
    <2>4. RequestShape'
        BY DEF RequestShape
    <2>. QED
        BY <2>1, <2>2, <2>3, <2>4 DEF TypeOK
<1>2. CASE FinalizeNumber(r)
    <2>. USE <1>2 DEF FinalizeNumber
    <2>1. DatabaseTypeOK'
        BY DEF DatabaseTypeOK
    <2>2. DiskTypeOK'
        BY DEF DiskTypeOK
    <2>3. RequestTypeOK'
        BY DEF RequestTypeOK
    <2>4. RequestShape'
        BY DEF RequestShape
    <2>. QED
        BY <2>1, <2>2, <2>3, <2>4 DEF TypeOK
<1>3. CASE CopyBegin(r)
    <2>. USE <1>3 DEF CopyBegin, IsNext
    <2>1. DatabaseTypeOK'
        BY DEF DatabaseTypeOK
    <2>2. DiskTypeOK'
        <3>1. finalized' \in [Numbers -> [Subjects -> Dirs]]
            BY ONLY <1>3, DiskTypeOK DEF CopyBegin, DiskTypeOK, Dirs
        <3>. QED
            BY <3>1 DEF DiskTypeOK
    <2>3. RequestTypeOK'
        <3>1. CASE Finish(r)
            BY <3>1, FinishTypeOK
        <3>2. CASE ~Finish(r)
            <4>1. PICK s \in Subjects :
                     /\ working[s] # NoDir
                     /\ subj' = [subj EXCEPT ![r] = s]
                     /\ art' = [art EXCEPT ![r] = working[s]]
                     /\ pc' = [pc EXCEPT ![r] = "copying"]
                     /\ UNCHANGED <<todo, listed, num>>
                BY ONLY <3>2, <1>3 DEF CopyBegin, Goto
            <4>2. working[s] \in Contents \cup {NoArt}
                BY ONLY <4>1, DiskTypeOK DEF DiskTypeOK, Dirs, NoArt
            <4>. QED
                BY ONLY <4>1, <4>2, RequestTypeOK DEF RequestTypeOK, Phases
        <3>. QED
            BY <3>1, <3>2
    <2>4. RequestShape'
        BY DEF RequestShape
    <2>. QED
        BY <2>1, <2>2, <2>3, <2>4 DEF TypeOK
<1>4. CASE CopyEnd(r)
    <2>. USE <1>4 DEF CopyEnd
    <2>1. DatabaseTypeOK'
        BY DEF DatabaseTypeOK
    <2>2. DiskTypeOK'
        <3>1. subj[r] \in Subjects
            BY DEF RequestShape
        <3>2. \/ finalized' = finalized
              \/ \E c \in {working[subj[r]], Partial} :
                    finalized' = [finalized EXCEPT ![num[r]][subj[r]] = c]
            BY ONLY <1>4 DEF CopyEnd
        <3>3. {working[subj[r]], Partial} \subseteq Dirs
            BY ONLY <3>1, DiskTypeOK DEF DiskTypeOK, Dirs
        <3>4. finalized' \in [Numbers -> [Subjects -> Dirs]]
            BY ONLY <3>2, <3>3, DiskTypeOK DEF DiskTypeOK
        <3>. QED
            BY <3>4 DEF DiskTypeOK
    <2>3. RequestTypeOK'
        <3>1. CASE Finish(r)
            BY <3>1, FinishTypeOK
        <3>2. CASE ~Finish(r)
            BY ONLY <3>2, <1>4, RequestTypeOK
               DEF CopyEnd, RequestTypeOK, Phases, Goto, NoSubject, NoArt
        <3>. QED
            BY <3>1, <3>2
    <2>4. RequestShape'
        BY DEF RequestShape
    <2>. QED
        BY <2>1, <2>2, <2>3, <2>4 DEF TypeOK
<1>5. CASE FinalizeCommit(r)
    <2>. USE <1>5 DEF FinalizeCommit
    <2>1. DatabaseTypeOK'
        BY DEF DatabaseTypeOK
    <2>2. DiskTypeOK'
        BY DEF DiskTypeOK
    <2>3. RequestTypeOK'
        BY DEF RequestTypeOK
    <2>4. RequestShape'
        BY DEF RequestShape
    <2>. QED
        BY <2>1, <2>2, <2>3, <2>4 DEF TypeOK
<1>6. CASE ReloadClear(r)
    <2>. USE <1>6 DEF ReloadClear
    <2>1. DatabaseTypeOK'
        BY DEF DatabaseTypeOK
    <2>2. DiskTypeOK'
        BY DEF DiskTypeOK
    <2>3. RequestTypeOK'
        <3>1. CASE Finish(r)
            BY <3>1, FinishTypeOK
        <3>2. CASE ~Finish(r)
            BY ONLY <3>2, <1>6, RequestTypeOK
               DEF ReloadClear, RequestTypeOK, Phases, Goto, NoSubject, NoArt
        <3>. QED
            BY <3>1, <3>2
    <2>4. RequestShape'
        BY DEF RequestShape
    <2>. QED
        BY <2>1, <2>2, <2>3, <2>4 DEF TypeOK
<1>7. CASE ReloadList(r)
    <2>. USE <1>7 DEF ReloadList
    <2>1. DatabaseTypeOK'
        BY DEF DatabaseTypeOK
    <2>2. DiskTypeOK'
        BY DEF DiskTypeOK
    <2>3. RequestTypeOK'
        BY DEF RequestTypeOK
    <2>4. RequestShape'
        BY DEF RequestShape
    <2>. QED
        BY <2>1, <2>2, <2>3, <2>4 DEF TypeOK
<1>8. CASE RestoreBegin(r)
    <2>. USE <1>8 DEF RestoreBegin, IsNext
    <2>1. DatabaseTypeOK'
        BY DEF DatabaseTypeOK
    <2>2. DiskTypeOK'
        BY DEF DiskTypeOK
    <2>3. RequestTypeOK'
        <3>1. CASE Finish(r)
            BY <3>1, FinishTypeOK
        <3>2. CASE ~Finish(r)
            BY ONLY <3>2, <1>8, RequestTypeOK
               DEF RestoreBegin, RequestTypeOK, Phases, Goto, NoSubject, NoArt, IsNext
        <3>. QED
            BY <3>1, <3>2
    <2>4. RequestShape'
        BY DEF RequestShape
    <2>. QED
        BY <2>1, <2>2, <2>3, <2>4 DEF TypeOK
<1>9. CASE RestoreEnd(r)
    <2>. USE <1>9 DEF RestoreEnd
    <2>1. DatabaseTypeOK'
        BY DEF DatabaseTypeOK
    <2>2. DiskTypeOK'
        BY DEF DiskTypeOK
    <2>3. RequestTypeOK'
        <3>1. CASE Finish(r)
            BY <3>1, FinishTypeOK
        <3>2. CASE ~Finish(r)
            BY ONLY <3>2, <1>9, RequestTypeOK
               DEF RestoreEnd, RequestTypeOK, Phases, Goto, NoSubject, NoArt
        <3>. QED
            BY <3>1, <3>2
    <2>4. RequestShape'
        BY DEF RequestShape
    <2>. QED
        BY <2>1, <2>2, <2>3, <2>4 DEF TypeOK
<1>10. CASE ReloadDone(r)
    <2>. USE <1>10 DEF ReloadDone
    <2>1. DatabaseTypeOK'
        BY DEF DatabaseTypeOK
    <2>2. DiskTypeOK'
        BY DEF DiskTypeOK
    <2>3. RequestTypeOK'
        BY DEF RequestTypeOK
    <2>4. RequestShape'
        BY DEF RequestShape
    <2>. QED
        BY <2>1, <2>2, <2>3, <2>4 DEF TypeOK
<1>11. CASE DeleteProjectCommit(r)
    <2>. USE <1>11 DEF DeleteProjectCommit
    <2>1. DatabaseTypeOK'
        <3>1. cascaded' \in BOOLEAN
            <4>1. CASE rows = {}
                BY <4>1, Zenon DEF DatabaseTypeOK
            <4>2. CASE rows # {}
                BY <4>2, Zenon
            <4>. QED
                BY <4>1, <4>2
        <3>2. /\ project' \in 0 .. MaxProjects \cup {1}
              /\ created' \in 0 .. MaxProjects \cup {1}
              /\ rows' \subseteq Numbers
              /\ taken' \in [Numbers -> SUBSET Subjects]
            BY NumberAssumption DEF DatabaseTypeOK
        <3>. QED
            BY ONLY <3>1, <3>2 DEF DatabaseTypeOK
    <2>2. DiskTypeOK'
        BY DEF DiskTypeOK
    <2>3. RequestTypeOK'
        BY DEF RequestTypeOK
    <2>4. RequestShape'
        BY DEF RequestShape
    <2>. QED
        BY <2>1, <2>2, <2>3, <2>4 DEF TypeOK
<1>12. CASE DeleteArtifactDir(r)
    <2>. USE <1>12 DEF DeleteArtifactDir
    <2>1. DatabaseTypeOK'
        BY DEF DatabaseTypeOK
    <2>2. DiskTypeOK'
        BY DEF DiskTypeOK
    <2>3. RequestTypeOK'
        BY FinishTypeOK
    <2>4. RequestShape'
        BY DEF RequestShape
    <2>. QED
        BY <2>1, <2>2, <2>3, <2>4 DEF TypeOK
<1>. QED
    BY <1>1, <1>2, <1>3, <1>4, <1>5, <1>6, <1>7, <1>8, <1>9, <1>10, <1>11,
       <1>12 DEF Step

LEMMA ShapeNext ==
    TypeOK /\ RequestShape /\ [Next]_vars => TypeOK' /\ RequestShape'
<1>. SUFFICES ASSUME TypeOK, RequestShape, [Next]_vars
              PROVE  TypeOK' /\ RequestShape'
    OBVIOUS
<1>. USE DEF TypeOK, DatabaseTypeOK, DiskTypeOK, RequestTypeOK, RequestShape,
             Copying
<1>1. ASSUME NEW r \in Requests, Crash(r)
      PROVE  TypeOK' /\ RequestShape'
    <2>1. Finish(r) /\ UNCHANGED <<project, created, rows, trees, finalized,
                                   taken, cascaded>>
        BY <1>1 DEF Crash
    <2>2. \/ working' = working
          \/ \E s \in Subjects : working' = [working EXCEPT ![s] = Partial]
        BY <1>1 DEF Crash
    <2>3. working' \in [Subjects -> Dirs]
        BY ONLY <2>2, DiskTypeOK DEF DiskTypeOK, Dirs
    <2>4. RequestTypeOK'
        BY <2>1, FinishTypeOK
    <2>5. RequestShape'
        BY <2>1 DEF Finish
    <2>. QED
        BY <2>1, <2>3, <2>4, <2>5
<1>2. CASE UNCHANGED vars
    BY <1>2 DEF vars, locals
<1>. QED
    BY <1>1, <1>2, ShapeArrive, ShapeStep DEF Next

(* Type correctness of the component. *)
THEOREM TypeCorrect == Spec => []TypeOK
<1>1. TypeOK /\ RequestShape => TypeOK
    OBVIOUS
<1>. QED
    BY ShapeInit, ShapeNext, <1>1, PTL DEF Spec

-----------------------------------------------------------------------------
(* Ownership of the directories under finalized/. *)

Ownership == MadeExists /\ MadeApart /\ MadeNotTaken /\ TakenExists

(* A step that removes no directory, commits nothing and leaves every      *)
(* running finalize what it made, or ends it, keeps ownership.             *)
LEMMA OwnershipFrame ==
    ASSUME TypeOK, RequestShape, Ownership,
           rows' \subseteq rows, trees \subseteq trees', taken' = taken,
           \A n \in Numbers, s \in Subjects :
              finalized[n][s] # NoDir => finalized'[n][s] # NoDir,
           \A q \in Requests :
              Copying(q)' => /\ Copying(q)
                             /\ num'[q] = num[q]
                             /\ Made(q)' = Made(q)
    PROVE  Ownership'
<1>1. \A q \in Requests : Copying(q) => num[q] \in Numbers
                                        /\ Made(q) \subseteq Subjects
    BY DEF TypeOK, RequestTypeOK, RequestShape, Made, Copying
<1>2. MadeExists'
    BY <1>1 DEF Ownership, MadeExists
<1>3. MadeApart'
    BY DEF Ownership, MadeApart
<1>4. MadeNotTaken'
    BY DEF Ownership, MadeNotTaken
<1>5. TakenExists'
    BY DEF Ownership, TakenExists, TypeOK, DatabaseTypeOK
<1>. QED
    BY <1>2, <1>3, <1>4, <1>5 DEF Ownership

(* The same, when the step touches neither rows nor finalized/ and request *)
(* r either ends or was and is outside finalize_project.                   *)
LEMMA OwnershipElsewhere ==
    ASSUME TypeOK, RequestShape, Ownership, NEW r \in Requests,
           rows' \subseteq rows, trees' = trees, taken' = taken,
           finalized' = finalized,
           ~Copying(r)',
           \A q \in Requests \ {r} : /\ pc'[q] = pc[q]
                                     /\ todo'[q] = todo[q]
                                     /\ listed'[q] = listed[q]
                                     /\ num'[q] = num[q]
                                     /\ subj'[q] = subj[q]
    PROVE  Ownership'
<1>1. \A q \in Requests : Copying(q)' => /\ Copying(q)
                                         /\ num'[q] = num[q]
                                         /\ Made(q)' = Made(q)
    BY DEF Copying, Made
<1>. QED
    BY <1>1, OwnershipFrame

LEMMA OwnershipNumber ==
    ASSUME TypeOK, RequestShape, Ownership, NEW r \in Requests,
           FinalizeNumber(r)
    PROVE  Ownership'
<1>. USE DEF FinalizeNumber, Goto, TypeOK, RequestTypeOK
<1>1. Made(r)' = {}
    BY DEF Made
<1>2. \A q \in Requests \ {r} :
          /\ Copying(q)' <=> Copying(q)
          /\ num'[q] = num[q]
          /\ Made(q)' = Made(q)
    BY DEF Copying, Made
<1>3. MadeExists'
    BY <1>1, <1>2 DEF Ownership, MadeExists
<1>4. MadeApart'
    BY <1>1, <1>2 DEF Ownership, MadeApart
<1>5. MadeNotTaken'
    BY <1>1, <1>2 DEF Ownership, MadeNotTaken
<1>6. TakenExists'
    BY DEF Ownership, TakenExists
<1>. QED
    BY <1>3, <1>4, <1>5, <1>6 DEF Ownership

(* makedirs succeeded, so the directory was nobody's. *)
LEMMA OwnershipBegin ==
    ASSUME TypeOK, RequestShape, Ownership, NEW r \in Requests,
           CopyBegin(r), ~Finish(r)
    PROVE  Ownership'
<1>. USE DEF TypeOK, RequestTypeOK, DiskTypeOK, DatabaseTypeOK
<1>1. PICK s \in Subjects :
          /\ s \in todo[r]
          /\ working[s] # NoDir
          /\ finalized[num[r]][s] = NoDir
          /\ finalized' = [finalized EXCEPT ![num[r]][s] = Partial]
          /\ subj' = [subj EXCEPT ![r] = s]
          /\ pc' = [pc EXCEPT ![r] = "copying"]
          /\ UNCHANGED <<todo, listed, num, rows, trees, taken>>
    BY DEF CopyBegin, IsNext, Goto
<1>2. pc[r] = "copy" /\ num[r] \in Numbers
    BY DEF CopyBegin, RequestShape, Copying
<1>3. \A n \in Numbers, t \in Subjects :
          finalized'[n][t] = IF n = num[r] /\ t = s THEN Partial
                                                    ELSE finalized[n][t]
    BY <1>1, <1>2
<1>4. Made(r)' = Made(r) \cup {s}
    BY <1>1, <1>2 DEF Made
<1>5. \A q \in Requests \ {r} :
          /\ Copying(q)' <=> Copying(q)
          /\ num'[q] = num[q]
          /\ Made(q)' = Made(q)
    BY <1>1 DEF Copying, Made
<1>6. \A q \in Requests : Copying(q) => num[q] \in Numbers
                                        /\ Made(q) \subseteq Subjects
    BY DEF RequestShape, Made, Copying
<1>7. num'[r] = num[r] /\ Copying(r) /\ Copying(r)'
    BY <1>1, <1>2 DEF Copying
<1>8. MadeExists'
    <2>. SUFFICES ASSUME NEW q \in Requests, Copying(q)', NEW t \in Made(q)'
                  PROVE  finalized'[num'[q]][t] # NoDir
        BY DEF MadeExists
    <2>1. Copying(q) /\ num'[q] = num[q] /\ num[q] \in Numbers
        BY <1>5, <1>6, <1>7
    <2>2. CASE t \in Made(q)
        BY <2>1, <2>2, <1>3, <1>6, ContentsAssumption
           DEF Ownership, MadeExists
    <2>3. CASE q = r /\ t = s
        BY <2>1, <2>3, <1>3, ContentsAssumption
    <2>. QED
        BY <2>2, <2>3, <1>4, <1>5
<1>9. \A q \in Requests \ {r} :
          Copying(q) /\ num[q] = num[r] => s \notin Made(q)
    BY <1>1 DEF Ownership, MadeExists
<1>10. MadeApart'
    BY <1>4, <1>5, <1>7, <1>9 DEF Ownership, MadeApart
<1>11. num[r] \in rows => s \notin taken[num[r]]
    BY <1>1 DEF Ownership, TakenExists
<1>12. MadeNotTaken'
    BY <1>1, <1>4, <1>5, <1>7, <1>11 DEF Ownership, MadeNotTaken
<1>13. TakenExists'
    BY <1>1, <1>3, ContentsAssumption DEF Ownership, TakenExists
<1>. QED
    BY <1>8, <1>10, <1>12, <1>13 DEF Ownership

LEMMA OwnershipEnd ==
    ASSUME TypeOK, RequestShape, Ownership, NEW r \in Requests,
           CopyEnd(r), ~Finish(r)
    PROVE  Ownership'
<1>. USE DEF TypeOK, RequestTypeOK, DiskTypeOK
<1>1. /\ pc[r] = "copying"
      /\ working[subj[r]] # NoDir
      /\ \E c \in {working[subj[r]], Partial} :
            finalized' = [finalized EXCEPT ![num[r]][subj[r]] = c]
      /\ todo' = [todo EXCEPT ![r] = @ \ {subj[r]}]
      /\ subj' = [subj EXCEPT ![r] = NoSubject]
      /\ pc' = [pc EXCEPT ![r] = "copy"]
      /\ UNCHANGED <<listed, num, rows, trees, taken>>
    BY DEF CopyEnd, Goto
<1>2. subj[r] \in todo[r] /\ todo[r] \subseteq listed[r]
    BY <1>1 DEF RequestShape, Copying
<1>3. Made(r)' = Made(r)
    BY <1>1, <1>2 DEF Made
<1>4. \A q \in Requests \ {r} : Copying(q)' => /\ Copying(q)
                                               /\ num'[q] = num[q]
                                               /\ Made(q)' = Made(q)
    BY <1>1 DEF Copying, Made
<1>5. num'[r] = num[r] /\ Copying(r)
    BY <1>1 DEF Copying
<1>6. \A n \in Numbers, s \in Subjects :
          finalized[n][s] # NoDir => finalized'[n][s] # NoDir
    BY <1>1, ContentsAssumption
<1>. QED
    BY <1>1, <1>3, <1>4, <1>5, <1>6, OwnershipFrame

(* What the committing request made becomes what row n took. *)
LEMMA OwnershipCommit ==
    ASSUME TypeOK, RequestShape, Ownership, NEW r \in Requests,
           FinalizeCommit(r), rows' # rows
    PROVE  Ownership'
<1>. USE DEF TypeOK, RequestTypeOK, DatabaseTypeOK
<1>1. /\ pc[r] = "copy"
      /\ todo[r] = {}
      /\ rows' = rows \cup {num[r]}
      /\ taken' = [taken EXCEPT ![num[r]] = listed[r]]
      /\ UNCHANGED <<trees, finalized>>
    BY DEF FinalizeCommit
<1>2. /\ num[r] \in Numbers \cap trees
      /\ listed[r] # {}
      /\ Copying(r)
      /\ Made(r) = listed[r]
    BY <1>1 DEF RequestShape, Copying, Made
<1>3. ~Copying(r)'
    BY DEF FinalizeCommit, Finish, Copying
<1>4. \A q \in Requests \ {r} :
          /\ Copying(q)' <=> Copying(q)
          /\ num'[q] = num[q]
          /\ Made(q)' = Made(q)
    BY DEF FinalizeCommit, Finish, Copying, Made
<1>5. \A n \in Numbers : taken'[n] = IF n = num[r] THEN Made(r) ELSE taken[n]
    BY <1>1, <1>2
<1>6. MadeExists'
    BY <1>1, <1>3, <1>4 DEF Ownership, MadeExists
<1>7. MadeApart'
    BY <1>3, <1>4 DEF Ownership, MadeApart
<1>8. MadeNotTaken'
    <2>. SUFFICES ASSUME NEW q \in Requests, Copying(q)', num'[q] \in rows'
                  PROVE  Made(q)' \cap taken'[num'[q]] = {}
        BY DEF MadeNotTaken
    <2>1. q # r /\ Copying(q) /\ num'[q] = num[q] /\ Made(q)' = Made(q)
        BY <1>3, <1>4
    <2>2. CASE num[q] = num[r]
        BY <2>1, <2>2, <1>2, <1>5 DEF Ownership, MadeApart
    <2>3. CASE num[q] # num[r]
        BY <2>1, <2>3, <1>1, <1>5 DEF Ownership, MadeNotTaken
    <2>. QED
        BY <2>2, <2>3
<1>9. TakenExists'
    BY <1>1, <1>2, <1>5 DEF Ownership, TakenExists, MadeExists
<1>. QED
    BY <1>6, <1>7, <1>8, <1>9 DEF Ownership

LEMMA OwnershipInit == Init => Ownership
BY DEF Init, Ownership, MadeExists, MadeApart, MadeNotTaken, TakenExists,
       Copying

LEMMA OwnershipNext ==
    TypeOK /\ RequestShape /\ Ownership /\ [Next]_vars => Ownership'
<1>. SUFFICES ASSUME TypeOK, RequestShape, Ownership, [Next]_vars
              PROVE  Ownership'
    OBVIOUS
<1>1. ASSUME NEW r \in Requests, Arrive(r)
      PROVE  Ownership'
    BY <1>1, OwnershipElsewhere
       DEF Arrive, SaveStart, DeleteArtifact, FinalizeList, ReloadStart,
           CreateProject, DeleteProjectCheck, Goto, Copying, locals,
           TypeOK, RequestTypeOK
<1>2. ASSUME NEW r \in Requests, Crash(r)
      PROVE  Ownership'
    BY <1>2, OwnershipElsewhere
       DEF Crash, Finish, Copying, TypeOK, RequestTypeOK
<1>3. ASSUME NEW r \in Requests, Step(r)
      PROVE  Ownership'
    <2>. USE DEF TypeOK, RequestTypeOK
    <2>1. CASE FinalizeNumber(r)
        BY <2>1, OwnershipNumber
    <2>2. CASE CopyBegin(r)
        <3>1. CASE Finish(r)
            <4>1. UNCHANGED <<rows, trees, taken, finalized>>
                BY <2>2, <3>1 DEF CopyBegin, Finish, Goto
            <4>. QED
                BY <3>1, <4>1, OwnershipElsewhere DEF Finish, Copying
        <3>. QED
            BY <2>2, <3>1, OwnershipBegin
    <2>3. CASE CopyEnd(r)
        <3>1. CASE Finish(r)
            <4>1. UNCHANGED <<rows, trees, taken, finalized>>
                BY <2>3, <3>1 DEF CopyEnd, Finish, Goto
            <4>. QED
                BY <3>1, <4>1, OwnershipElsewhere DEF Finish, Copying
        <3>. QED
            BY <2>3, <3>1, OwnershipEnd
    <2>4. CASE FinalizeCommit(r)
        BY <2>4, OwnershipCommit, OwnershipElsewhere
           DEF FinalizeCommit, Finish, Copying
    <2>5. CASE \/ SaveWrite(r) \/ ReloadDone(r) \/ DeleteProjectCommit(r)
               \/ ReloadClear(r) \/ ReloadList(r) \/ DeleteArtifactDir(r)
        BY <2>5, OwnershipElsewhere
           DEF SaveWrite, ReloadDone, DeleteProjectCommit, ReloadClear,
               ReloadList, DeleteArtifactDir, Finish, Goto, Copying
    <2>6. CASE RestoreBegin(r)
        BY <2>6, OwnershipElsewhere DEF RestoreBegin, Finish, Goto, Copying
    <2>7. CASE RestoreEnd(r)
        BY <2>7, OwnershipElsewhere DEF RestoreEnd, Finish, Goto, Copying
    <2>. QED
        BY <1>3, <2>1, <2>2, <2>3, <2>4, <2>5, <2>6, <2>7 DEF Step
<1>4. CASE UNCHANGED vars
    BY <1>4 DEF vars, locals, Ownership, MadeExists, MadeApart, MadeNotTaken,
                TakenExists, Made, Copying
<1>. QED
    BY <1>1, <1>2, <1>3, <1>4 DEF Next

-----------------------------------------------------------------------------
(* Numbers: while no rows were lost, rows is 1 .. k and no finalize works  *)
(* on a number beyond k + 1; the INSERT that UNIQUE lets through is k + 1. *)

LEMMA MaxOfInterval ==
    ASSUME NEW k \in Nat, rows = 1 .. k
    PROVE  MaxRow = k
<1>1. CASE k = 0
    <2>1. rows = {}
        BY <1>1
    <2>. QED
        BY <1>1, <2>1 DEF MaxRow
<1>2. CASE k # 0
    <2>1. k \in rows /\ \A y \in rows : k >= y
        BY <1>2
    <2>2. \A x \in rows : (\A y \in rows : x >= y) => x = k
        BY <2>1
    <2>3. Max(rows) = k
        BY <2>1, <2>2 DEF Max
    <2>. QED
        BY <2>1, <2>3 DEF MaxRow
<1>. QED
    BY <1>1, <1>2

LEMMA NumbersInit == Init => NumbersInUse
<1>. SUFFICES ASSUME Init PROVE NumbersInUse
    OBVIOUS
<1>1. 0 \in 0 .. MaxNumber /\ rows = 1 .. 0
    BY NumberAssumption DEF Init
<1>2. \A r \in Requests : ~Copying(r)
    BY DEF Init, Copying
<1>. QED
    BY <1>1, <1>2 DEF NumbersInUse

(* A step that keeps rows and starts no finalize keeps the numbers. *)
LEMMA NumbersFrame ==
    ASSUME NumbersInUse, rows' = rows, cascaded' = cascaded,
           \A q \in Requests : Copying(q)' => Copying(q) /\ num'[q] = num[q]
    PROVE  NumbersInUse'
BY DEF NumbersInUse

LEMMA NumbersNumber ==
    ASSUME TypeOK, NumbersInUse, NEW r \in Requests, FinalizeNumber(r)
    PROVE  NumbersInUse'
<1>. SUFFICES ASSUME ~cascaded
              PROVE  NumbersInUse'
    BY DEF FinalizeNumber, NumbersInUse
<1>1. PICK k \in 0 .. MaxNumber :
          /\ rows = 1 .. k
          /\ \A q \in Requests : Copying(q) => num[q] <= k + 1
    BY DEF NumbersInUse
<1>2. MaxRow = k
    BY <1>1, MaxOfInterval, NumberAssumption
<1>3. \A q \in Requests : Copying(q)' => num'[q] <= k + 1
    BY <1>1, <1>2, NumberAssumption
       DEF FinalizeNumber, Goto, Copying, TypeOK, RequestTypeOK
<1>. QED
    BY <1>1, <1>3 DEF NumbersInUse, FinalizeNumber

LEMMA NumbersCommit ==
    ASSUME TypeOK, RequestShape, NumbersInUse, NEW r \in Requests,
           FinalizeCommit(r), rows' # rows
    PROVE  NumbersInUse'
<1>. SUFFICES ASSUME ~cascaded
              PROVE  NumbersInUse'
    BY DEF FinalizeCommit, NumbersInUse
<1>1. PICK k \in 0 .. MaxNumber :
          /\ rows = 1 .. k
          /\ \A q \in Requests : Copying(q) => num[q] <= k + 1
    BY DEF NumbersInUse
<1>2. /\ num[r] \in Numbers \ rows
      /\ rows' = rows \cup {num[r]}
      /\ Copying(r)
    BY DEF FinalizeCommit, RequestShape, Copying
<1>3. num[r] = k + 1
    BY <1>1, <1>2, NumberAssumption DEF Numbers
<1>4. k + 1 \in 0 .. MaxNumber /\ rows' = 1 .. (k + 1)
    BY <1>1, <1>2, <1>3, NumberAssumption DEF Numbers
<1>5. \A q \in Requests : Copying(q)' => num'[q] <= (k + 1) + 1
    <2>. SUFFICES ASSUME NEW q \in Requests, Copying(q)'
                  PROVE  num'[q] <= (k + 1) + 1
        OBVIOUS
    <2>1. Copying(q) /\ num'[q] = num[q]
        BY DEF FinalizeCommit, Finish, Copying, TypeOK, RequestTypeOK
    <2>2. num[q] \in Numbers
        BY <2>1 DEF RequestShape
    <2>. QED
        BY <1>1, <2>1, <2>2, NumberAssumption DEF Numbers
<1>. QED
    BY <1>4, <1>5 DEF NumbersInUse

(* DELETE of a project that has rows sets cascaded; otherwise rows stays.  *)
LEMMA NumbersDelete ==
    ASSUME TypeOK, NumbersInUse, NEW r \in Requests, DeleteProjectCommit(r)
    PROVE  NumbersInUse'
<1>1. CASE rows = {}
    <2>1. \A q \in Requests : Copying(q)' => Copying(q) /\ num'[q] = num[q]
        BY DEF DeleteProjectCommit, Finish, Copying, TypeOK, RequestTypeOK
    <2>. QED
        BY <1>1, <2>1, NumbersFrame DEF DeleteProjectCommit
<1>2. CASE rows # {}
    BY <1>2 DEF DeleteProjectCommit, NumbersInUse
<1>. QED
    BY <1>1, <1>2

LEMMA NumbersNext ==
    TypeOK /\ RequestShape /\ NumbersInUse /\ [Next]_vars => NumbersInUse'
<1>. SUFFICES ASSUME TypeOK, RequestShape, NumbersInUse, [Next]_vars
              PROVE  NumbersInUse'
    OBVIOUS
<1>. USE DEF TypeOK, RequestTypeOK
<1>1. ASSUME NEW r \in Requests, Arrive(r)
      PROVE  NumbersInUse'
    BY <1>1, NumbersFrame
       DEF Arrive, SaveStart, DeleteArtifact, FinalizeList, ReloadStart,
           CreateProject, DeleteProjectCheck, Goto, Copying, locals
<1>2. ASSUME NEW r \in Requests, Crash(r)
      PROVE  NumbersInUse'
    BY <1>2, NumbersFrame DEF Crash, Finish, Copying
<1>3. ASSUME NEW r \in Requests, Step(r)
      PROVE  NumbersInUse'
    <2>1. CASE FinalizeNumber(r)
        BY <2>1, NumbersNumber
    <2>2. CASE CopyBegin(r)
        BY <2>2, NumbersFrame DEF CopyBegin, Finish, Goto, Copying
    <2>3. CASE CopyEnd(r)
        BY <2>3, NumbersFrame DEF CopyEnd, Finish, Goto, Copying
    <2>4. CASE FinalizeCommit(r)
        <3>1. CASE rows' = rows
            BY <2>4, <3>1, NumbersFrame DEF FinalizeCommit, Finish, Copying
        <3>. QED
            BY <2>4, <3>1, NumbersCommit
    <2>5. CASE DeleteProjectCommit(r)
        BY <2>5, NumbersDelete
    <2>6. CASE \/ SaveWrite(r) \/ ReloadDone(r) \/ ReloadClear(r)
               \/ ReloadList(r) \/ DeleteArtifactDir(r)
        BY <2>6, NumbersFrame
           DEF SaveWrite, ReloadDone, ReloadClear, ReloadList,
               DeleteArtifactDir, Finish, Goto, Copying
    <2>7. CASE RestoreBegin(r)
        BY <2>7, NumbersFrame DEF RestoreBegin, Finish, Goto, Copying
    <2>8. CASE RestoreEnd(r)
        BY <2>8, NumbersFrame DEF RestoreEnd, Finish, Goto, Copying
    <2>. QED
        BY <1>3, <2>1, <2>2, <2>3, <2>4, <2>5, <2>6, <2>7, <2>8 DEF Step
<1>4. CASE UNCHANGED vars
    BY <1>4 DEF vars, locals, NumbersInUse, Copying
<1>. QED
    BY <1>1, <1>2, <1>3, <1>4 DEF Next

-----------------------------------------------------------------------------
(* The inductive invariant, for any number of concurrent requests and      *)
(* crashes at any step.                                                    *)
THEOREM InductiveInvariant == Spec => []IInv
<1>. DEFINE Inv == TypeOK /\ RequestShape /\ Ownership /\ NumbersInUse
<1>1. Init => Inv
    BY ShapeInit, OwnershipInit, NumbersInit
<1>2. Inv /\ [Next]_vars => Inv'
    BY ShapeNext, OwnershipNext, NumbersNext
<1>3. Inv => IInv
    BY DEF IInv, Ownership
<1>. QED
    BY <1>1, <1>2, <1>3, PTL DEF Spec

(* Finalization numbers have no gap, whoever races for them. *)
THEOREM NumbersHaveNoGap == Spec => []Numbering
<1>1. IInv => Numbering
    <2>. SUFFICES ASSUME IInv, ~cascaded
                  PROVE  rows = 1 .. Cardinality(rows)
        BY DEF Numbering
    <2>1. PICK k \in 0 .. MaxNumber : rows = 1 .. k
        BY DEF IInv, NumbersInUse
    <2>2. Cardinality(1 .. k) = k
        BY <2>1, FS_Interval, NumberAssumption
    <2>. QED
        BY <2>1, <2>2
<1>. QED
    BY <1>1, InductiveInvariant, PTL

(* A committed row never precedes the copies it stands for. *)
THEOREM RowsFollowFiles == Spec => []CommittedIsCopied
<1>1. IInv => CommittedIsCopied
    <2>. SUFFICES ASSUME IInv, NEW n \in rows
                  PROVE  /\ n \in trees
                         /\ taken[n] # {}
                         /\ \A s \in taken[n] :
                               /\ finalized[n][s] # NoDir
                               /\ \A r \in Requests :
                                     ~ (/\ pc[r] = "copying"
                                        /\ num[r] = n
                                        /\ subj[r] = s)
        BY DEF CommittedIsCopied
    <2>1. \A r \in Requests :
              pc[r] = "copying" => Copying(r) /\ subj[r] \in Made(r)
        BY DEF Copying, Made
    <2>. QED
        BY <2>1 DEF IInv, TakenExists, MadeNotTaken
<1>. QED
    BY <1>1, InductiveInvariant, PTL

(* What a committed finalize copied is never written again.  Only the two  *)
(* copy steps write under finalized/: the first where there was nothing,   *)
(* the second where its own request had made a directory, and neither is   *)
(* among the subjects a committed finalize took.                           *)
THEOREM CommittedCopiesAreStable == Spec => CommittedCopiesStable
<1>. DEFINE Stable == \A n \in rows : \A s \in taken[n] :
                          n \in rows' => finalized'[n][s] = finalized[n][s]
<1>1. IInv /\ [Next]_vars => Stable
    <2>. SUFFICES ASSUME IInv, [Next]_vars,
                         NEW n \in rows, NEW s \in taken[n]
                  PROVE  finalized'[n][s] = finalized[n][s]
        OBVIOUS
    <2>1. n \in Numbers /\ s \in Subjects
        BY DEF IInv, TypeOK, DatabaseTypeOK
    <2>2. finalized \in [Numbers -> [Subjects -> Dirs]]
        BY DEF IInv, TypeOK, DiskTypeOK
    <2>3. ASSUME NEW r \in Requests, CopyBegin(r)
          PROVE  finalized'[n][s] = finalized[n][s]
        <3>1. CASE finalized' = finalized
            BY <3>1
        <3>2. ASSUME NEW t \in Subjects, finalized[num[r]][t] = NoDir,
                     finalized' = [finalized EXCEPT ![num[r]][t] = Partial]
              PROVE  finalized'[n][s] = finalized[n][s]
            <4>1. finalized[n][s] # NoDir
                BY DEF IInv, TakenExists
            <4>. QED
                BY <4>1, <3>2, <2>1, <2>2
        <3>. QED
            BY <2>3, <3>1, <3>2 DEF CopyBegin
    <2>4. ASSUME NEW r \in Requests, CopyEnd(r)
          PROVE  finalized'[n][s] = finalized[n][s]
        <3>1. CASE finalized' = finalized
            BY <3>1
        <3>2. ASSUME NEW c \in {working[subj[r]], Partial},
                     finalized' = [finalized EXCEPT ![num[r]][subj[r]] = c]
              PROVE  finalized'[n][s] = finalized[n][s]
            <4>1. Copying(r) /\ subj[r] \in Made(r)
                BY <2>4 DEF CopyEnd, Copying, Made
            <4>2. ~(num[r] = n /\ subj[r] = s)
                BY <4>1 DEF IInv, MadeNotTaken
            <4>. QED
                BY <4>2, <3>2, <2>1, <2>2
        <3>. QED
            BY <2>4, <3>1, <3>2 DEF CopyEnd
    <2>5. CASE finalized' = finalized
        BY <2>5
    <2>. QED
        BY <2>3, <2>4, <2>5
           DEF Next, Step, Arrive, Crash, vars, SaveWrite, FinalizeNumber,
               FinalizeCommit, ReloadClear, ReloadList, RestoreBegin,
               RestoreEnd, ReloadDone, DeleteProjectCommit, SaveStart,
               DeleteArtifact, DeleteArtifactDir, FinalizeList, ReloadStart,
               CreateProject, DeleteProjectCheck
<1>2. IInv /\ [Next]_vars => [Stable]_vars
    BY <1>1
<1>. QED
    BY <1>2, InductiveInvariant, PTL DEF Spec, CommittedCopiesStable

-----------------------------------------------------------------------------
(* Requests that come one at a time, any of which may die: what ADR 0002   *)
(* promises of a snapshot.                                                 *)

LEMMA SerialInit == Init => SerialInv
  BY DEF Init, SerialInv, Copying

-----------------------------------------------------------------------------
(* Steps that neither copy, reload nor delete a project: afterwards the    *)
(* only request is in none of the phases SerialInv speaks of.              *)

LEMMA SerialElsewhere ==
    ASSUME OneAtATime, TypeOK, SerialInv, NEW r \in Requests,
           cascaded' = cascaded,
           pc'[r] \in {"idle", "save", "unlink", "number"}
    PROVE  SerialInv'
<1>1. \A q \in Requests : q = r
    BY DEF OneAtATime
<1>. QED
    BY <1>1 DEF SerialInv, Copying

LEMMA SerialArrive ==
    ASSUME OneAtATime, TypeOK, SerialInv, NEW r \in Requests, Arrive(r)
    PROVE  SerialInv'
<1>. USE DEF TypeOK, RequestTypeOK, Goto, Phases
<1>1. CASE \E s \in Subjects, c \in Contents : SaveStart(r, s, c)
    BY <1>1, SerialElsewhere DEF SaveStart
<1>2. CASE \E s \in Subjects : DeleteArtifact(r, s)
    BY <1>2, SerialElsewhere DEF DeleteArtifact
<1>3. CASE FinalizeList(r)
    BY <1>3, SerialElsewhere DEF FinalizeList
<1>4. CASE CreateProject(r)
    BY <1>4, SerialElsewhere DEF CreateProject, locals
<1>5. CASE ReloadStart(r)
    <2>1. \A q \in Requests : q = r
        BY DEF OneAtATime
    <2>2. pc'[r] = "clear" /\ todo'[r] = SubjectDirs(working) /\ working' = working
        BY <1>5 DEF ReloadStart
    <2>. QED
        BY <1>5, <2>1, <2>2 DEF SerialInv, Copying, ReloadStart, SubjectDirs
<1>6. CASE DeleteProjectCheck(r)
    <2>1. \A q \in Requests : q = r
        BY DEF OneAtATime
    <2>2. pc'[r] = "delete" /\ rows' = {}
        BY <1>6 DEF DeleteProjectCheck
    <2>. QED
        BY <1>6, <2>1, <2>2 DEF SerialInv, Copying, DeleteProjectCheck
<1>. QED
    BY <1>1, <1>2, <1>3, <1>4, <1>5, <1>6 DEF Arrive

-----------------------------------------------------------------------------
(* The steps of a finalize. *)

LEMMA SerialNumber ==
    ASSUME OneAtATime, TypeOK, NumbersInUse, SerialInv, NEW r \in Requests, FinalizeNumber(r)
    PROVE  SerialInv'
<1>1. \A q \in Requests : q = r
    BY DEF OneAtATime
<1>2. PICK k \in 0 .. MaxNumber : rows = 1 .. k
    BY DEF SerialInv, NumbersInUse
<1>3. MaxRow = k /\ k + 1 \notin rows
    BY <1>2, MaxOfInterval, NumberAssumption
<1>4. pc'[r] = "copy" /\ num'[r] = MaxRow + 1 /\ rows' = rows /\ cascaded' = cascaded
    BY DEF FinalizeNumber, Goto, TypeOK, RequestTypeOK
<1>. QED
    BY <1>1, <1>3, <1>4 DEF SerialInv, Copying

LEMMA SerialFinalize ==
    ASSUME OneAtATime, TypeOK, SerialInv, NEW r \in Requests,
           CopyBegin(r) \/ CopyEnd(r) \/ FinalizeCommit(r)
    PROVE  SerialInv'
<1>1. \A q \in Requests : q = r
    BY DEF OneAtATime
<1>2. Copying(r) /\ cascaded' = cascaded
    BY DEF CopyBegin, CopyEnd, FinalizeCommit, Copying
<1>3. \/ pc'[r] = "idle"
      \/ pc'[r] \in {"copy", "copying"} /\ num'[r] = num[r] /\ rows' = rows
    BY DEF CopyBegin, CopyEnd, FinalizeCommit, Finish, Goto, TypeOK, RequestTypeOK
<1>. QED
    BY <1>1, <1>2, <1>3 DEF SerialInv, Copying

-----------------------------------------------------------------------------
(* The steps of a reload. *)

LEMMA SerialClear ==
    ASSUME OneAtATime, TypeOK, SerialInv, NEW r \in Requests, ReloadClear(r)
    PROVE  SerialInv'
<1>1. \A q \in Requests : q = r
    BY DEF OneAtATime
<1>2. CASE Finish(r)
    BY <1>2, SerialElsewhere DEF ReloadClear, Finish, TypeOK, RequestTypeOK
<1>3. ASSUME NEW s \in todo[r],
             working' = [working EXCEPT ![s] = NoDir],
             todo' = [todo EXCEPT ![r] = @ \ {s}],
             UNCHANGED <<pc, num>>
      PROVE  SerialInv'
    <2>1. pc[r] = "clear" /\ pc'[r] = "clear" /\ cascaded' = cascaded /\ rows' = rows
        BY <1>3 DEF ReloadClear
    <2>2. todo'[r] = todo[r] \ {s}
        BY <1>3 DEF TypeOK, RequestTypeOK
    <2>3. \A t \in Subjects \ todo'[r] : working'[t] = NoDir
        BY <1>3, <2>1, <2>2 DEF SerialInv, TypeOK, DiskTypeOK
    <2>. QED
        BY <1>1, <2>1, <2>3 DEF SerialInv, Copying
<1>. QED
    BY <1>2, <1>3 DEF ReloadClear

LEMMA SerialList ==
    ASSUME OneAtATime, TypeOK, RequestShape, SerialInv, NEW r \in Requests, ReloadList(r)
    PROVE  SerialInv'
<1>1. \A q \in Requests : q = r
    BY DEF OneAtATime
<1>2. /\ pc[r] = "clear" /\ todo[r] = {} /\ pc'[r] = "restore"
      /\ num' = num /\ working' = working /\ finalized' = finalized
      /\ cascaded' = cascaded /\ rows' = rows
      /\ todo'[r] = SubjectDirs(finalized[num[r]])
    BY DEF ReloadList, Goto, TypeOK, RequestTypeOK
<1>3. \A s \in Subjects \ todo'[r] : finalized[num[r]][s] = NoDir
    BY <1>2 DEF SubjectDirs
<1>4. \A s \in Subjects : working[s] = NoDir
    BY <1>2 DEF SerialInv
<1>. QED
    BY <1>1, <1>2, <1>3, <1>4 DEF SerialInv, Copying

LEMMA SerialRestoreBegin ==
    ASSUME OneAtATime, TypeOK, SerialInv, NEW r \in Requests, RestoreBegin(r)
    PROVE  SerialInv'
<1>1. \A q \in Requests : q = r
    BY DEF OneAtATime
<1>2. CASE Finish(r)
    BY <1>2, SerialElsewhere DEF RestoreBegin, Finish, TypeOK, RequestTypeOK
<1>3. ASSUME NEW s \in Subjects, s \in todo[r],
             working' = [working EXCEPT ![s] = Partial],
             Goto(r, "restoring"), UNCHANGED <<todo, num>>
      PROVE  SerialInv'
    <2>1. /\ pc[r] = "restore" /\ pc'[r] = "restoring" /\ finalized' = finalized
          /\ cascaded' = cascaded /\ rows' = rows
        BY <1>3 DEF RestoreBegin, Goto, TypeOK, RequestTypeOK
    <2>2. \A t \in Subjects \ todo[r] : working'[t] = finalized[num[r]][t]
        BY <1>3, <2>1 DEF SerialInv, TypeOK, DiskTypeOK
    <2>. QED
        BY <1>1, <1>3, <2>1, <2>2 DEF SerialInv, Copying
<1>. QED
    BY <1>2, <1>3 DEF RestoreBegin, IsNext

LEMMA SerialRestoreEnd ==
    ASSUME OneAtATime, TypeOK, RequestShape, SerialInv, NEW r \in Requests, RestoreEnd(r)
    PROVE  SerialInv'
<1>1. \A q \in Requests : q = r
    BY DEF OneAtATime
<1>2. CASE Finish(r)
    BY <1>2, SerialElsewhere DEF RestoreEnd, Finish, TypeOK, RequestTypeOK
<1>3. ASSUME working' = [working EXCEPT ![subj[r]] = finalized[num[r]][subj[r]]],
             todo' = [todo EXCEPT ![r] = @ \ {subj[r]}],
             Goto(r, "restore"), UNCHANGED num
      PROVE  SerialInv'
    <2>1. /\ pc[r] = "restoring" /\ pc'[r] = "restore" /\ finalized' = finalized
          /\ cascaded' = cascaded /\ rows' = rows
        BY <1>3 DEF RestoreEnd, Goto, TypeOK, RequestTypeOK
    <2>2. todo'[r] = todo[r] \ {subj[r]}
        BY <1>3 DEF TypeOK, RequestTypeOK
    <2>3. \A t \in Subjects \ todo'[r] : working'[t] = finalized[num[r]][t]
        BY <1>3, <2>1, <2>2 DEF SerialInv, TypeOK, DiskTypeOK
    <2>. QED
        BY <1>1, <1>3, <2>1, <2>3 DEF SerialInv, Copying
<1>. QED
    BY <1>2, <1>3 DEF RestoreEnd

-----------------------------------------------------------------------------
(* Every step. *)

LEMMA SerialDelete ==
    ASSUME OneAtATime, TypeOK, SerialInv, NEW r \in Requests, DeleteProjectCommit(r)
    PROVE  SerialInv'
<1>1. rows = {} /\ cascaded' = cascaded /\ pc'[r] = "idle"
    BY DEF DeleteProjectCommit, SerialInv, Finish, TypeOK, RequestTypeOK
<1>. QED
    BY <1>1, SerialElsewhere

LEMMA SerialCrash ==
    ASSUME OneAtATime, TypeOK, SerialInv, NEW r \in Requests, Crash(r)
    PROVE  SerialInv'
<1>1. pc'[r] = "idle" /\ cascaded' = cascaded
    BY DEF Crash, Finish, TypeOK, RequestTypeOK
<1>. QED
    BY <1>1, SerialElsewhere

LEMMA SerialStep ==
    ASSUME OneAtATime, TypeOK, RequestShape, NumbersInUse, SerialInv,
           NEW r \in Requests, Step(r)
    PROVE  SerialInv'
<1>1. CASE SaveWrite(r) \/ DeleteArtifactDir(r) \/ ReloadDone(r)
    <2>1. pc'[r] = "idle" /\ cascaded' = cascaded
        BY <1>1 DEF SaveWrite, DeleteArtifactDir, ReloadDone, Finish, TypeOK, RequestTypeOK
    <2>. QED
        BY <2>1, SerialElsewhere
<1>. QED
    BY <1>1, SerialNumber, SerialFinalize, SerialClear, SerialList, SerialRestoreBegin,
       SerialRestoreEnd, SerialDelete DEF Step

LEMMA SerialNext ==
    ASSUME OneAtATime, IInv, SerialInv, [Next]_vars
    PROVE  SerialInv'
<1>1. TypeOK /\ RequestShape /\ NumbersInUse
    BY DEF IInv
<1>2. CASE UNCHANGED vars
    BY <1>2 DEF vars, locals, SerialInv, Copying
<1>. QED
    BY <1>1, <1>2, SerialStep, SerialArrive, SerialCrash DEF Next

-----------------------------------------------------------------------------
(* The inductive invariant of one request at a time. *)
THEOREM SerialInvariant == OneAtATime => (Spec => []SerialInv)
<1>. SUFFICES ASSUME OneAtATime PROVE Spec => []SerialInv
    OBVIOUS
<1>1. Init => SerialInv
    BY SerialInit
<1>2. IInv /\ SerialInv /\ [Next]_vars => SerialInv'
    BY SerialNext
<1>. QED
    BY <1>1, <1>2, InductiveInvariant, PTL DEF Spec

(* A reload that ends has made working the snapshot it chose and nothing   *)
(* beside it (reload_latest_finalization).                                 *)
THEOREM ReloadRestoresSnapshot == OneAtATime => (Spec => []ReloadIsRestore)
<1>. SUFFICES ASSUME OneAtATime PROVE Spec => []ReloadIsRestore
    OBVIOUS
<1>1. IInv /\ SerialInv => ReloadIsRestore
    <2>. SUFFICES ASSUME IInv, SerialInv, NEW r \in Requests,
                         pc[r] = "restore", todo[r] = {}
                  PROVE  working = finalized[num[r]]
        BY DEF ReloadIsRestore
    <2>1. \A s \in Subjects : working[s] = finalized[num[r]][s]
        BY DEF SerialInv
    <2>2. /\ working \in [Subjects -> Dirs]
          /\ finalized[num[r]] \in [Subjects -> Dirs]
        BY DEF IInv, TypeOK, DiskTypeOK, RequestShape
    <2>. QED
        BY <2>1, <2>2
<1>. QED
    BY <1>1, InductiveInvariant, SerialInvariant, PTL

(* The whole tree of a committed finalization is immutable: a finalize     *)
(* writes only under the number of a row that is not there yet.            *)
THEOREM SnapshotsAreImmutable == OneAtATime => (Spec => SnapshotImmutable)
<1>. SUFFICES ASSUME OneAtATime PROVE Spec => SnapshotImmutable
    OBVIOUS
<1>. DEFINE Immutable == \A n \in rows : n \in rows' => finalized'[n] = finalized[n]
<1>1. IInv /\ SerialInv /\ [Next]_vars => Immutable
    <2>. SUFFICES ASSUME IInv, SerialInv, [Next]_vars, NEW n \in rows
                  PROVE  finalized'[n] = finalized[n]
        OBVIOUS
    <2>1. n \in Numbers /\ finalized \in [Numbers -> [Subjects -> Dirs]]
        BY DEF IInv, TypeOK, DatabaseTypeOK, DiskTypeOK
    <2>2. ASSUME NEW r \in Requests, CopyBegin(r) \/ CopyEnd(r)
          PROVE  finalized'[n] = finalized[n]
        <3>1. num[r] # n
            BY <2>2 DEF SerialInv, Copying, CopyBegin, CopyEnd
        <3>2. CASE finalized' = finalized
            BY <3>2
        <3>3. ASSUME NEW s, NEW c, finalized' = [finalized EXCEPT ![num[r]][s] = c]
              PROVE  finalized'[n] = finalized[n]
            BY <2>1, <3>1, <3>3
        <3>. QED
            BY <2>2, <3>2, <3>3 DEF CopyBegin, CopyEnd
    <2>3. CASE finalized' = finalized
        BY <2>3
    <2>. QED
        BY <2>2, <2>3
           DEF Next, Step, Arrive, Crash, vars, SaveWrite, FinalizeNumber,
               FinalizeCommit, ReloadClear, ReloadList, RestoreBegin,
               RestoreEnd, ReloadDone, DeleteProjectCommit, SaveStart,
               DeleteArtifact, DeleteArtifactDir, FinalizeList, ReloadStart,
               CreateProject, DeleteProjectCheck
<1>2. IInv /\ SerialInv /\ [Next]_vars => [Immutable]_vars
    BY <1>1
<1>. QED
    BY <1>2, InductiveInvariant, SerialInvariant, PTL DEF Spec, SnapshotImmutable

(* No finalization row is ever deleted: a project that has one is not      *)
(* deleted (projects_delete).                                              *)
THEOREM RowsAreNeverDeleted == OneAtATime => (Spec => RowsNeverDeleted)
<1>. SUFFICES ASSUME OneAtATime PROVE Spec => RowsNeverDeleted
    OBVIOUS
<1>1. SerialInv /\ [Next]_vars => rows \subseteq rows'
    BY DEF SerialInv, Next, Step, Arrive, Crash, vars, SaveWrite, FinalizeNumber,
           CopyBegin, CopyEnd, FinalizeCommit, ReloadClear, ReloadList, RestoreBegin,
           RestoreEnd, ReloadDone, DeleteProjectCommit, SaveStart,
           DeleteArtifact, DeleteArtifactDir, FinalizeList, ReloadStart,
           CreateProject, DeleteProjectCheck
<1>2. SerialInv /\ [Next]_vars => [rows \subseteq rows']_vars
    BY <1>1
<1>. QED
    BY <1>2, SerialInvariant, PTL DEF Spec, RowsNeverDeleted

-----------------------------------------------------------------------------
LEMMA QuietInit == Init => QuietInv
  BY ContentsAssumption DEF Init, QuietInv, SnapshotsAreComplete, NothingBeyond, WorkingIsWhole, FinalizeProgress,
         ReloadProgress, ProjectStays, Copying

LEMMA OnlyRequest ==
    ASSUME OneAtATime, NEW r \in Requests
    PROVE  \A q \in Requests : q = r
  BY DEF OneAtATime

LEMMA RowsAreCounted ==
    ASSUME NumbersInUse, SerialInv
    PROVE  \E k \in 0 .. MaxNumber : rows = 1 .. k /\ MaxRow = k
  BY MaxOfInterval, NumberAssumption DEF SerialInv, NumbersInUse

-----------------------------------------------------------------------------
(* Saving and deleting an artifact. *)

LEMMA QuietSave ==
    ASSUME OneAtATime, TypeOK, QuietInv, NEW r \in Requests,
           \/ \E s \in Subjects, c \in Contents : SaveStart(r, s, c)
           \/ \E s \in Subjects : DeleteArtifact(r, s)
    PROVE  QuietInv'
<1>1. PICK s \in Subjects, d \in Dirs :
        /\ working' = [working EXCEPT ![s] = d]
        /\ pc[r] = "idle" /\ pc' = [pc EXCEPT ![r] = pc'[r]] /\ pc'[r] \in {"save", "unlink"}
        /\ subj' = [subj EXCEPT ![r] = s]
        /\ pc'[r] = "save" => art'[r] \in Contents
        /\ rows' = rows /\ finalized' = finalized
    <2>1. CASE \E s \in Subjects, c \in Contents : SaveStart(r, s, c)
        <3>1. PICK s \in Subjects, c \in Contents : SaveStart(r, s, c)
            BY <2>1
        <3>2. (IF working[s] = NoDir THEN Partial ELSE working[s]) \in Dirs
            BY DEF TypeOK, DiskTypeOK, Dirs
        <3>. QED
            BY <3>1, <3>2 DEF SaveStart, Goto, TypeOK, DiskTypeOK, RequestTypeOK
    <2>2. CASE \E s \in Subjects : DeleteArtifact(r, s)
        BY <2>2 DEF DeleteArtifact, Goto, TypeOK, DiskTypeOK, RequestTypeOK, Dirs
    <2>. QED
        BY <2>1, <2>2
<1>2. \A q \in Requests : q = r
    BY OnlyRequest
<1>3. WorkingIsWhole'
    BY <1>1, <1>2 DEF WorkingIsWhole, QuietInv, TypeOK, DiskTypeOK, RequestTypeOK
<1>. QED
    BY <1>1, <1>2, <1>3 DEF QuietInv, SnapshotsAreComplete, NothingBeyond, FinalizeProgress,
       ReloadProgress, ProjectStays, Copying, TypeOK, RequestTypeOK

LEMMA QuietSaved ==
    ASSUME OneAtATime, TypeOK, RequestShape, QuietInv, NEW r \in Requests,
           SaveWrite(r) \/ DeleteArtifactDir(r)
    PROVE  QuietInv'
<1>1. \A q \in Requests : q = r
    BY OnlyRequest
<1>2. /\ pc[r] \in {"save", "unlink"} /\ pc'[r] = "idle"
      /\ rows' = rows /\ finalized' = finalized
    BY DEF SaveWrite, DeleteArtifactDir, Finish, TypeOK, RequestTypeOK
<1>3. subj[r] \in Subjects
    BY <1>2 DEF RequestShape
<1>4. \A s \in Subjects : working'[s] # Partial
    <2>1. \A s \in Subjects \ {subj[r]} : working'[s] = working[s] /\ working[s] # Partial
        BY <1>1, <1>2 DEF SaveWrite, DeleteArtifactDir, WorkingIsWhole, QuietInv, TypeOK, DiskTypeOK
    <2>2. working'[subj[r]] # Partial
        BY <1>1, <1>3, ContentsAssumption 
        DEF SaveWrite, DeleteArtifactDir, Writing, WorkingIsWhole, QuietInv, TypeOK, DiskTypeOK
    <2>. QED
        BY <2>1, <2>2
<1>. QED
    BY <1>1, <1>2, <1>4 DEF QuietInv, SnapshotsAreComplete, NothingBeyond, WorkingIsWhole,
       FinalizeProgress, ReloadProgress, ProjectStays, Copying

-----------------------------------------------------------------------------
(* Finalize. *)

LEMMA QuietFinalizeStart ==
    ASSUME OneAtATime, IInv, SerialInv, QuietInv, NEW r \in Requests,
           FinalizeList(r) \/ FinalizeNumber(r)
    PROVE  QuietInv'
<1>1. \A q \in Requests : q = r
    BY OnlyRequest
<1>2. /\ rows' = rows /\ finalized' = finalized /\ working' = working
      /\ project' = project
    BY DEF FinalizeList, FinalizeNumber
<1>. USE DEF IInv, TypeOK, RequestTypeOK, DiskTypeOK
<1>3. CASE FinalizeList(r)
    <2>1. pc[r] = "idle" /\ pc'[r] = "number" /\ project # 0 /\ listed'[r] = SubjectDirs(working)
        BY <1>3 DEF FinalizeList, Goto
    <2>. QED
        BY <1>1, <1>2, <2>1 DEF QuietInv, SnapshotsAreComplete, NothingBeyond, WorkingIsWhole,
           FinalizeProgress, ReloadProgress, ProjectStays, Copying, SubjectDirs
<1>4. CASE FinalizeNumber(r)
    <2>1. /\ pc[r] = "number" /\ pc'[r] = "copy"
          /\ num'[r] = MaxRow + 1 /\ MaxRow + 1 \in Numbers
          /\ todo'[r] = listed[r] /\ listed' = listed
        BY <1>4 DEF FinalizeNumber, Goto
    <2>2. MaxRow + 1 \notin rows
        BY RowsAreCounted
    <2>3. \A s \in Subjects : finalized[num'[r]][s] = NoDir
        BY <1>1, <2>1, <2>2 DEF NothingBeyond, QuietInv, Copying
    <2>4. \A s \in Subjects \ todo'[r] : working[s] = NoDir
        BY <2>1 DEF FinalizeProgress, QuietInv, SubjectDirs
    <2>5. NothingBeyond'
        BY <1>1, <1>2, <2>1 DEF NothingBeyond, QuietInv, Copying
    <2>6. FinalizeProgress'
        BY <1>1, <1>2, <2>1, <2>3, <2>4 DEF FinalizeProgress, QuietInv, Copying, SubjectDirs
    <2>. QED
        BY <1>1, <1>2, <2>1, <2>5, <2>6 DEF QuietInv, SnapshotsAreComplete, WorkingIsWhole,
           ReloadProgress, ProjectStays
<1>. QED
    BY <1>3, <1>4

LEMMA QuietCopyBegin ==
    ASSUME OneAtATime, IInv, SerialInv, QuietInv, NEW r \in Requests, CopyBegin(r)
    PROVE  QuietInv'
<1>1. \A q \in Requests : q = r
    BY OnlyRequest
<1>. USE DEF IInv, TypeOK, RequestTypeOK, DiskTypeOK
<1>2. /\ pc[r] = "copy" /\ rows' = rows /\ working' = working /\ project' = project
      /\ num[r] \in Numbers /\ num[r] \notin rows
    BY DEF CopyBegin, RequestShape, SerialInv, Copying
<1>3. PICK s \in Subjects : /\ s \in todo[r]
                            /\ finalized' = [finalized EXCEPT ![num[r]][s] = Partial]
                            /\ subj'[r] = s /\ art'[r] = working[s]
                            /\ pc'[r] = "copying" /\ UNCHANGED <<todo, listed, num>>
    <2>1. \A s \in todo[r] : finalized[num[r]][s] = NoDir /\ working[s] # NoDir
        BY <1>2 DEF FinalizeProgress, QuietInv, Copying, RequestShape, SubjectDirs
    <2>. QED
        BY <2>1 DEF CopyBegin, IsNext, Goto
<1>4. \A n \in Numbers, t \in Subjects : n # num[r] \/ t # s => finalized'[n][t] = finalized[n][t]
    BY <1>2, <1>3
<1>5. finalized'[num[r]][s] = Partial
    BY <1>2, <1>3
<1>6. FinalizeProgress'
    BY <1>1, <1>2, <1>3, <1>4, <1>5 DEF FinalizeProgress, QuietInv, Copying, SubjectDirs
<1>7. NothingBeyond' /\ SnapshotsAreComplete'
    BY <1>1, <1>2, <1>3, <1>4 DEF NothingBeyond, SnapshotsAreComplete, QuietInv, Copying
<1>. QED
    BY <1>1, <1>2, <1>3, <1>6, <1>7 DEF QuietInv, WorkingIsWhole, ReloadProgress, ProjectStays

LEMMA QuietCopyEnd ==
    ASSUME OneAtATime, IInv, SerialInv, QuietInv, NEW r \in Requests, CopyEnd(r)
    PROVE  QuietInv'
<1>1. \A q \in Requests : q = r
    BY OnlyRequest
<1>. USE DEF IInv, TypeOK, RequestTypeOK, DiskTypeOK
<1>2. /\ pc[r] = "copying" /\ rows' = rows /\ working' = working /\ project' = project
      /\ num[r] \in Numbers /\ num[r] \notin rows
      /\ subj[r] \in Subjects /\ subj[r] \in todo[r]
    BY DEF CopyEnd, RequestShape, SerialInv, Copying
<1>3. /\ working[subj[r]] # NoDir /\ working[subj[r]] # Partial
      /\ art[r] = working[subj[r]]
    <2>1. subj[r] \in SubjectDirs(working) /\ art[r] = working[subj[r]]
        BY <1>2 DEF FinalizeProgress, QuietInv, RequestShape, Copying
    <2>2. working[subj[r]] # Partial
        BY <1>1, <1>2 DEF WorkingIsWhole, QuietInv
    <2>. QED
        BY <2>1, <2>2 DEF SubjectDirs
<1>4. /\ finalized' = [finalized EXCEPT ![num[r]][subj[r]] = working[subj[r]]]
      /\ todo'[r] = todo[r] \ {subj[r]}
      /\ pc'[r] = "copy" /\ UNCHANGED <<listed, num>>
    BY <1>1, <1>2, <1>3 DEF CopyEnd, Goto, Writing
<1>5. \A n \in Numbers, t \in Subjects :
         n # num[r] \/ t # subj[r] => finalized'[n][t] = finalized[n][t]
    BY <1>2, <1>4
<1>6. finalized'[num[r]][subj[r]] = working[subj[r]]
    BY <1>2, <1>4
<1>7. FinalizeProgress'
    BY <1>1, <1>2, <1>4, <1>5, <1>6 DEF FinalizeProgress, QuietInv, Copying, SubjectDirs
<1>8. NothingBeyond' /\ SnapshotsAreComplete'
    BY <1>1, <1>2, <1>4, <1>5 DEF NothingBeyond, SnapshotsAreComplete, QuietInv, Copying
<1>. QED
    BY <1>1, <1>2, <1>4, <1>7, <1>8 DEF QuietInv, WorkingIsWhole, ReloadProgress, ProjectStays

LEMMA QuietCommit ==
    ASSUME OneAtATime, IInv, SerialInv, QuietInv, NEW r \in Requests, FinalizeCommit(r)
    PROVE  /\ QuietInv'
           /\ rows' = rows \cup {num[r]} /\ project # 0
           /\ finalized[num[r]] = working
<1>1. \A q \in Requests : q = r
    BY OnlyRequest
<1>. USE DEF IInv, TypeOK, RequestTypeOK, DiskTypeOK
<1>2. /\ pc[r] = "copy" /\ todo[r] = {} /\ pc'[r] = "idle" /\ project # 0
      /\ num[r] \in Numbers /\ num[r] \notin rows /\ rows' = rows \cup {num[r]}
      /\ UNCHANGED <<working, finalized, project>>
    BY DEF FinalizeCommit, Finish, RequestShape, SerialInv, Copying, FinalizeProgress, QuietInv
<1>3. finalized[num[r]] = working
    BY <1>2 DEF FinalizeProgress, QuietInv, Copying
<1>4. \A s \in Subjects : working[s] # Partial
    BY <1>1, <1>2 DEF WorkingIsWhole, QuietInv
<1>5. \E s \in Subjects : working[s] # NoDir
    BY <1>2 DEF FinalizeProgress, QuietInv, RequestShape, SubjectDirs
<1>6. SnapshotsAreComplete'
    BY <1>2, <1>3, <1>4, <1>5 DEF SnapshotsAreComplete, QuietInv
<1>7. NothingBeyond'
    BY <1>1, <1>2 DEF NothingBeyond, QuietInv, Copying
<1>. QED
    BY <1>1, <1>2, <1>3, <1>4, <1>6, <1>7 DEF QuietInv, WorkingIsWhole, FinalizeProgress,
       ReloadProgress, ProjectStays, Copying

-----------------------------------------------------------------------------
(* Reload. *)

LEMMA QuietReloadStart ==
    ASSUME OneAtATime, IInv, SerialInv, QuietInv, NEW r \in Requests,
           ReloadStart(r) \/ ReloadList(r)
    PROVE  QuietInv'
<1>1. \A q \in Requests : q = r
    BY OnlyRequest
<1>2. /\ rows' = rows /\ finalized' = finalized /\ working' = working
      /\ project' = project
    BY DEF ReloadStart, ReloadList
<1>. USE DEF IInv, TypeOK, RequestTypeOK, DiskTypeOK
<1>3. CASE ReloadStart(r)
    <2>1. /\ pc[r] = "idle" /\ pc'[r] = "clear" /\ project # 0 /\ rows # {}
          /\ num'[r] = MaxRow /\ todo'[r] = SubjectDirs(working)
        BY <1>3 DEF ReloadStart, Goto, MaxRow
    <2>2. MaxRow \in rows
        BY <2>1, RowsAreCounted, NumberAssumption
    <2>3. MaxRow' = MaxRow
        BY <1>2 DEF MaxRow
    <2>. QED
        BY <1>1, <1>2, <2>1, <2>2, <2>3 DEF QuietInv, SnapshotsAreComplete, NothingBeyond,
           WorkingIsWhole, FinalizeProgress, ReloadProgress, ProjectStays, Copying, SubjectDirs
<1>4. CASE ReloadList(r)
    <2>1. /\ pc[r] = "clear" /\ pc'[r] = "restore" /\ num' = num
          /\ todo[r] = {} /\ todo'[r] \subseteq Subjects
        BY <1>4 DEF ReloadList, Goto, SubjectDirs
    <2>2. \A s \in Subjects : working[s] = NoDir
        BY <2>1 DEF SerialInv
    <2>3. MaxRow' = MaxRow
        BY <1>2 DEF MaxRow
    <2>. QED
        BY <1>1, <1>2, <2>1, <2>2, <2>3 DEF QuietInv, SnapshotsAreComplete, NothingBeyond,
           WorkingIsWhole, FinalizeProgress, ReloadProgress, ProjectStays, Copying
<1>. QED
    BY <1>3, <1>4

LEMMA QuietClear ==
    ASSUME OneAtATime, IInv, QuietInv, NEW r \in Requests, ReloadClear(r)
    PROVE  QuietInv' /\ pc' = pc /\ num' = num
<1>1. \A q \in Requests : q = r
    BY OnlyRequest
<1>. USE DEF IInv, TypeOK, RequestTypeOK, DiskTypeOK
<1>2. PICK s \in todo[r] : /\ working' = [working EXCEPT ![s] = NoDir]
                           /\ todo'[r] = todo[r] \ {s}
                           /\ UNCHANGED <<pc, listed, num, subj, art, rows, finalized, project>>
    BY DEF ReloadClear, ReloadProgress, QuietInv
<1>3. pc[r] = "clear" /\ MaxRow' = MaxRow
    BY <1>2 DEF ReloadClear, MaxRow
<1>4. WorkingIsWhole'
    BY <1>1, <1>2, <1>3, ContentsAssumption DEF WorkingIsWhole, QuietInv
<1>. QED
    BY <1>1, <1>2, <1>3, <1>4 DEF QuietInv, SnapshotsAreComplete, NothingBeyond,
       FinalizeProgress, ReloadProgress, ProjectStays, Copying

LEMMA QuietRestoreBegin ==
    ASSUME OneAtATime, IInv, QuietInv, NEW r \in Requests, RestoreBegin(r)
    PROVE  QuietInv' /\ pc'[r] = "restoring" /\ num' = num
<1>1. \A q \in Requests : q = r
    BY OnlyRequest
<1>. USE DEF IInv, TypeOK, RequestTypeOK, DiskTypeOK
<1>2. PICK s \in todo[r] : /\ working' = [working EXCEPT ![s] = Partial]
                           /\ subj'[r] = s /\ pc'[r] = "restoring"
                           /\ UNCHANGED <<todo, listed, num, art, rows, finalized, project>>
    BY DEF RestoreBegin, ReloadProgress, QuietInv, IsNext, Goto
<1>3. pc[r] = "restore" /\ MaxRow' = MaxRow
    BY <1>2 DEF RestoreBegin, MaxRow
<1>4. WorkingIsWhole'
    BY <1>1, <1>2, <1>3 DEF WorkingIsWhole, QuietInv
<1>5. ReloadProgress'
    BY <1>1, <1>2, <1>3 DEF ReloadProgress, QuietInv
<1>. QED
    BY <1>1, <1>2, <1>3, <1>4, <1>5 DEF QuietInv, SnapshotsAreComplete, NothingBeyond,
       FinalizeProgress, ProjectStays, Copying

LEMMA QuietRestoreEnd ==
    ASSUME OneAtATime, IInv, QuietInv, NEW r \in Requests, RestoreEnd(r)
    PROVE  QuietInv' /\ pc'[r] = "restore" /\ num' = num
<1>1. \A q \in Requests : q = r
    BY OnlyRequest
<1>. USE DEF IInv, TypeOK, RequestTypeOK, DiskTypeOK
<1>2. /\ pc[r] = "restoring" /\ subj[r] \in Subjects /\ subj[r] \in todo[r]
      /\ num[r] \in rows /\ working[subj[r]] # NoDir
    BY ContentsAssumption DEF RestoreEnd, RequestShape, ReloadProgress, QuietInv
<1>3. /\ working' = [working EXCEPT ![subj[r]] = finalized[num[r]][subj[r]]]
      /\ todo'[r] = todo[r] \ {subj[r]} /\ pc'[r] = "restore"
      /\ UNCHANGED <<listed, num, art, rows, finalized, project>>
    BY <1>2 DEF RestoreEnd, Goto
<1>4. MaxRow' = MaxRow
    BY <1>3 DEF MaxRow
<1>5. finalized[num[r]][subj[r]] # Partial
    BY <1>2 DEF SnapshotsAreComplete, QuietInv
<1>6. WorkingIsWhole'
    BY <1>1, <1>2, <1>3, <1>5 DEF WorkingIsWhole, QuietInv
<1>. QED
    BY <1>1, <1>2, <1>3, <1>4, <1>6 DEF QuietInv, SnapshotsAreComplete, NothingBeyond,
       FinalizeProgress, ReloadProgress, ProjectStays, Copying

LEMMA QuietRest ==
    ASSUME OneAtATime, IInv, SerialInv, QuietInv, NEW r \in Requests,
           \/ ReloadDone(r) \/ CreateProject(r)
           \/ DeleteProjectCheck(r) \/ DeleteProjectCommit(r)
    PROVE  QuietInv'
<1>1. \A q \in Requests : q = r
    BY OnlyRequest
<1>. USE DEF IInv, TypeOK, RequestTypeOK, DiskTypeOK
<1>2. /\ rows' = rows /\ finalized' = finalized /\ working' = working
      /\ pc[r] \in {"restore", "idle", "delete"}
      /\ pc'[r] \in {"idle", "delete"}
      /\ pc'[r] = "delete" => project' # 0
    BY DEF ReloadDone, CreateProject, DeleteProjectCheck, DeleteProjectCommit, Finish, Goto, SerialInv,
       locals
<1>3. \A s \in Subjects : working[s] # Partial
    <2>1. pc[r] = "restore" => \A s \in Subjects : working[s] = finalized[num[r]][s] /\ num[r] \in rows
        BY <1>2 DEF ReloadDone, CreateProject, DeleteProjectCheck, DeleteProjectCommit, SerialInv,
           ReloadProgress, QuietInv
    <2>. QED
        BY <1>1, <1>2, <2>1 DEF WorkingIsWhole, SnapshotsAreComplete, QuietInv
<1>. QED
    BY <1>1, <1>2, <1>3 DEF QuietInv, SnapshotsAreComplete, NothingBeyond, WorkingIsWhole,
       FinalizeProgress, ReloadProgress, ProjectStays, Copying

LEMMA QuietNext ==
    ASSUME OneAtATime, ~Faults, IInv, SerialInv, QuietInv, [Next]_vars
    PROVE  QuietInv'
<1>1. CASE UNCHANGED vars
    BY <1>1 DEF vars, locals, QuietInv, SnapshotsAreComplete, NothingBeyond, WorkingIsWhole,
       FinalizeProgress, ReloadProgress, ProjectStays, Copying, SubjectDirs, MaxRow
<1>2. ASSUME NEW r \in Requests, Step(r) \/ Arrive(r)
      PROVE  QuietInv'
    BY <1>2, QuietSave, QuietSaved, QuietFinalizeStart, QuietCopyBegin, QuietCopyEnd, QuietCommit,
       QuietReloadStart, QuietClear, QuietRestoreBegin, QuietRestoreEnd, QuietRest
    DEF Step, Arrive, IInv
<1>. QED
    BY <1>1, <1>2 DEF Next, Crash

(* The invariant of one request at a time that runs to its end. *)
THEOREM QuietInvariant == OneAtATime /\ ~Faults => (Spec => []QuietInv)
<1>. SUFFICES ASSUME OneAtATime, ~Faults PROVE Spec => []QuietInv
    OBVIOUS
<1>1. IInv /\ SerialInv /\ QuietInv /\ [Next]_vars => QuietInv'
    BY QuietNext
<1>. QED
    BY <1>1, QuietInit, InductiveInvariant, SerialInvariant, PTL DEF Spec

-----------------------------------------------------------------------------
(* The state of the ledger. *)

Snapshot(n) == [s \in Subjects |-> Visible(finalized[n][s])]

LEMMA WorkingAtRest ==
    ASSUME OneAtATime, NEW r \in Requests, pc[r] \notin {"clear", "restore", "restoring"}
    PROVE  AbstractWorking = [s \in Subjects |-> Visible(working[s])]
<1>1. Reloading = {}
    BY OnlyRequest DEF Reloading
<1>. QED
    BY <1>1 DEF AbstractWorking

LEMMA WorkingAtRestNext ==
    ASSUME OneAtATime, NEW r \in Requests, pc'[r] \notin {"clear", "restore", "restoring"}
    PROVE  AbstractWorking' = [s \in Subjects |-> Visible(working'[s])]
<1>1. Reloading' = {}
    BY OnlyRequest DEF Reloading
<1>. QED
    BY <1>1 DEF AbstractWorking, Visible

LEMMA WorkingReloading ==
    ASSUME OneAtATime, NEW r \in Requests, pc[r] \in {"clear", "restore", "restoring"}
    PROVE  AbstractWorking = Snapshot(num[r])
<1>1. Reloading = {r}
    BY OnlyRequest DEF Reloading
<1>2. (CHOOSE q \in Reloading : TRUE) = r
    BY <1>1
<1>. QED
    BY <1>1, <1>2 DEF AbstractWorking, Snapshot

LEMMA WorkingReloadingNext ==
    ASSUME OneAtATime, NEW r \in Requests, pc'[r] \in {"clear", "restore", "restoring"}
    PROVE  AbstractWorking' = [s \in Subjects |-> Visible(finalized'[num'[r]][s])]
<1>1. Reloading' = {r}
    BY OnlyRequest DEF Reloading
<1>2. (CHOOSE q \in Reloading' : TRUE) = r
    BY <1>1
<1>. QED
    BY <1>1, <1>2 DEF AbstractWorking, Visible

(* What is not an edit, a snapshot, a reload or the project's own life     *)
(* leaves the ledger's state alone.                                        *)
LEMMA Unseen ==
    ASSUME rows' = rows, \A n \in rows : finalized'[n] = finalized[n], project' = project,
           AbstractWorking' = AbstractWorking, NEW k \in Nat, rows = 1 .. k
    PROVE  UNCHANGED Ledger!vars
<1>1. Cardinality(rows) = k /\ Cardinality(rows') = k
    BY FS_Interval
<1>2. [n \in 1 .. Cardinality(rows) |-> [s \in Subjects |-> Visible(finalized[n][s])]]'
        = [n \in 1 .. Cardinality(rows) |-> [s \in Subjects |-> Visible(finalized[n][s])]]
    BY <1>1 DEF Visible
<1>. QED
    BY <1>2 DEF Ledger!vars

LEMMA EditOfWorking ==
    ASSUME TypeOK, NEW s \in Subjects, NEW d \in Dirs, NEW k \in Nat, rows = 1 .. k,
           working' = [working EXCEPT ![s] = d],
           rows' = rows, finalized' = finalized, project' = project,
           AbstractWorking = [t \in Subjects |-> Visible(working[t])],
           AbstractWorking' = [t \in Subjects |-> Visible(working'[t])]
    PROVE  Ledger!Edit
<1>1. Visible(d) \in Contents \cup {NoDir}
    BY DEF Visible, Dirs
<1>2. AbstractWorking' = [AbstractWorking EXCEPT ![s] = Visible(d)]
    BY DEF TypeOK, DiskTypeOK
<1>3. Cardinality(rows) = k /\ Cardinality(rows') = k
    BY FS_Interval
<1>4. [n \in 1 .. Cardinality(rows) |-> [t \in Subjects |-> Visible(finalized[n][t])]]'
        = [n \in 1 .. Cardinality(rows) |-> [t \in Subjects |-> Visible(finalized[n][t])]]
    BY <1>3 DEF Visible
<1>. QED
    BY <1>1, <1>2, <1>4 DEF Ledger!Edit

-----------------------------------------------------------------------------
(* Every step is a step of the ledger, or none. *)

LedgerStep == Ledger!Next \/ UNCHANGED Ledger!vars

LEMMA StepEdits ==
    ASSUME OneAtATime, IInv, SerialInv, NEW r \in Requests,
           \/ \E s \in Subjects, c \in Contents : SaveStart(r, s, c)
           \/ \E s \in Subjects : DeleteArtifact(r, s)
           \/ SaveWrite(r)
           \/ DeleteArtifactDir(r)
    PROVE  LedgerStep
<1>. USE DEF IInv, TypeOK, DiskTypeOK, RequestTypeOK
<1>1. /\ pc[r] \in {"idle", "save", "unlink"} /\ pc'[r] \in {"idle", "save", "unlink"}
      /\ rows' = rows /\ finalized' = finalized /\ project' = project
    BY DEF SaveStart, DeleteArtifact, SaveWrite, DeleteArtifactDir, Finish, Goto
<1>2. \E s \in Subjects, d \in Dirs : working' = [working EXCEPT ![s] = d]
    <2>1. ASSUME NEW s \in Subjects, NEW c \in Contents, SaveStart(r, s, c)
          PROVE  \E t \in Subjects, d \in Dirs : working' = [working EXCEPT ![t] = d]
        <3>1. (IF working[s] = NoDir THEN Partial ELSE working[s]) \in Dirs
            BY DEF Dirs
        <3>. QED
            BY <2>1, <3>1 DEF SaveStart
    <2>2. ASSUME NEW s \in Subjects, DeleteArtifact(r, s)
          PROVE  \E t \in Subjects, d \in Dirs : working' = [working EXCEPT ![t] = d]
        BY <2>2 DEF DeleteArtifact, Dirs
    <2>3. ASSUME SaveWrite(r)
          PROVE  \E t \in Subjects, d \in Dirs : working' = [working EXCEPT ![t] = d]
        <3>1. (IF working[subj[r]] = NoDir THEN NoDir ELSE art[r]) \in Dirs
            BY DEF Dirs, NoArt
        <3>. QED
            BY <2>3, <3>1 DEF SaveWrite, RequestShape
    <2>4. ASSUME DeleteArtifactDir(r)
          PROVE  \E t \in Subjects, d \in Dirs : working' = [working EXCEPT ![t] = d]
        <3>1. subj[r] \in Subjects /\ NoDir \in Dirs
            BY <2>4 DEF DeleteArtifactDir, RequestShape, Dirs
        <3>2. working = [working EXCEPT ![subj[r]] = working[subj[r]]]
            BY <3>1
        <3>. QED
            BY <2>4, <3>1, <3>2 DEF DeleteArtifactDir
    <2>. QED
        BY <2>1, <2>2, <2>3, <2>4
<1>3. PICK k \in 0 .. MaxNumber : rows = 1 .. k
    BY RowsAreCounted
<1>4. k \in Nat
    BY NumberAssumption
<1>. QED
    BY <1>1, <1>2, <1>3, <1>4, WorkingAtRest, WorkingAtRestNext, EditOfWorking
    DEF LedgerStep, Ledger!Next

LEMMA StepUnseen ==
    ASSUME OneAtATime, IInv, SerialInv, QuietInv, NEW r \in Requests,
           \/ FinalizeList(r) \/ FinalizeNumber(r) \/ CopyBegin(r) \/ CopyEnd(r)
           \/ ReloadDone(r) \/ DeleteProjectCheck(r)
    PROVE  LedgerStep
<1>. USE DEF IInv, TypeOK, DiskTypeOK, RequestTypeOK
<1>1. /\ pc'[r] \notin {"clear", "restore", "restoring"}
      /\ pc[r] \notin {"clear", "restore", "restoring"} \/ ReloadDone(r)
      /\ rows' = rows /\ project' = project /\ working' = working
    BY DEF FinalizeList, FinalizeNumber, CopyBegin, CopyEnd, ReloadDone, DeleteProjectCheck,
       Finish, Goto
<1>2. \A n \in rows : finalized'[n] = finalized[n]
    <2>1. num[r] \notin rows \/ finalized' = finalized
        BY DEF FinalizeList, FinalizeNumber, CopyBegin, CopyEnd, ReloadDone, DeleteProjectCheck,
           SerialInv, Copying
    <2>2. \A n \in Numbers \ {num[r]} : finalized'[n] = finalized[n]
        BY DEF FinalizeList, FinalizeNumber, CopyBegin, CopyEnd, ReloadDone, DeleteProjectCheck
    <2>. QED
        BY <2>1, <2>2 DEF DatabaseTypeOK
<1>3. AbstractWorking' = AbstractWorking
    <2>1. AbstractWorking' = [s \in Subjects |-> Visible(working[s])]
        BY <1>1, WorkingAtRestNext
    <2>2. CASE ReloadDone(r)
        <3>1. pc[r] = "restore" /\ \A s \in Subjects : working[s] = finalized[num[r]][s]
            BY <2>2 DEF ReloadDone, SerialInv
        <3>. QED
            BY <2>1, <3>1, WorkingReloading DEF Snapshot
    <2>3. CASE ~ReloadDone(r)
        BY <1>1, <2>1, <2>3, WorkingAtRest
    <2>. QED
        BY <2>2, <2>3
<1>4. PICK k \in 0 .. MaxNumber : rows = 1 .. k
    BY RowsAreCounted
<1>5. k \in Nat
    BY NumberAssumption
<1>. QED
    BY <1>1, <1>2, <1>3, <1>4, <1>5, Unseen DEF LedgerStep

(* A reload has already happened when it starts clearing. *)
LEMMA StepReloading ==
    ASSUME OneAtATime, IInv, SerialInv, QuietInv, NEW r \in Requests,
           ReloadClear(r) \/ ReloadList(r) \/ RestoreBegin(r) \/ RestoreEnd(r)
    PROVE  LedgerStep
<1>. USE DEF TypeOK, RequestTypeOK
<1>1. /\ pc[r] \in {"clear", "restore", "restoring"}
      /\ rows' = rows /\ project' = project /\ finalized' = finalized
    BY DEF ReloadClear, ReloadList, RestoreBegin, RestoreEnd
<1>2. pc'[r] \in {"clear", "restore", "restoring"} /\ num' = num
    <2>1. CASE ReloadList(r)
        BY <2>1 DEF ReloadList, Goto, IInv
    <2>. QED
        BY <1>1, <2>1, QuietClear, QuietRestoreBegin, QuietRestoreEnd
<1>3. AbstractWorking' = AbstractWorking
    BY <1>1, <1>2, WorkingReloading, WorkingReloadingNext DEF Snapshot
<1>4. PICK k \in 0 .. MaxNumber : rows = 1 .. k
    BY RowsAreCounted DEF IInv
<1>5. k \in Nat
    BY NumberAssumption
<1>. QED
    BY <1>1, <1>3, <1>4, <1>5, Unseen DEF LedgerStep

(* The ledger is a sequence, and one row more is one snapshot more. *)
LEMMA LengthOfLedger ==
    ASSUME NEW g, NEW k \in Nat
    PROVE  Len([n \in 1 .. k |-> g[n]]) = k
<1>. DEFINE S == {g[n] : n \in 1 .. k}
            f == [n \in 1 .. k |-> g[n]]
<1>1. f \in [1 .. k -> S]
    OBVIOUS
<1>. HIDE DEF f, S
<1>2. f \in Seq(S) /\ Len(f) = k
    BY <1>1
<1>. QED
    BY <1>2 DEF f

LEMMA OneMore ==
    ASSUME NEW g, NEW k \in Nat
    PROVE  [n \in 1 .. (k + 1) |-> g[n]] = Append([n \in 1 .. k |-> g[n]], g[k + 1])
<1>. DEFINE S == {g[n] : n \in 1 .. k}
            before == [n \in 1 .. k |-> g[n]]
<1>1. before \in [1 .. k -> S]
    OBVIOUS
<1>2. before \in Seq(S) /\ Len(before) = k
    <2>. HIDE DEF before, S
    <2>. QED
        BY <1>1
<1>3. \A n \in 1 .. k : before[n] = g[n]
    OBVIOUS
<1>. HIDE DEF before
<1>4. Append(before, g[k + 1]) = [n \in 1 .. (k + 1) |-> IF n <= k THEN before[n] ELSE g[k + 1]]
    BY <1>2
<1>. QED
    BY <1>3, <1>4 DEF before

LEMMA StepCommit ==
    ASSUME OneAtATime, IInv, SerialInv, QuietInv, NEW r \in Requests, FinalizeCommit(r)
    PROVE  LedgerStep
<1>. USE DEF IInv, TypeOK, DiskTypeOK, RequestTypeOK
<1>1. /\ pc[r] = "copy" /\ pc'[r] = "idle"
      /\ num[r] \in Numbers /\ num[r] \notin rows
      /\ UNCHANGED <<working, finalized, project>>
    BY DEF FinalizeCommit, Finish, RequestShape, SerialInv, Copying
<1>2. rows' = rows \cup {num[r]} /\ project # 0 /\ finalized[num[r]] = working
    BY QuietCommit
<1>3. PICK k \in 0 .. MaxNumber : rows = 1 .. k /\ num[r] <= k + 1
    BY <1>1 DEF NumbersInUse, SerialInv, Copying
<1>4. k \in Nat
    BY NumberAssumption
<1>5. num[r] = k + 1 /\ rows' = 1 .. (k + 1)
    BY <1>1, <1>2, <1>3, <1>4 DEF Numbers
<1>6. Cardinality(rows) = k /\ Cardinality(rows') = k + 1
    BY <1>3, <1>4, <1>5, FS_Interval
<1>7. AbstractWorking = Snapshot(k + 1)
    BY <1>1, <1>2, <1>5, WorkingAtRest DEF Snapshot
<1>8. AbstractWorking' = AbstractWorking
    BY <1>1, WorkingAtRest, WorkingAtRestNext
<1>. DEFINE before == [n \in 1 .. k |-> Snapshot(n)]
            after == [n \in 1 .. (k + 1) |-> Snapshot(n)]
<1>9. after = Append(before, Snapshot(k + 1))
    <2>. DEFINE g == [n \in 1 .. (k + 1) |-> Snapshot(n)]
    <2>1. \A n \in 1 .. (k + 1) : g[n] = Snapshot(n)
        OBVIOUS
    <2>2. after = [n \in 1 .. (k + 1) |-> g[n]] /\ before = [n \in 1 .. k |-> g[n]]
        BY <1>4, <2>1
    <2>3. k + 1 \in 1 .. (k + 1)
        BY <1>4
    <2>. HIDE DEF g, after, before
    <2>4. after = Append(before, g[k + 1])
        BY <1>4, <2>2, OneMore
    <2>. QED
        BY <2>1, <2>3, <2>4
<1>10. /\ [n \in 1 .. Cardinality(rows) |-> [s \in Subjects |-> Visible(finalized[n][s])]] = before
       /\ [n \in 1 .. Cardinality(rows) |-> [s \in Subjects |-> Visible(finalized[n][s])]]' = after
    BY <1>1, <1>6 DEF Snapshot, Visible
<1>11. \E s \in Subjects : AbstractWorking[s] # NoDir
    <2>1. \E s \in Subjects : working[s] # NoDir
        BY <1>1 DEF FinalizeProgress, QuietInv, RequestShape, SubjectDirs
    <2>2. \A s \in Subjects : working[s] # Partial
        BY <1>1, OnlyRequest DEF WorkingIsWhole, QuietInv
    <2>3. AbstractWorking = [s \in Subjects |-> Visible(working[s])]
        BY <1>1, WorkingAtRest
    <2>. QED
        BY <2>1, <2>2, <2>3 DEF Visible
<1>12. Ledger!Snapshot
    BY <1>1, <1>2, <1>7, <1>8, <1>9, <1>10, <1>11 DEF Ledger!Snapshot
<1>. QED
    BY <1>12 DEF LedgerStep, Ledger!Next

LEMMA StepReload ==
    ASSUME OneAtATime, IInv, SerialInv, NEW r \in Requests, ReloadStart(r)
    PROVE  LedgerStep
<1>. USE DEF IInv, TypeOK, DiskTypeOK, RequestTypeOK
<1>1. /\ pc'[r] = "clear" /\ num'[r] = MaxRow /\ project # 0 /\ rows # {}
      /\ UNCHANGED <<rows, finalized, project>>
    BY DEF ReloadStart, Goto, MaxRow
<1>2. PICK k \in 0 .. MaxNumber : rows = 1 .. k /\ MaxRow = k
    BY RowsAreCounted
<1>3. k \in Nat /\ k # 0
    BY <1>1, <1>2, NumberAssumption
<1>4. Cardinality(rows) = k
    BY <1>2, <1>3, FS_Interval
<1>5. AbstractWorking' = Snapshot(k)
    BY <1>1, <1>2, WorkingReloadingNext DEF Snapshot
<1>. DEFINE ledger == [n \in 1 .. Cardinality(rows) |-> [s \in Subjects |-> Visible(finalized[n][s])]]
<1>6. ledger = [n \in 1 .. k |-> Snapshot(n)] /\ ledger' = ledger
    BY <1>1, <1>4 DEF Snapshot, Visible
<1>7. Len(ledger) = k /\ ledger[k] = Snapshot(k) /\ ledger # <<>>
    <2>. DEFINE g == [n \in 1 .. k |-> Snapshot(n)]
    <2>1. ledger = g /\ g = [n \in 1 .. k |-> g[n]] /\ g[k] = Snapshot(k)
        <3>1. ledger = g
            BY <1>6
        <3>2. g[k] = Snapshot(k)
            BY <1>3
        <3>3. g = [n \in 1 .. k |-> g[n]]
            OBVIOUS
        <3>. QED
            BY <3>1, <3>2, <3>3
    <2>. HIDE DEF g, ledger
    <2>2. Len(ledger) = k
        BY <1>3, <2>1, LengthOfLedger
    <2>. QED
        BY <1>3, <2>1, <2>2
<1>8. Ledger!Reload
    BY <1>1, <1>5, <1>6, <1>7 DEF Ledger!Reload
<1>. QED
    BY <1>8 DEF LedgerStep, Ledger!Next

LEMMA StepProject ==
    ASSUME OneAtATime, IInv, SerialInv, QuietInv, NEW r \in Requests,
           CreateProject(r) \/ DeleteProjectCommit(r)
    PROVE  LedgerStep
<1>. USE DEF IInv, TypeOK, DiskTypeOK, RequestTypeOK
<1>1. /\ pc[r] \in {"idle", "delete"} /\ pc'[r] = "idle"
      /\ rows' = rows /\ UNCHANGED <<finalized, working>>
    BY DEF CreateProject, DeleteProjectCommit, Finish, SerialInv, locals
<1>2. AbstractWorking' = AbstractWorking
    BY <1>1, WorkingAtRest, WorkingAtRestNext
<1>. DEFINE ledger == [n \in 1 .. Cardinality(rows) |-> [s \in Subjects |-> Visible(finalized[n][s])]]
<1>3. ledger' = ledger
    BY <1>1 DEF Visible
<1>4. CASE CreateProject(r)
    <2>1. project = 0 /\ project' # 0
        BY <1>4 DEF CreateProject, DatabaseTypeOK
    <2>2. Ledger!Open
        BY <1>2, <1>3, <2>1 DEF Ledger!Open
    <2>. QED
        BY <2>2 DEF LedgerStep, Ledger!Next
<1>5. CASE DeleteProjectCommit(r)
    <2>1. project # 0 /\ project' = 0 /\ rows = {}
        BY <1>5 DEF DeleteProjectCommit, SerialInv, QuietInv, ProjectStays
    <2>2. rows = 1 .. 0 /\ Cardinality(rows) = 0
        BY <2>1, FS_EmptySet
    <2>3. ledger = <<>>
        BY <2>2
    <2>4. Ledger!Close
        BY <1>2, <1>3, <2>1, <2>3 DEF Ledger!Close
    <2>. QED
        BY <2>4 DEF LedgerStep, Ledger!Next
<1>. QED
    BY <1>4, <1>5

LEMMA LedgerNext ==
    ASSUME OneAtATime, ~Faults, IInv, SerialInv, QuietInv, [Next]_vars
    PROVE  LedgerStep
<1>1. CASE UNCHANGED vars
    BY <1>1 DEF vars, locals, LedgerStep, Ledger!vars, AbstractWorking, Reloading, Visible
<1>2. ASSUME NEW r \in Requests, Step(r) \/ Arrive(r)
      PROVE  LedgerStep
    BY <1>2, StepEdits, StepUnseen, StepReloading, StepCommit, StepReload, StepProject
    DEF Step, Arrive
<1>. QED
    BY <1>1, <1>2 DEF Next, Crash

LEMMA LedgerInit == Init => Ledger!Init
<1>. SUFFICES ASSUME Init PROVE Ledger!Init
    OBVIOUS
<1>1. Reloading = {}
    BY DEF Init, Reloading
<1>2. AbstractWorking = [s \in Subjects |-> NoDir]
    BY <1>1, ContentsAssumption DEF Init, AbstractWorking, Visible
<1>3. Cardinality(rows) = 0
    BY FS_EmptySet DEF Init
<1>4. [n \in 1 .. Cardinality(rows) |-> [s \in Subjects |-> Visible(finalized[n][s])]] = <<>>
    BY <1>3
<1>. QED
    BY <1>2, <1>4 DEF Init, Ledger!Init

(* Finalize and reload, as the files and rows carry them out one request   *)
(* at a time, are the ledger's single steps.                               *)
THEOREM LedgerIsImplemented == OneAtATime /\ ~Faults => (Spec => ImplementsLedger)
<1>. SUFFICES ASSUME OneAtATime, ~Faults PROVE Spec => ImplementsLedger
    OBVIOUS
<1>1. IInv /\ SerialInv /\ QuietInv /\ [Next]_vars => [Ledger!Next]_(Ledger!vars)
    BY LedgerNext DEF LedgerStep
<1>. QED
    BY <1>1, LedgerInit, InductiveInvariant, SerialInvariant, QuietInvariant, PTL
    DEF Spec, ImplementsLedger, Ledger!Spec
=============================================================================
