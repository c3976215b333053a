--------------------------- MODULE EvidenceProofs ---------------------------
(***************************************************************************)
(* Proofs about Migrations, for every set of programs, every sequence of   *)
(* migration files and any number of crashes, and then about Evidence,     *)
(* which is served after them, for every catalog and every set of          *)
(* projects: what a collection stores, what its page shows, and that row   *)
(* verdicts are the verdicts of the rows they are shown with.              *)
(***************************************************************************)
EXTENDS Evidence, SequenceLemmas

(* The bootstrap.                                                           *)

Boots == [pc : {"down", "applying", "up"}, known : SUBSET DOMAIN Files, file : Nat, stmt : Nat]

-----------------------------------------------------------------------------
(* The files and the boot records. *)

LEMMA FileFields ==
    ASSUME NEW f \in DOMAIN Files
    PROVE  Files[f].len \in Nat /\ Files[f].atomic \in BOOLEAN /\ f \in Nat
<1> DEFINE Migration == [len : Nat, atomic : BOOLEAN, once : BOOLEAN]
<1>1. Files \in Seq(Migration)
  BY MigrationsAssumption
<1> HIDE DEF Migration
<1>2. f \in 1..Len(Files) /\ Files[f] \in Migration
  BY <1>1
<1>3. QED
  BY <1>2 DEF Migration

LEMMA DownIsABoot == Down \in Boots /\ [Down EXCEPT !.pc = "up"] \in Boots
  BY DEF Down, Boots

(* A program that is put down disturbs nothing of the others. *)
LEMMA DownKeeps ==
    ASSUME MigrationsIInv, NEW p \in Processes,
           boot' = [boot EXCEPT ![p] = Down],
           done' = done, applied' = applied, kills' \in 0..MaxKills
    PROVE  MigrationsIInv'
<1>1. MigrationsTypeOK'
  BY DownIsABoot DEF MigrationsIInv, MigrationsTypeOK, Boots
<1>2. RecordedIsDone'
  BY DEF MigrationsIInv, RecordedIsDone
<1>3. BootFollowsFiles'
  BY DEF MigrationsIInv, MigrationsTypeOK, BootFollowsFiles, Down
<1>4. ServesComplete'
  BY DEF MigrationsIInv, MigrationsTypeOK, ServesComplete, Down
<1>5. QED
  BY <1>1, <1>2, <1>3, <1>4 DEF MigrationsIInv

-----------------------------------------------------------------------------
(* One lemma per action. *)

LEMMA InitHolds == MigrationsInit => MigrationsIInv
<1> SUFFICES ASSUME MigrationsInit PROVE MigrationsIInv
  OBVIOUS
<1>1. MigrationsTypeOK
  BY MigrationsAssumption, DownIsABoot DEF MigrationsInit, MigrationsTypeOK, Boots
<1>2. RecordedIsDone
  BY FileFields DEF MigrationsInit, RecordedIsDone
<1>3. BootFollowsFiles /\ ServesComplete
  BY DEF MigrationsInit, BootFollowsFiles, ServesComplete, Down
<1>4. QED
  BY <1>1, <1>2, <1>3 DEF MigrationsIInv

LEMMA BootStartKeeps ==
    ASSUME MigrationsIInv, NEW p \in Processes, BootStart(p)
    PROVE  MigrationsIInv'
<1> DEFINE new == [pc |-> "applying", known |-> applied, file |-> 1, stmt |-> 0]
<1>1. boot' = [boot EXCEPT ![p] = new] /\ UNCHANGED <<done, applied, kills>>
  BY DEF BootStart
<1>2. MigrationsTypeOK'
  BY <1>1 DEF MigrationsIInv, MigrationsTypeOK
<1>3. RecordedIsDone'
  BY <1>1 DEF MigrationsIInv, RecordedIsDone
<1>4. BootFollowsFiles'
  BY <1>1, FileFields, MigrationsAssumption DEF MigrationsIInv, MigrationsTypeOK, BootFollowsFiles
<1>5. ServesComplete'
  BY <1>1 DEF MigrationsIInv, MigrationsTypeOK, ServesComplete
<1>6. QED
  BY <1>2, <1>3, <1>4, <1>5 DEF MigrationsIInv

LEMMA SkipKeeps ==
    ASSUME MigrationsIInv, NEW p \in Processes, Skip(p)
    PROVE  MigrationsIInv'
<1>1. /\ boot[p].pc = "applying" /\ boot[p].file \in boot[p].known
      /\ boot' = [boot EXCEPT ![p].file = @ + 1]
      /\ UNCHANGED <<done, applied, kills>>
  BY DEF Skip
<1>2. MigrationsTypeOK'
  BY <1>1 DEF MigrationsIInv, MigrationsTypeOK
<1>3. RecordedIsDone'
  BY <1>1 DEF MigrationsIInv, RecordedIsDone
<1>4. BootFollowsFiles'
  <2> SUFFICES ASSUME NEW q \in Processes, boot'[q].pc = "applying"
               PROVE  /\ boot'[q].known \subseteq applied
                      /\ \A f \in DOMAIN Files : f < boot'[q].file => f \in applied
                      /\ boot'[q].file \in DOMAIN Files => boot'[q].stmt <= done[boot'[q].file]
                      /\ boot'[q].file \in boot'[q].known => boot'[q].stmt = 0
    BY <1>1 DEF BootFollowsFiles
  <2>1. CASE q # p
    BY <1>1, <2>1 DEF MigrationsIInv, MigrationsTypeOK, BootFollowsFiles
  <2>2. CASE q = p
    <3>1. /\ boot'[p].file = boot[p].file + 1
          /\ boot'[p].stmt = boot[p].stmt /\ boot'[p].known = boot[p].known
      BY <1>1 DEF MigrationsIInv, MigrationsTypeOK
    <3>2. boot[p].stmt = 0 /\ boot[p].known \subseteq applied
      BY <1>1 DEF MigrationsIInv, BootFollowsFiles
    <3>3. \A f \in DOMAIN Files : f < boot[p].file => f \in applied
      BY <1>1 DEF MigrationsIInv, BootFollowsFiles
    <3>4. boot[p].file \in applied /\ boot[p].file \in Nat
      BY <1>1, <3>2 DEF MigrationsIInv, MigrationsTypeOK
    <3>5. \A f \in DOMAIN Files : f < boot[p].file + 1 => f \in applied
      BY <3>3, <3>4, FileFields
    <3>6. \A f \in DOMAIN Files : 0 <= done[f]
      BY DEF MigrationsIInv, MigrationsTypeOK
    <3>7. QED
      BY <2>2, <3>1, <3>2, <3>5, <3>6
  <2>3. QED
    BY <2>1, <2>2
<1>5. ServesComplete'
  BY <1>1 DEF MigrationsIInv, MigrationsTypeOK, ServesComplete
<1>6. QED
  BY <1>2, <1>3, <1>4, <1>5 DEF MigrationsIInv

LEMMA ExecuteKeeps ==
    ASSUME MigrationsIInv, NEW p \in Processes, Execute(p)
    PROVE  MigrationsIInv'
<1> DEFINE f == boot[p].file
           last == IF Files[f].atomic THEN Files[f].len ELSE boot[p].stmt + 1
<1>1. /\ boot[p].pc = "applying" /\ f \in DOMAIN Files \ boot[p].known
      /\ boot[p].stmt < Files[f].len
      /\ applied' = applied /\ kills' = kills
  BY DEF Execute
<1>2. boot[p].stmt \in Nat /\ done[f] \in Nat /\ f \in Nat /\ Files[f].len \in Nat
  BY <1>1, FileFields DEF MigrationsIInv, MigrationsTypeOK
<1>3. last \in Nat /\ last <= Files[f].len
  BY <1>1, <1>2
<1>4. CASE boot' = [boot EXCEPT ![p] = Down] /\ done' = done
  BY <1>1, <1>4, DownKeeps DEF MigrationsIInv, MigrationsTypeOK
<1>5. CASE /\ boot' = [boot EXCEPT ![p].stmt = last]
           /\ done' = [done EXCEPT ![f] = IF last > @ THEN last ELSE @]
  <2> HIDE DEF last
  <2>1. MigrationsTypeOK'
    BY <1>1, <1>2, <1>3, <1>5 DEF MigrationsIInv, MigrationsTypeOK
  <2>2. \A g \in DOMAIN Files : /\ done'[g] \in Nat /\ done[g] \in Nat
                                /\ done[g] <= done'[g] /\ done'[g] <= Files[g].len
    <3> SUFFICES ASSUME NEW g \in DOMAIN Files
                 PROVE  /\ done'[g] \in Nat /\ done[g] \in Nat
                        /\ done[g] <= done'[g] /\ done'[g] <= Files[g].len
      OBVIOUS
    <3>1. done[g] \in Nat /\ done[g] <= Files[g].len
      BY DEF MigrationsIInv, MigrationsTypeOK, RecordedIsDone
    <3>2. done'[g] = IF g = f /\ last > done[g] THEN last ELSE done[g]
      BY <1>1, <1>5 DEF MigrationsIInv, MigrationsTypeOK
    <3>3. QED
      BY <1>3, <3>1, <3>2
  <2>3. RecordedIsDone'
    BY <1>1, <2>2, FileFields DEF MigrationsIInv, RecordedIsDone
  <2>4. last <= done'[f]
    BY <1>1, <1>2, <1>3, <1>5 DEF MigrationsIInv, MigrationsTypeOK
  <2>5. BootFollowsFiles'
    <3> SUFFICES ASSUME NEW q \in Processes, boot'[q].pc = "applying"
                 PROVE  /\ boot'[q].known \subseteq applied
                        /\ \A g \in DOMAIN Files : g < boot'[q].file => g \in applied
                        /\ boot'[q].file \in DOMAIN Files => boot'[q].stmt <= done'[boot'[q].file]
                        /\ boot'[q].file \in boot'[q].known => boot'[q].stmt = 0
      BY <1>1 DEF BootFollowsFiles
    <3>1. CASE q # p
      <4>1. boot'[q] = boot[q] /\ boot[q].stmt \in Nat
        BY <1>5, <3>1 DEF MigrationsIInv, MigrationsTypeOK
      <4>2. boot[q].file \in DOMAIN Files => boot[q].stmt <= done[boot[q].file]
        BY <4>1 DEF MigrationsIInv, BootFollowsFiles
      <4>3. boot[q].file \in DOMAIN Files => boot[q].stmt <= done'[boot[q].file]
        BY <4>1, <4>2, <2>2
      <4>4. QED
        BY <4>1, <4>3 DEF MigrationsIInv, BootFollowsFiles
    <3>2. CASE q = p
      <4>1. boot'[p].stmt = last /\ boot'[p].file = f /\ boot'[p].known = boot[p].known
        BY <1>5 DEF MigrationsIInv, MigrationsTypeOK
      <4>2. QED
        BY <1>1, <2>4, <3>2, <4>1 DEF MigrationsIInv, BootFollowsFiles
    <3>3. QED
      BY <3>1, <3>2
  <2>6. ServesComplete'
    <3> SUFFICES ASSUME NEW q \in Processes, boot'[q].pc = "up"
                 PROVE  applied = DOMAIN Files /\ \A g \in DOMAIN Files : done'[g] = Files[g].len
      BY <1>1 DEF ServesComplete
    <3>1. boot[q].pc = "up"
      BY <1>5 DEF MigrationsIInv, MigrationsTypeOK
    <3>2. applied = DOMAIN Files
      BY <3>1 DEF MigrationsIInv, ServesComplete
    <3>3. QED
      BY <1>1, <2>3, <3>2 DEF RecordedIsDone
  <2>7. QED
    BY <2>1, <2>3, <2>5, <2>6 DEF MigrationsIInv
<1>6. QED
  BY <1>4, <1>5 DEF Execute

LEMMA RecordKeeps ==
    ASSUME MigrationsIInv, NEW p \in Processes, Record(p)
    PROVE  MigrationsIInv'
<1> DEFINE f == boot[p].file
<1>1. /\ boot[p].pc = "applying" /\ f \in DOMAIN Files \ boot[p].known
      /\ boot[p].stmt = Files[f].len /\ applied' = applied \cup {f}
      /\ done' = done /\ kills' = kills
  BY DEF Record
<1>2. done[f] = Files[f].len /\ f \in Nat /\ boot[p].stmt \in Nat
  <2>1. done[f] \in Nat /\ boot[p].stmt <= done[f] /\ done[f] <= Files[f].len
    BY <1>1 DEF MigrationsIInv, MigrationsTypeOK, RecordedIsDone, BootFollowsFiles
  <2>2. QED
    BY <1>1, <2>1, FileFields
<1>3. CASE f \in applied
  <2>1. applied' = applied /\ boot' = [boot EXCEPT ![p] = Down]
    BY <1>1, <1>3 DEF Record
  <2>2. QED
    BY <1>1, <2>1, DownKeeps DEF MigrationsIInv, MigrationsTypeOK
<1>4. CASE f \notin applied
  <2>1. boot' = [boot EXCEPT ![p] = [@ EXCEPT !.file = f + 1, !.stmt = 0]]
    BY <1>4 DEF Record
  <2>2. MigrationsTypeOK'
    <3> DEFINE next == [boot[p] EXCEPT !.file = f + 1, !.stmt = 0]
    <3>1. boot[p] \in Boots
      BY DEF MigrationsIInv, MigrationsTypeOK, Boots
    <3>2. next \in Boots
      <4>1. \A b \in Boots, n \in Nat : [b EXCEPT !.file = n, !.stmt = 0] \in Boots
        BY DEF Boots
      <4>2. f + 1 \in Nat
        BY <1>2
      <4>3. QED
        BY <3>1, <4>1, <4>2
    <3>3. boot' = [boot EXCEPT ![p] = next]
      BY <2>1 DEF MigrationsIInv, MigrationsTypeOK
    <3> HIDE DEF next
    <3>4. boot' \in [Processes -> Boots]
      BY <3>2, <3>3 DEF MigrationsIInv, MigrationsTypeOK, Boots
    <3>5. QED
      BY <1>1, <3>4 DEF MigrationsIInv, MigrationsTypeOK, Boots
  <2>3. RecordedIsDone'
    BY <1>1, <1>2 DEF MigrationsIInv, RecordedIsDone
  <2>4. BootFollowsFiles'
    <3> SUFFICES ASSUME NEW q \in Processes, boot'[q].pc = "applying"
                 PROVE  /\ boot'[q].known \subseteq applied'
                        /\ \A g \in DOMAIN Files : g < boot'[q].file => g \in applied'
                        /\ boot'[q].file \in DOMAIN Files => boot'[q].stmt <= done[boot'[q].file]
                        /\ boot'[q].file \in boot'[q].known => boot'[q].stmt = 0
      BY <1>1 DEF BootFollowsFiles
    <3>1. CASE q # p
      <4>1. boot'[q] = boot[q]
        BY <2>1, <3>1 DEF MigrationsIInv, MigrationsTypeOK
      <4>2. QED
        BY <1>1, <4>1 DEF MigrationsIInv, BootFollowsFiles
    <3>2. CASE q = p
      <4>1. boot'[p].file = f + 1 /\ boot'[p].stmt = 0 /\ boot'[p].known = boot[p].known
        BY <2>1 DEF MigrationsIInv, MigrationsTypeOK
      <4>2. \A g \in DOMAIN Files : g < f => g \in applied
        BY <1>1 DEF MigrationsIInv, BootFollowsFiles
      <4>3. \A g \in DOMAIN Files : g < f + 1 => g \in applied'
        BY <1>1, <1>2, <4>2, FileFields
      <4>4. \A g \in DOMAIN Files : 0 <= done[g]
        BY DEF MigrationsIInv, MigrationsTypeOK
      <4>5. boot[p].known \subseteq applied'
        BY <1>1 DEF MigrationsIInv, BootFollowsFiles
      <4>6. QED
        BY <3>2, <4>1, <4>3, <4>4, <4>5
    <3>3. QED
      BY <3>1, <3>2
  <2>5. ServesComplete'
    <3>1. \A q \in Processes : boot[q].pc # "up"
      BY <1>1, <1>4 DEF MigrationsIInv, ServesComplete
    <3>2. \A q \in Processes : boot'[q].pc # "up"
      BY <1>1, <2>1, <3>1 DEF MigrationsIInv, MigrationsTypeOK
    <3>3. QED
      BY <3>2 DEF ServesComplete
  <2>6. QED
    BY <2>2, <2>3, <2>4, <2>5 DEF MigrationsIInv
<1>5. QED
  BY <1>3, <1>4

LEMMA BootDoneKeeps ==
    ASSUME MigrationsIInv, NEW p \in Processes, BootDone(p)
    PROVE  MigrationsIInv'
<1>1. /\ boot[p].pc = "applying" /\ boot[p].file > Len(Files)
      /\ boot' = [boot EXCEPT ![p] = [Down EXCEPT !.pc = "up"]]
      /\ kills' \in {MaxKills, kills}
      /\ UNCHANGED <<done, applied>>
  BY DEF BootDone
<1>2. applied = DOMAIN Files
  <2>1. \A f \in DOMAIN Files : f < boot[p].file => f \in applied
    BY <1>1 DEF MigrationsIInv, BootFollowsFiles
  <2>2. boot[p].file \in Nat /\ Len(Files) \in Nat /\ DOMAIN Files = 1..Len(Files)
    BY MigrationsAssumption DEF MigrationsIInv, MigrationsTypeOK
  <2>3. DOMAIN Files \subseteq applied
    BY <1>1, <2>1, <2>2
  <2>4. QED
    BY <2>3 DEF MigrationsIInv, MigrationsTypeOK
<1>3. MigrationsTypeOK'
  <2>1. boot' \in [Processes -> Boots]
    BY <1>1, DownIsABoot DEF MigrationsIInv, MigrationsTypeOK, Boots
  <2>2. kills' \in 0..MaxKills
    BY <1>1, MigrationsAssumption DEF MigrationsIInv, MigrationsTypeOK
  <2>3. QED
    BY <1>1, <2>1, <2>2 DEF MigrationsIInv, MigrationsTypeOK, Boots
<1>4. RecordedIsDone'
  BY <1>1 DEF MigrationsIInv, RecordedIsDone
<1>5. BootFollowsFiles'
  BY <1>1 DEF MigrationsIInv, MigrationsTypeOK, BootFollowsFiles, Down
<1>6. ServesComplete'
  BY <1>1, <1>2 DEF MigrationsIInv, RecordedIsDone, ServesComplete
<1>7. QED
  BY <1>3, <1>4, <1>5, <1>6 DEF MigrationsIInv

LEMMA KillKeeps ==
    ASSUME MigrationsIInv, NEW p \in Processes, Kill(p)
    PROVE  MigrationsIInv'
<1>1. kills' \in 0..MaxKills
  BY MigrationsAssumption DEF Kill, MigrationsIInv, MigrationsTypeOK
<1>2. QED
  BY <1>1, DownKeeps DEF Kill

LEMMA MigrationsStep ==
    ASSUME MigrationsIInv, [MigrationsNext]_migrationVars
    PROVE  MigrationsIInv'
<1>1. CASE MigrationsNext
  BY <1>1, BootStartKeeps, SkipKeeps, ExecuteKeeps, RecordKeeps, BootDoneKeeps, KillKeeps
     DEF MigrationsNext
<1>2. CASE UNCHANGED migrationVars
  BY <1>2 DEF migrationVars, MigrationsIInv, MigrationsTypeOK, RecordedIsDone,
              BootFollowsFiles, ServesComplete
<1>3. QED
  BY <1>1, <1>2

-----------------------------------------------------------------------------
(* The bookkeeping of the migrations is right in every reachable state     *)
(* (run_migrations).                                                       *)
THEOREM MigrationsInvariant == MigrationsSpec => []MigrationsIInv
<1>1. MigrationsInit => MigrationsIInv
  BY InitHolds
<1>2. MigrationsIInv /\ [MigrationsNext]_migrationVars => MigrationsIInv'
  BY MigrationsStep
<1>3. QED
  BY <1>1, <1>2, PTL DEF MigrationsSpec

(* A program that serves has every migration in its database, completely,  *)
(* however boots interleave and wherever they are killed (run_migrations). *)
THEOREM ServingIsComplete == MigrationsSpec => []ServesComplete
<1>1. MigrationsIInv => ServesComplete
  BY DEF MigrationsIInv
<1>2. QED
  BY <1>1, MigrationsInvariant, PTL

-----------------------------------------------------------------------------
(* The evidence served after it.                                            *)

(* Collecting and judging leave the database's bootstrap alone. *)
LEMMA ServeKeepsMigrations == Serve => UNCHANGED migrationVars
  BY DEF Serve, SelectProject, Bind, CollectBegin, CollectSection, CollectStore, Midnight, migrationVars

LEMMA EvidenceStep == [Next]_vars => [MigrationsNext]_migrationVars
  BY ServeKeepsMigrations DEF Next, vars, migrationVars

(* The programs that collect, judge and show evidence go through the       *)
(* bootstrap of Migrations and nothing else touches it.                    *)
THEOREM EvidenceBoots == Spec => MigrationsSpec
<1>1. Init => MigrationsInit
  BY DEF Init
<1>2. [Next]_vars => [MigrationsNext]_migrationVars
  BY EvidenceStep
<1>3. QED
  BY <1>1, <1>2, PTL DEF Spec, MigrationsSpec

(* Whatever a program collects, judges or shows, it does on a database     *)
(* that has every migration, completely (run_migrations).                  *)
THEOREM EvidenceIsServedComplete == Spec => []ServesComplete
  BY EvidenceBoots, ServingIsComplete, PTL

-----------------------------------------------------------------------------
(* The rules a collection loads. *)

LEMMA LoadedRules ==
    ASSUME NEW rules \in SUBSET RuleIds
    PROVE  LET loaded == load_subject_row_rules(rules)
           IN  /\ DOMAIN loaded \subseteq {Table}
               /\ rules = {} => DOMAIN loaded = {}
               /\ rules # {} => /\ DOMAIN loaded = {Table}
                                /\ {r.rule_id : r \in Range(loaded[Table])} = rules
<1>1. CASE rules = {}
  BY <1>1 DEF load_subject_row_rules
<1>2. CASE rules # {}
  <2> DEFINE n == Cardinality(rules)
             f == SetToSeq(rules)
             loaded == load_subject_row_rules(rules)
  <2>1. IsFiniteSet(rules)
    BY EvidenceAssumption, FS_Subset DEF RuleIds
  <2>2. n \in Nat /\ \E g \in [1 .. n -> rules] : IsInjective(g)
    BY <2>1, FS_CardinalityType DEF ExistsBijection, Bijection, Injection
  <2>3. f \in Injection(1 .. n, rules)
    BY <2>2 DEF SetToSeq, Injection
  <2>4. IsFiniteSet(1 .. n) /\ Cardinality(1 .. n) = n
    BY <2>2, FS_Interval
  <2>5. f \in Surjection(1 .. n, rules)
    BY <2>1, <2>3, <2>4, FS_Injection
  <2>6. loaded = [s \in {Table} |-> [i \in 1 .. n |-> RowRules[f[i]]]]
    BY <1>2 DEF load_subject_row_rules
  <2>7. Range(loaded[Table]) = {RowRules[f[i]] : i \in 1 .. n}
    BY <2>6 DEF Range
  <2>8. \A i \in 1 .. n : f[i] \in rules /\ RowRules[f[i]].rule_id = f[i]
    BY <2>3, EvidenceAssumption DEF Injection, RuleIds
  <2>9. \A r \in rules : \E i \in 1 .. n : f[i] = r
    BY <2>5 DEF Surjection
  <2> HIDE DEF f, n
  <2>10. {r.rule_id : r \in Range(loaded[Table])} = rules
    BY <2>7, <2>8, <2>9
  <2>11. DOMAIN loaded = {Table}
    BY <2>6
  <2>12. QED
    BY <2>10, <2>11, <1>2
<1>3. QED
  BY <1>1, <1>2

-----------------------------------------------------------------------------
(* What a collection stores. *)

Judged(j, d) == [s \in DOMAIN j.row_rules |->
                evaluate_section_rows(j.row_rules[s], RowsOf(j, s), ScopeOf(j, s), d)]

LEMMA ArtifactParts ==
    ASSUME NEW d, NEW j, NEW a \in result_to_artifact(j, d)
    PROVE  \E built : /\ DOMAIN built = DOMAIN j.sections
                      /\ \A s \in DOMAIN built : built[s] \in build_section(j, s)
                      /\ a = assemble_artifact(j, built, Judged(j, d), d)
<1> DEFINE parts == [s \in DOMAIN j.sections |-> build_section(j, s)]
           built == [s \in DOMAIN parts |-> CHOOSE b \in parts[s] : TRUE]
<1>1. {} \notin Range(parts) /\ a = assemble_artifact(j, built, Judged(j, d), d)
  BY DEF result_to_artifact, artifact_of_parts, Judged
<1>2. \A s \in DOMAIN parts : parts[s] # {}
  BY <1>1 DEF Range
<1>3. \A s \in DOMAIN built : built[s] \in build_section(j, s)
  BY <1>2
<1>4. DOMAIN built = DOMAIN j.sections
  OBVIOUS
<1>5. QED
  BY <1>1, <1>3, <1>4

LEMMA ArtifactSections ==
    ASSUME NEW d, NEW j, NEW built, NEW judged
    PROVE  LET a == assemble_artifact(j, built, judged, d)
           IN  /\ a.sections = enrich_commcell_info(built, j.commcell_name)
               /\ a.failures = j.failures /\ a.imported_at = d
  BY DEF assemble_artifact

LEMMA ArtifactFindings ==
    ASSUME NEW d, NEW j, NEW built, NEW judged
    PROVE  LET a == assemble_artifact(j, built, judged, d)
           IN  /\ a.compliance = UNION {{build_compliance_finding(s, f) : f \in judged[s].findings} :
                                          s \in DOMAIN judged}
               /\ \A s \in DOMAIN a.verdicts : a.verdicts[s] = judged[s].per_row
  BY DEF assemble_artifact

LEMMA ArtifactChecks ==
    ASSUME NEW d, NEW j, NEW built, NEW judged
    PROVE  LET a == assemble_artifact(j, built, judged, d)
           IN  /\ DOMAIN a.evaluation = DOMAIN judged
               /\ \A s \in DOMAIN judged : a.evaluation[s].checks =
                    {[rule_id |-> r.rule_id, severity |-> r.severity] : r \in Range(j.row_rules[s])}
  BY DEF assemble_artifact

(* Enrichment leaves the table alone that rules are bound to. *)
LEMMA EnrichKeepsTable ==
    ASSUME NEW built, NEW name
    PROVE  LET sections == enrich_commcell_info(built, name)
           IN  /\ Table \in DOMAIN sections <=> Table \in DOMAIN built
               /\ Table \in DOMAIN built => sections[Table] = built[Table]
  BY DEF enrich_commcell_info, Table

LEMMA TableIsBuilt ==
    ASSUME NEW j, j.spec = Recipe, Table \in DOMAIN j.sections, NEW b \in build_section(j, Table)
    PROVE  b.type = "table" /\ b.items = j.sections[Table]
  BY EvidenceAssumption DEF build_section

LEMMA CardIsBuilt ==
    ASSUME NEW spec, NEW rows, NEW registry, NEW waived, NEW b \in build_card_section(spec, rows, registry, waived)
    PROVE  b.type = "card"
  BY DEF build_card_section, JudgedCard

LEMMA MetricIsBuilt ==
    ASSUME NEW spec, NEW rows, NEW registry, NEW waived, NEW b \in build_metric_section(spec, rows, registry, waived)
    PROVE  b.type = "metric" /\ b.face = spec.face
  BY DEF build_metric_section

LEMMA BuiltAsDeclared ==
    ASSUME NEW j, j.spec = Recipe, NEW s \in DOMAIN j.sections, NEW b \in build_section(j, s)
    PROVE  AsDeclared(b, Recipe[s])
<1>1. CASE Recipe[s].output_as = "metric"
  BY <1>1, MetricIsBuilt DEF build_section, AsDeclared, Kind
<1>2. CASE Recipe[s].output_as = "card"
  BY <1>2, CardIsBuilt DEF build_section, AsDeclared, Kind
<1>3. CASE Recipe[s].output_as = "chart"
  BY <1>3 DEF build_section, build_chart_section, AsDeclared, Kind
<1>4. CASE Recipe[s].output_as = "findings"
  BY <1>4 DEF build_section, AsDeclared, Kind
<1>5. CASE Recipe[s].output_as \notin {"metric", "card", "chart", "findings"}
  BY <1>5 DEF build_section, AsDeclared, Kind
<1>6. QED
  BY <1>1, <1>2, <1>3, <1>4, <1>5

(* The dry run by the rules a collection began with judges what the        *)
(* collection judged.                                                      *)
LEMMA PreviewIsJudged ==
    ASSUME NEW d, NEW j, NEW rules \in SUBSET RuleIds, j.row_rules = load_subject_row_rules(rules),
           j.scope = load_subject_section_scope, j.spec = Recipe,
           NEW built, DOMAIN built = DOMAIN j.sections,
           \A s \in DOMAIN built : built[s] \in build_section(j, s),
           NEW a, a = assemble_artifact(j, built, Judged(j, d), d)
    PROVE  evaluate_subject(a, load_subject_row_rules(rules), load_subject_section_scope, d) = Judged(j, d)
<1>1. DOMAIN j.row_rules \subseteq {Table}
  BY LoadedRules
<1>2. /\ Table \in DOMAIN a.sections <=> Table \in DOMAIN j.sections
      /\ Table \in DOMAIN j.sections => a.sections[Table] = built[Table]
  BY ArtifactSections, EnrichKeepsTable
<1> DEFINE rows == IF Table \in DOMAIN a.sections /\ a.sections[Table].type = "table"
                   THEN a.sections[Table].items ELSE <<>>
<1>3. rows = RowsOf(j, Table)
  BY <1>2, TableIsBuilt DEF RowsOf
<1> HIDE DEF rows
<1>4. \A s \in DOMAIN j.row_rules :
        evaluate_subject(a, load_subject_row_rules(rules), load_subject_section_scope, d)[s] = Judged(j, d)[s]
  BY <1>1, <1>3 DEF evaluate_subject, Judged, ScopeOf, rows
<1>5. QED
  BY <1>4 DEF evaluate_subject, Judged

LEMMA StoredIsJudged ==
    ASSUME NEW d, NEW j, NEW rules \in SUBSET RuleIds, j.row_rules = load_subject_row_rules(rules),
           j.scope = load_subject_section_scope, j.spec = Recipe,
           NEW a \in result_to_artifact(j, d)
    PROVE  ChecksOf(a) = rules /\ PreviewShows(a, rules, d) /\ a.imported_at = d
<1>1. PICK built : /\ DOMAIN built = DOMAIN j.sections
                   /\ \A s \in DOMAIN built : built[s] \in build_section(j, s)
                   /\ a = assemble_artifact(j, built, Judged(j, d), d)
  BY ArtifactParts
<1> DEFINE judged == Judged(j, d)
<1>2. evaluate_subject(a, load_subject_row_rules(rules), load_subject_section_scope, d) = judged
  BY <1>1, PreviewIsJudged
<1>3. DOMAIN judged = DOMAIN j.row_rules
  BY DEF Judged
<1>4. ChecksOf(a) = rules
  <2>1. /\ DOMAIN a.evaluation = DOMAIN j.row_rules
        /\ \A s \in DOMAIN j.row_rules : a.evaluation[s].checks =
             {[rule_id |-> r.rule_id, severity |-> r.severity] : r \in Range(j.row_rules[s])}
    BY <1>1, <1>3, ArtifactChecks
  <2>2. CASE rules = {}
    BY <2>1, <2>2, LoadedRules DEF ChecksOf
  <2>3. CASE rules # {}
    <3>1. Table \in DOMAIN j.row_rules /\ {r.rule_id : r \in Range(j.row_rules[Table])} = rules
      BY <2>3, LoadedRules
    <3> DEFINE loaded == Range(j.row_rules[Table])
               checks == a.evaluation[Table].checks
    <3>2. checks = {[rule_id |-> r.rule_id, severity |-> r.severity] : r \in loaded}
      BY <2>1, <3>1
    <3>3. {r.rule_id : r \in loaded} = rules /\ ChecksOf(a) = {c.rule_id : c \in checks}
      BY <2>1, <3>1 DEF ChecksOf
    <3> HIDE DEF loaded, checks
    <3>4. {c.rule_id : c \in checks} = {r.rule_id : r \in loaded}
      <4>1. ASSUME NEW r \in loaded PROVE \E c \in checks : c.rule_id = r.rule_id
        <5>1. [rule_id |-> r.rule_id, severity |-> r.severity] \in checks
          BY <3>2
        <5>2. QED
          BY <5>1
      <4>2. \A c \in checks : \E r \in loaded : c.rule_id = r.rule_id
        BY <3>2
      <4>3. QED
        BY <4>1, <4>2
    <3>5. QED
      BY <3>3, <3>4
  <2>4. QED
    BY <2>2, <2>3
<1>5. PreviewShows(a, rules, d)
  <2> HIDE DEF judged
  <2>1. a.compliance = UNION {{build_compliance_finding(s, f) : f \in judged[s].findings} :
                                s \in DOMAIN judged}
    BY <1>1, ArtifactFindings DEF judged
  <2>2. \A s \in DOMAIN a.verdicts : judged[s].per_row = a.verdicts[s]
    BY <1>1, ArtifactFindings DEF judged
  <2>3. QED
    BY <1>2, <2>1, <2>2 DEF PreviewShows
<1>6. a.imported_at = d
  BY <1>1, ArtifactSections
<1>7. QED
  BY <1>4, <1>5, <1>6

LEMMA StoredAsDeclared ==
    ASSUME NEW d, NEW j, j.spec = Recipe, NoneConsumed, DOMAIN j.sections \subseteq DOMAIN Recipe,
           NEW a \in result_to_artifact(j, d)
    PROVE  /\ DOMAIN a.sections = DOMAIN j.sections /\ a.failures = j.failures
           /\ \A s \in DOMAIN a.sections : AsDeclared(a.sections[s], Recipe[s])
<1>1. PICK built : /\ DOMAIN built = DOMAIN j.sections
                   /\ \A s \in DOMAIN built : built[s] \in build_section(j, s)
                   /\ a = assemble_artifact(j, built, Judged(j, d), d)
  BY ArtifactParts
<1>2. a.sections = built /\ a.failures = j.failures
  <2>1. a.sections = enrich_commcell_info(built, j.commcell_name) /\ a.failures = j.failures
    BY <1>1, ArtifactSections
  <2>2. "_commcell_observed" \notin DOMAIN built
    BY <1>1 DEF NoneConsumed
  <2>3. enrich_commcell_info(built, j.commcell_name) = built
    BY <2>2 DEF enrich_commcell_info
  <2>4. QED
    BY <2>1, <2>3
<1>3. ASSUME NEW s \in DOMAIN a.sections PROVE AsDeclared(a.sections[s], Recipe[s])
  <2>1. s \in DOMAIN j.sections /\ a.sections[s] \in build_section(j, s)
    BY <1>1, <1>2
  <2>2. QED
    BY <2>1, BuiltAsDeclared
<1>4. QED
  BY <1>1, <1>2, <1>3

-----------------------------------------------------------------------------
(* The inductive invariant. *)

LEMMA PreviewStays ==
    ASSUME scope' = scope, NEW d, NEW a, NEW rules
    PROVE  PreviewShows(a, rules, d)' <=> PreviewShows(a, rules, d)
<1>1. load_subject_section_scope' = load_subject_section_scope
  BY DEF load_subject_section_scope
<1>2. QED
  BY <1>1 DEF PreviewShows

LEMMA StoreStays ==
    ASSUME StoreIsWhole, store' = store, scope' = scope
    PROVE  StoreIsWhole'
  BY PreviewStays DEF StoreIsWhole

LEMMA WholeStays ==
    ASSUME scope' = scope, overrides' = overrides, NEW j, Whole(j)
    PROVE  Whole(j)'
  BY DEF Whole, load_subject_section_scope

LEMMA JobStays ==
    ASSUME JobIsWhole, job' = job, scope' = scope, overrides' = overrides
    PROVE  JobIsWhole'
  BY WholeStays DEF JobIsWhole

LEMMA JobEnds == job' = {} => JobIsWhole'
  BY DEF JobIsWhole

LEMMA EvidenceInit == Init => EvidenceIInv
<1> SUFFICES ASSUME Init PROVE EvidenceIInv
  OBVIOUS
<1>1. JobIsWhole /\ StoreIsWhole
  BY DEF Init, JobIsWhole, StoreIsWhole
<1>2. QED
  BY <1>1 DEF Init, EvidenceIInv

LEMMA BeginKeeps ==
    ASSUME EvidenceIInv, CollectBegin
    PROVE  JobIsWhole'
<1>1. PICK p \in active : job' =
        {[project |-> p, sections |-> <<>>, failures |-> {}, spec |-> Recipe,
          registry |-> Registry, overrides |-> overrides,
          row_rules |-> load_subject_row_rules(bound), scope |-> load_subject_section_scope,
          commcell_name |-> None, source |-> "rest"]}
  BY DEF CollectBegin
<1>2. scope' = scope /\ overrides' = overrides /\ p \in Projects /\ bound \in SUBSET RuleIds
  BY DEF CollectBegin, EvidenceIInv
<1>3. Len(Order) \in Nat
  BY EvidenceAssumption
<1>4. ASSUME NEW j \in job'
      PROVE  /\ DOMAIN j.sections = {} /\ j.failures = {}
             /\ j.project = p /\ j.row_rules = load_subject_row_rules(bound)
             /\ j.scope = load_subject_section_scope /\ j.spec = Recipe
             /\ j.registry = Registry /\ j.overrides = overrides
  BY <1>1
<1>5. ASSUME NEW j \in job'
      PROVE  Reached(j) = 0 /\ FailedIn(j) = {} /\ IsFiniteSet(DOMAIN j.sections) /\ IsFiniteSet(j.failures)
  BY <1>4, FS_EmptySet DEF Reached, FailedIn
<1>6. {Order[i] : i \in 1 .. 0} = {}
  OBVIOUS
<1>7. ASSUME NEW j \in job' PROVE Whole(j)
  BY <1>2, <1>3, <1>4, <1>5, <1>6, <1>7 DEF Whole
<1>8. QED
  BY <1>2, <1>7, WholeStays DEF JobIsWhole

LEMMA OneMore ==
    ASSUME NEW S, IsFiniteSet(S), NEW x, x \notin S, NEW T, T = S \cup {x}
    PROVE  IsFiniteSet(T) /\ Cardinality(T) = Cardinality(S) + 1
  BY FS_AddElement

(* One more section of the order, kept or failed. *)
LEMMA FetchKeeps ==
    ASSUME JobIsWhole, NEW j \in job, Reached(j) < Len(Order),
           NEW rows \in Samples[Order[Reached(j) + 1]],
           job' = {Fetch(j, rows)}, scope' = scope, overrides' = overrides
    PROVE  JobIsWhole'
<1> DEFINE n == Reached(j)
           s == Order[n + 1]
           bad == check_conformance(rows, Recipe[s].conformance)
           k == Fetch(j, rows)
<1>1. /\ j.project \in Projects
      /\ \E rules \in SUBSET RuleIds : j.row_rules = load_subject_row_rules(rules)
      /\ j.scope = load_subject_section_scope /\ j.spec = Recipe
      /\ j.registry = Registry /\ j.overrides = overrides
      /\ \A t \in DOMAIN j.sections : j.sections[t] \in Samples[t]
      /\ IsFiniteSet(DOMAIN j.sections) /\ IsFiniteSet(j.failures)
      /\ n \in 0 .. Len(Order)
      /\ FailedIn(j) \cap DOMAIN j.sections = {}
      /\ FailedIn(j) \cup DOMAIN j.sections = {Order[i] : i \in 1 .. n}
  BY DEF JobIsWhole, Whole
<1>2. /\ Len(Order) \in Nat /\ DOMAIN Order = 1 .. Len(Order)
      /\ \A i, l \in DOMAIN Order : Order[i] = Order[l] => i = l
  BY EvidenceAssumption
<1>3. n + 1 \in DOMAIN Order /\ n + 1 \in 0 .. Len(Order) /\ n \in Nat
  BY <1>1, <1>2
<1>4. s \notin FailedIn(j) /\ s \notin DOMAIN j.sections
  BY <1>1, <1>2, <1>3
<1>0. /\ Cardinality(DOMAIN j.sections) \in Nat /\ Cardinality(j.failures) \in Nat
      /\ n = Cardinality(DOMAIN j.sections) + Cardinality(j.failures)
  BY <1>1, FS_CardinalityType DEF Reached
<1>5. {Order[i] : i \in 1 .. n + 1} = {Order[i] : i \in 1 .. n} \cup {s}
  BY <1>3
<1> DEFINE Same == /\ k.project = j.project /\ k.row_rules = j.row_rules
                   /\ k.scope = j.scope /\ k.spec = j.spec
                   /\ k.registry = j.registry /\ k.overrides = j.overrides
<1>6. /\ Same
      /\ \A t \in DOMAIN k.sections : k.sections[t] \in Samples[t]
      /\ IsFiniteSet(DOMAIN k.sections) /\ IsFiniteSet(k.failures)
      /\ Reached(k) = n + 1
      /\ FailedIn(k) \cap DOMAIN k.sections = {}
      /\ FailedIn(k) \cup DOMAIN k.sections = FailedIn(j) \cup DOMAIN j.sections \cup {s}
  <2>1. CASE bad # ""
    <3>1. k = [j EXCEPT !.failures = @ \cup {<<s, bad>>}]
      BY <2>1 DEF Fetch
    <3>2. k.failures = j.failures \cup {<<s, bad>>} /\ k.sections = j.sections /\ Same
      BY <3>1
    <3>3. <<s, bad>> \notin j.failures /\ FailedIn(k) = FailedIn(j) \cup {s}
      BY <1>4, <3>2 DEF FailedIn
    <3>4. IsFiniteSet(k.failures) /\ Cardinality(k.failures) = Cardinality(j.failures) + 1
      BY <1>1, <3>2, <3>3, OneMore
    <3>5. Reached(k) = n + 1
      BY <1>0, <3>2, <3>4 DEF Reached
    <3>6. QED
      BY <1>1, <1>4, <3>2, <3>3, <3>4, <3>5
  <2>2. CASE bad = ""
    <3>1. k = [j EXCEPT !.sections = [t \in DOMAIN @ \cup {s} |-> IF t = s THEN rows ELSE @[t]]]
      BY <2>2 DEF Fetch
    <3>2. k.failures = j.failures /\ DOMAIN k.sections = DOMAIN j.sections \cup {s} /\ Same
      BY <3>1
    <3>6. \A t \in DOMAIN k.sections : k.sections[t] \in Samples[t]
      <4>1. \A t \in DOMAIN k.sections : k.sections[t] = IF t = s THEN rows ELSE j.sections[t]
        BY <3>1
      <4>2. QED
        BY <1>1, <1>4, <3>2, <4>1
    <3>3. IsFiniteSet(DOMAIN k.sections) /\ Cardinality(DOMAIN k.sections) = Cardinality(DOMAIN j.sections) + 1
      BY <1>1, <1>4, <3>2, OneMore
    <3>4. Reached(k) = n + 1 /\ FailedIn(k) = FailedIn(j)
      BY <1>0, <3>2, <3>3 DEF Reached, FailedIn
    <3>5. QED
      BY <1>1, <1>4, <3>2, <3>3, <3>4, <3>6
  <2>3. QED
    BY <2>1, <2>2
<1> HIDE DEF k, n, s, bad
<1>7. job' = {k}
  BY DEF k
<1>8. Whole(k)
  BY <1>1, <1>3, <1>5, <1>6 DEF Whole
<1>9. QED
  BY <1>7, <1>8, WholeStays DEF JobIsWhole

LEMMA StoreKeeps ==
    ASSUME EvidenceIInv, CollectStore
    PROVE  StoreIsWhole'
<1>1. PICK j \in job : /\ Reached(j) = Len(Order)
                       /\ store' = IF result_to_artifact(j, now) = {} THEN store
                                   ELSE [store EXCEPT ![j.project] = result_to_artifact(j, now)]
  BY DEF CollectStore
<1>2. scope' = scope
  BY DEF CollectStore
<1>3. CASE result_to_artifact(j, now) = {}
  BY <1>1, <1>2, <1>3, StoreStays DEF EvidenceIInv
<1>4. CASE result_to_artifact(j, now) # {}
  <2>1. PICK rules \in SUBSET RuleIds : j.row_rules = load_subject_row_rules(rules)
    BY DEF EvidenceIInv, JobIsWhole, Whole
  <2>2. /\ j.scope = load_subject_section_scope /\ j.spec = Recipe
        /\ FailedIn(j) \cap DOMAIN j.sections = {}
        /\ FailedIn(j) \cup DOMAIN j.sections = {Order[i] : i \in 1 .. Len(Order)}
    BY <1>1 DEF EvidenceIInv, JobIsWhole, Whole
  <2>3. FailedIn(j) \cup DOMAIN j.sections = DOMAIN Recipe
    BY <2>2, EvidenceAssumption
  <2>4. ASSUME NEW a \in result_to_artifact(j, now)
        PROVE  /\ result_to_artifact(j, now) = {a}
               /\ ChecksOf(a) = rules /\ PreviewShows(a, rules, a.imported_at)'
               /\ NoneConsumed => /\ FailedIn(a) \cap DOMAIN a.sections = {}
                                  /\ FailedIn(a) \cup DOMAIN a.sections = DOMAIN Recipe
                                  /\ \A s \in DOMAIN a.sections : AsDeclared(a.sections[s], Recipe[s])
    <3>1. result_to_artifact(j, now) = {a}
      BY DEF result_to_artifact, artifact_of_parts
    <3> DEFINE d == now
    <3>0. a \in result_to_artifact(j, d)
      OBVIOUS
    <3> HIDE DEF d
    <3>2. ChecksOf(a) = rules /\ PreviewShows(a, rules, a.imported_at)
      BY <2>1, <2>2, <3>0, StoredIsJudged
    <3>3. PreviewShows(a, rules, a.imported_at)'
      BY <1>2, <3>2, PreviewStays
    <3>4. ASSUME NoneConsumed
          PROVE  /\ FailedIn(a) \cap DOMAIN a.sections = {}
                 /\ FailedIn(a) \cup DOMAIN a.sections = DOMAIN Recipe
                 /\ \A s \in DOMAIN a.sections : AsDeclared(a.sections[s], Recipe[s])
      <4>1. /\ DOMAIN a.sections = DOMAIN j.sections /\ a.failures = j.failures
            /\ \A s \in DOMAIN a.sections : AsDeclared(a.sections[s], Recipe[s])
        BY <2>2, <2>3, <3>0, <3>4, StoredAsDeclared
      <4>2. QED
        BY <4>1, <2>2, <2>3 DEF FailedIn
    <3>5. QED
      BY <3>1, <3>2, <3>3, <3>4
  <2>5. \A p \in DOMAIN store : store'[p] = IF p = j.project THEN result_to_artifact(j, now) ELSE store[p]
    BY <1>1, <1>4
  <2>6. ASSUME NEW p \in Projects, NEW a \in store'[p]
        PROVE  /\ store'[p] = {a}
               /\ \E r \in SUBSET RuleIds : ChecksOf(a) = r /\ PreviewShows(a, r, a.imported_at)'
               /\ NoneConsumed => /\ FailedIn(a) \cap DOMAIN a.sections = {}
                                  /\ FailedIn(a) \cup DOMAIN a.sections = DOMAIN Recipe
                                  /\ \A s \in DOMAIN a.sections : AsDeclared(a.sections[s], Recipe[s])
    <3>0. p \in DOMAIN store
      BY DEF EvidenceIInv
    <3>1. CASE p = j.project
      BY <2>4, <2>5, <3>0, <3>1
    <3>2. CASE p # j.project
      <4>1. a \in store[p] /\ store'[p] = store[p]
        BY <2>5, <3>0, <3>2
      <4>2. StoreIsWhole
        BY DEF EvidenceIInv
      <4>3. \A r : PreviewShows(a, r, a.imported_at)' <=> PreviewShows(a, r, a.imported_at)
        BY <1>2, PreviewStays
      <4>4. QED
        BY <4>1, <4>2, <4>3 DEF StoreIsWhole
    <3>3. QED
      BY <3>1, <3>2
  <2>7. QED
    BY <2>6 DEF StoreIsWhole
<1>5. QED
  BY <1>3, <1>4

LEMMA EvidenceKeeps == EvidenceIInv /\ [Next]_vars => EvidenceIInv'
<1> SUFFICES ASSUME EvidenceIInv, [Next]_vars PROVE EvidenceIInv'
  OBVIOUS
<1>0. /\ active \in SUBSET Projects /\ (\A p, q \in active : p = q) /\ bound \subseteq RuleIds
      /\ JobIsWhole /\ StoreIsWhole /\ DOMAIN store = Projects /\ overrides \in Waivers
  BY DEF EvidenceIInv
<1>1. ASSUME UNCHANGED evidenceVars PROVE EvidenceIInv'
  BY <1>0, <1>1, StoreStays, JobStays DEF EvidenceIInv, evidenceVars
<1>2. ASSUME NEW p \in Projects, SelectProject(p) PROVE EvidenceIInv'
  BY <1>0, <1>2, StoreStays, JobStays DEF EvidenceIInv, SelectProject
<1>3. ASSUME NEW r \in DOMAIN RowRules, Bind(r) PROVE EvidenceIInv'
  BY <1>0, <1>3, StoreStays, JobStays DEF EvidenceIInv, Bind, RuleIds
<1>4. ASSUME CollectBegin PROVE EvidenceIInv'
  <2>1. UNCHANGED <<active, bound, scope, overrides, store>>
    BY <1>4 DEF CollectBegin
  <2>2. QED
    BY <1>0, <1>4, <2>1, StoreStays, BeginKeeps DEF EvidenceIInv
<1>5. ASSUME CollectSection PROVE EvidenceIInv'
  <2>1. UNCHANGED <<active, bound, scope, overrides, store>>
    BY <1>5 DEF CollectSection
  <2>2. PICK j \in job : /\ Reached(j) < Len(Order)
                         /\ \E rows \in Samples[Order[Reached(j) + 1]] : job' = {Fetch(j, rows)}
    BY <1>5 DEF CollectSection
  <2>3. JobIsWhole'
    BY <1>0, <2>1, <2>2, FetchKeeps
  <2>4. QED
    BY <1>0, <2>1, <2>3, StoreStays DEF EvidenceIInv
<1>6. ASSUME CollectStore PROVE EvidenceIInv'
  <2>1. UNCHANGED <<active, bound, scope, overrides>> /\ job' = {}
    BY <1>6 DEF CollectStore
  <2>2. DOMAIN store' = DOMAIN store
    BY <1>6 DEF CollectStore
  <2>3. QED
    BY <1>0, <1>6, <2>1, <2>2, StoreKeeps, JobEnds DEF EvidenceIInv
<1>7. ASSUME Midnight PROVE EvidenceIInv'
  BY <1>0, <1>7, StoreStays, JobStays DEF EvidenceIInv, Midnight
<1>8. QED
  BY <1>1, <1>2, <1>3, <1>4, <1>5, <1>6, <1>7 DEF Next, Serve, vars, evidenceVars

THEOREM EvidenceInvariant == Spec => []EvidenceIInv
<1>1. Init => EvidenceIInv
  BY EvidenceInit
<1>2. EvidenceIInv /\ [Next]_vars => EvidenceIInv'
  BY EvidenceKeeps
<1>3. QED
  BY <1>1, <1>2, PTL DEF Spec

-----------------------------------------------------------------------------
(* Pages. *)

(* The kind a section is shown as. *)
KindOf(section) ==
    CASE section.type = "findings" -> "findings_list"
      [] section.type = "metric" -> IF section.face = "metric" THEN "metric" ELSE "meta"
      [] OTHER -> section.type

SectionTypes == {"findings", "table", "metric", "chart", "card"}

LEMMA SectionShown ==
    ASSUME NEW a, NEW s, a.sections[s].type \in SectionTypes
    PROVE  section_view(a, s).type = KindOf(a.sections[s])
  BY DEF section_view, SectionTypes, KindOf, findings_view, table_section_view, metric_section_view,
         chart_section_view, card_section_view

LEMMA ReportShown ==
    ASSUME NEW a, NEW id \in DOMAIN artifact_to_view(a).sections,
           artifact_to_view(a).sections[id].band = "report"
    PROVE  \E s \in DOMAIN a.sections : /\ id = <<s, "section">> /\ s # Compliance
                                        /\ artifact_to_view(a).sections[id] = section_view(a, s)
<1> DEFINE derived == IF a.compliance = {} THEN {} ELSE {Compliance}
           criteria == {<<s, "criteria">> : s \in DOMAIN a.evaluation}
           ids == {<<s, "section">> : s \in DOMAIN a.sections \cup derived} \cup criteria
<1>1. /\ id \in ids
      /\ artifact_to_view(a).sections[id] =
           CASE id \in criteria -> evaluation_criteria_view(a.evaluation[id[1]])
             [] id = <<Compliance, "section">> -> findings_view(a.compliance, "evaluation")
             [] OTHER -> section_view(a, id[1])
  BY DEF artifact_to_view
<1>2. id \notin criteria /\ id # <<Compliance, "section">>
  BY <1>1 DEF evaluation_criteria_view, findings_view
<1>3. PICK s \in DOMAIN a.sections \cup derived : id = <<s, "section">>
  BY <1>1, <1>2
<1>4. s # Compliance /\ s \in DOMAIN a.sections
  BY <1>2, <1>3
<1>5. artifact_to_view(a).sections[id] = section_view(a, s)
  BY <1>1, <1>2, <1>3
<1>6. QED
  BY <1>3, <1>4, <1>5

LEMMA OwnShown ==
    ASSUME NEW a, NEW s \in DOMAIN a.sections, s # Compliance
    PROVE  /\ <<s, "section">> \in DOMAIN artifact_to_view(a).sections
           /\ artifact_to_view(a).sections[<<s, "section">>] = section_view(a, s)
<1> DEFINE id == <<s, "section">>
           criteria == {<<t, "criteria">> : t \in DOMAIN a.evaluation}
<1>1. id \notin criteria /\ id # <<Compliance, "section">> /\ id[1] = s
  OBVIOUS
<1>2. QED
  BY <1>1 DEF artifact_to_view

SpecOf(s) == IF s \in DOMAIN Recipe THEN Recipe[s] ELSE <<>>
ShellOf(s) == shell_section(Announced[s], shell_names(Announced[s], SpecOf(s)))

(* A section with badges is shown as its type, under the name of the view. *)
ShownAs(type) == IF type = "findings" THEN "findings_list" ELSE type

LEMMA ShellType ==
    ASSUME NEW s
    PROVE  ShellOf(s).type = Kind(Announced[s]) /\ KindOf(ShellOf(s)) = ShownAs(Kind(Announced[s]))
<1>1. \A names : LET shell == shell_section(Announced[s], names)
                 IN  shell.type = Kind(Announced[s]) /\ (shell.type = "metric" => shell.face = "metric")
  BY DEF shell_section, Kind
<1>2. /\ ShellOf(s).type = Kind(Announced[s])
      /\ ShellOf(s).type = "metric" => ShellOf(s).face = "metric"
  BY <1>1 DEF ShellOf
<1>3. QED
  BY <1>2 DEF KindOf, ShownAs

LEMMA DeclaredType ==
    ASSUME NEW s \in DOMAIN Recipe, NEW section, AsDeclared(section, Recipe[s]), BadgedMetrics
    PROVE  /\ section.type = Kind(Recipe[s].output_as)
           /\ KindOf(section) = ShownAs(Kind(Recipe[s].output_as))
  BY DEF AsDeclared, KindOf, ShownAs, Kind, BadgedMetrics

LEMMA KindIsAType == \A x : Kind(x) \in SectionTypes
  BY DEF Kind, SectionTypes

LEMMA ShownAsTellsKinds ==
    ASSUME NEW x \in SectionTypes, NEW y \in SectionTypes
    PROVE  ShownAs(x) = ShownAs(y) <=> x = y
  BY DEF ShownAs, SectionTypes

LEMMA ShellShows ==
    ASSUME NEW shell \in Page.staging, NEW s \in DOMAIN Announced, s # Compliance
    PROVE  /\ <<s, "section">> \in DOMAIN shell.sections
           /\ shell.sections[<<s, "section">>].type = ShownAs(Kind(Announced[s]))
<1> DEFINE a == [sections |-> [t \in DOMAIN Announced |-> ShellOf(t)],
                 compliance |-> {}, verdicts |-> <<>>, evaluation |-> <<>>, failures |-> {},
                 status |-> "unknown", source |-> "rest"]
           proposal == [t \in DOMAIN Announced |-> [section_type |-> Announced[t], spec |-> SpecOf(t)]]
<1>1. shell = build_proposal_shell(proposal)
  <2> HIDE DEF proposal
  <2>1. Page.staging = {build_proposal_shell(q) : q \in {proposal}}
    BY DEF Page, build_subject_initial_data, proposal, SpecOf
  <2>2. QED
    BY <2>1
<1>2. build_proposal_shell(proposal) = artifact_to_view(a)
  <2>1. [t \in DOMAIN proposal |-> shell_section(proposal[t].section_type,
                                    shell_names(proposal[t].section_type, proposal[t].spec))]
         = [t \in DOMAIN Announced |-> ShellOf(t)]
    BY DEF ShellOf
  <2> HIDE DEF proposal
  <2>2. QED
    BY <2>1 DEF build_proposal_shell
<1>3. s \in DOMAIN a.sections /\ a.sections[s] = ShellOf(s)
  OBVIOUS
<1> HIDE DEF a
<1>4. /\ <<s, "section">> \in DOMAIN shell.sections
      /\ shell.sections[<<s, "section">>] = section_view(a, s)
  BY <1>1, <1>2, <1>3, OwnShown
<1>5. section_view(a, s).type = KindOf(ShellOf(s))
  BY <1>3, ShellType, KindIsAType, SectionShown
<1>6. QED
  BY <1>4, <1>5, ShellType

(* The page of the active project shows its artifact. *)
LEMMA PageShows ==
    ASSUME EvidenceIInv, NEW p \in active, NEW a \in store[p]
    PROVE  Shown.state = artifact_to_view(a).state /\ Shown.sections = artifact_to_view(a).sections
<1> DEFINE tile == subject_to_tile([id |-> "subject", sources |-> {[source_type |-> "rest",
                                      has_instructions |-> TRUE, extractable |-> TRUE]}])
           held == [q \in Projects |-> [id \in {"subject"} |-> store[q]]]
<1>1. active = {p} /\ p \in Projects /\ store[p] = {a}
  <2>1. p \in Projects /\ \A q \in active : q = p
    BY DEF EvidenceIInv
  <2>2. store[p] = {a}
    BY <2>1 DEF EvidenceIInv, StoreIsWhole
  <2>3. QED
    BY <2>1, <2>2
<1>2. load_from_canonical_store(held, active, "subject") = {a}
  BY <1>1 DEF load_from_canonical_store
<1>3. tile.id = "subject"
  BY DEF subject_to_tile
<1> HIDE DEF tile
<1>4. Shown = build_generic_subject(CHOOSE t \in {tile} : t.id = "subject", {a})
  BY <1>2, <1>3 DEF Shown, Page, build_subject_initial_data, get_tiles, tile
<1>5. (CHOOSE x \in {a} : TRUE) = a
  OBVIOUS
<1>6. QED
  BY <1>4, <1>5 DEF build_generic_subject

(* Of a recipe nothing of which is consumed on the way, every section is   *)
(* in the artifact or recorded as failed, never both, and where its        *)
(* metrics show badges a pending proposal's shell has every section of the *)
(* later page, shown as the same kind exactly where the proposal's         *)
(* section_type and the recipe's output_as are of one kind                 *)
(* (check_conformance, build_proposal_shell, artifact_to_view).            *)
THEOREM ShellsForetellPages == NoneConsumed /\ BadgedMetrics => (Spec => []ShellForetellsPage)
<1> SUFFICES ASSUME NoneConsumed /\ BadgedMetrics PROVE Spec => []ShellForetellsPage
  OBVIOUS
<1>1. EvidenceIInv => ShellForetellsPage
  <2> SUFFICES ASSUME EvidenceIInv, NEW p \in active, NEW a \in store[p]
               PROVE  /\ FailedIn(a) \cap DOMAIN a.sections = {}
                      /\ FailedIn(a) \cup DOMAIN a.sections = DOMAIN Recipe
                      /\ \A shell \in Page.staging,
                           id \in {k \in DOMAIN Shown.sections : Shown.sections[k].band = "report"} :
                             /\ id \in DOMAIN shell.sections
                             /\ shell.sections[id].type = Shown.sections[id].type
                                  <=> Kind(Announced[id[1]]) = Kind(Recipe[id[1]].output_as)
    BY DEF ShellForetellsPage
  <2>1. /\ FailedIn(a) \cap DOMAIN a.sections = {}
        /\ FailedIn(a) \cup DOMAIN a.sections = DOMAIN Recipe
        /\ \A s \in DOMAIN a.sections : AsDeclared(a.sections[s], Recipe[s])
    BY DEF EvidenceIInv, StoreIsWhole
  <2>2. Shown.sections = artifact_to_view(a).sections
    BY PageShows
  <2>3. ASSUME NEW shell \in Page.staging, NEW id \in DOMAIN Shown.sections,
               Shown.sections[id].band = "report"
        PROVE  /\ id \in DOMAIN shell.sections
               /\ shell.sections[id].type = Shown.sections[id].type
                    <=> Kind(Announced[id[1]]) = Kind(Recipe[id[1]].output_as)
    <3>1. PICK s \in DOMAIN a.sections : /\ id = <<s, "section">> /\ s # Compliance
                                         /\ Shown.sections[id] = section_view(a, s)
      BY <2>2, <2>3, ReportShown
    <3>2. s \in DOMAIN Recipe /\ AsDeclared(a.sections[s], Recipe[s])
      BY <2>1
    <3>3. Shown.sections[id].type = ShownAs(Kind(Recipe[s].output_as))
      BY <3>1, <3>2, DeclaredType, KindIsAType, SectionShown
    <3>4. s \in DOMAIN Announced /\ id[1] = s
      BY <3>1, <3>2, EvidenceAssumption
    <3>5. id \in DOMAIN shell.sections /\ shell.sections[id].type = ShownAs(Kind(Announced[s]))
      BY <3>1, <3>4, ShellShows
    <3>6. QED
      BY <3>3, <3>4, <3>5, KindIsAType, ShownAsTellsKinds
  <2>4. QED
    BY <2>1, <2>3
<1>2. QED
  BY <1>1, EvidenceInvariant, PTL

-----------------------------------------------------------------------------
(* An artifact is what a whole collection left for its project.            *)
CollectedIn(p, a) == \E j, d : Whole(j) /\ j.project = p /\ a \in result_to_artifact(j, d)
StoreIsCollected == \A p \in Projects : \A a \in store[p] : CollectedIn(p, a)

LEMMA CollectedStays ==
    ASSUME scope' = scope, overrides' = overrides, NEW p, NEW a, CollectedIn(p, a)
    PROVE  CollectedIn(p, a)'
<1>1. PICK j, d : Whole(j) /\ j.project = p /\ a \in result_to_artifact(j, d)
  BY DEF CollectedIn
<1>2. Whole(j)'
  BY <1>1, WholeStays
<1>3. QED
  BY <1>1, <1>2 DEF CollectedIn

LEMMA CollectedStep == EvidenceIInv /\ StoreIsCollected /\ [Next]_vars => StoreIsCollected'
<1> SUFFICES ASSUME EvidenceIInv, StoreIsCollected, [Next]_vars PROVE StoreIsCollected'
  OBVIOUS
<1>1. scope' = scope /\ overrides' = overrides
  BY DEF Next, Serve, SelectProject, Bind, CollectBegin, CollectSection, CollectStore, Midnight, vars,
         evidenceVars
<1>2. CASE store' = store
  BY <1>1, <1>2, CollectedStays DEF StoreIsCollected
<1>3. CASE CollectStore
  <2>1. PICK j \in job : store' = IF result_to_artifact(j, now) = {} THEN store
                                  ELSE [store EXCEPT ![j.project] = result_to_artifact(j, now)]
    BY <1>3 DEF CollectStore
  <2>2. \A p \in Projects : store'[p] = store[p] \/ (p = j.project /\ store'[p] = result_to_artifact(j, now))
    BY <2>1 DEF EvidenceIInv
  <2>3. Whole(j)'
    BY <1>1, WholeStays DEF EvidenceIInv, JobIsWhole
  <2>4. ASSUME NEW p \in Projects, NEW a \in store'[p] PROVE CollectedIn(p, a)'
    <3>1. CASE store'[p] = store[p]
      BY <1>1, <2>4, <3>1, CollectedStays DEF StoreIsCollected
    <3>2. CASE p = j.project /\ store'[p] = result_to_artifact(j, now)
      BY <2>3, <2>4, <3>2 DEF CollectedIn
    <3>3. QED
      BY <2>2, <3>1, <3>2
  <2>5. QED
    BY <2>4 DEF StoreIsCollected
<1>4. CASE UNCHANGED vars
  BY <1>4, <1>2 DEF vars, evidenceVars
<1>5. CASE Next /\ ~CollectStore
  BY <1>5, <1>2 DEF Next, Serve, SelectProject, Bind, CollectBegin, CollectSection, Midnight, evidenceVars
<1>6. QED
  BY <1>3, <1>4, <1>5

(* Every stored artifact is the work of one whole collection of its        *)
(* project (reportsplus_dataset.py, rest.py, result_to_artifact.py).       *)
THEOREM StoredIsCollected == Spec => []StoreIsCollected
<1>1. Init => StoreIsCollected
  BY DEF Init, StoreIsCollected
<1>2. EvidenceIInv /\ StoreIsCollected /\ [Next]_vars => StoreIsCollected'
  BY CollectedStep
<1>3. QED
  BY <1>1, <1>2, EvidenceInvariant, PTL DEF Spec

-----------------------------------------------------------------------------
(* Rows. *)

LEMMA RowRefIsId ==
    ASSUME NEW row, ~is_absent(Cell(row, "id")), NEW i
    PROVE  row_ref(row, i) = row["id"]
  BY DEF row_ref

(* The findings of a section, the severities of those that carry a         *)
(* reference, and the severities a row calls for.                          *)
Found(rules, rows, conds, d) ==
    UNION {evaluate_row_rule(rules[r],
             AtPlaces(rows, {k \in DOMAIN rows : matches_conditions(conds, rows[k], d)}), d) : r \in DOMAIN rules}
Carried(findings, ref) == {f.severity : f \in {g \in findings : g.row_ref = {ref}}}
HitBy(rules, row, d) == {r \in Range(rules) : r.emit = "per_row" /\ matches_conditions(r.conditions, row, d)}
CalledFor(rules, row, d) == {x.severity : x \in HitBy(rules, row, d)}

(* Among rows with ids of their own, a row in scope has the findings of    *)
(* the rules that match it, and no others.                                 *)
LEMMA RowFindings ==
    ASSUME NEW d, NEW rules, NEW S, NEW rows \in Seq(S), NEW conds,
           \A k \in DOMAIN rows : ~is_absent(Cell(rows[k], "id")),
           \A k, l \in DOMAIN rows : rows[k]["id"] = rows[l]["id"] => k = l,
           \A r \in DOMAIN rules : rules[r].emit \in {"count", "per_row"},
           NEW i \in DOMAIN rows, matches_conditions(conds, rows[i], d)
    PROVE  Carried(Found(rules, rows, conds, d), rows[i]["id"]) = CalledFor(rules, rows[i], d)
<1> DEFINE findings == Found(rules, rows, conds, d)
           places == {k \in DOMAIN rows : matches_conditions(conds, rows[k], d)}
           scoped == AtPlaces(rows, places)
           mine == {g \in findings : g.row_ref = {rows[i]["id"]}}
           hits == HitBy(rules, rows[i], d)
<1>1. Range(scoped) = {rows[k] : k \in places \cap DOMAIN rows}
  BY AtPlacesRange
<1>2. places \subseteq DOMAIN rows /\ i \in places
  OBVIOUS
<1>3. ASSUME NEW k \in DOMAIN scoped PROVE \E l \in places : scoped[k] = rows[l]
  BY <1>1 DEF Range
<1>4. \E k \in DOMAIN scoped : scoped[k] = rows[i]
  <2>1. rows[i] \in Range(scoped)
    BY <1>1, <1>2
  <2>2. QED
    BY <2>1 DEF Range
<1> HIDE DEF scoped, places
<1>5. ASSUME NEW k \in DOMAIN scoped
      PROVE  row_ref(scoped[k], k) = scoped[k]["id"] /\ (scoped[k]["id"] = rows[i]["id"] => scoped[k] = rows[i])
  <2>1. PICK l \in DOMAIN rows : scoped[k] = rows[l]
    BY <1>2, <1>3
  <2>2. ~is_absent(Cell(scoped[k], "id"))
    BY <2>1
  <2>3. row_ref(scoped[k], k) = scoped[k]["id"]
    BY <2>2, RowRefIsId
  <2>4. QED
    BY <2>1, <2>3
<1>6. findings = UNION {evaluate_row_rule(rules[r], scoped, d) : r \in DOMAIN rules}
  BY DEF scoped, places, Found
<1> HIDE DEF findings
<1>7. ASSUME NEW g \in mine PROVE \E x \in hits : x.severity = g.severity
  <2>1. PICK r \in DOMAIN rules : g \in evaluate_row_rule(rules[r], scoped, d)
    BY <1>6
  <2>2. g.row_ref = {rows[i]["id"]}
    OBVIOUS
  <2>3. rules[r].emit = "per_row"
    <3>1. CASE rules[r].emit = "count"
      <4>1. g = Finding(rules[r], {})
        BY <2>1, <3>1 DEF evaluate_row_rule
      <4>2. QED
        BY <2>2, <4>1 DEF Finding
    <3>2. QED
      BY <3>1
  <2>4. PICK k \in DOMAIN scoped : /\ matches_conditions(rules[r].conditions, scoped[k], d)
                                   /\ g = Finding(rules[r], {row_ref(scoped[k], k)})
    BY <2>1, <2>3 DEF evaluate_row_rule
  <2>5. scoped[k] = rows[i] /\ g.severity = rules[r].severity
    BY <1>5, <2>2, <2>4 DEF Finding
  <2>6. rules[r] \in hits
    BY <2>3, <2>4, <2>5 DEF Range, HitBy
  <2> HIDE DEF hits
  <2>7. QED
    BY <2>5, <2>6
<1>8. ASSUME NEW x \in hits PROVE \E g \in mine : g.severity = x.severity
  <2>1. PICK r \in DOMAIN rules : rules[r] = x
    BY DEF Range, HitBy
  <2>2. PICK k \in DOMAIN scoped : scoped[k] = rows[i]
    BY <1>4
  <2> DEFINE g == Finding(x, {row_ref(scoped[k], k)})
  <2>3. g \in evaluate_row_rule(x, scoped, d)
    BY <2>2 DEF evaluate_row_rule, HitBy
  <2>4. g.row_ref = {rows[i]["id"]} /\ g.severity = x.severity
    BY <1>5, <2>2 DEF Finding
  <2> HIDE DEF g
  <2>5. g \in findings
    BY <1>6, <2>1, <2>3
  <2>6. g \in mine
    BY <2>4, <2>5
  <2> HIDE DEF mine
  <2>7. QED
    BY <2>4, <2>6
<1> HIDE DEF mine, hits
<1>9. {g.severity : g \in mine} = {x.severity : x \in hits}
  BY <1>7, <1>8
<1>10. QED
  BY <1>9 DEF mine, hits, findings, Carried, CalledFor

(* A row is judged by the rules that match it.                             *)
Unread(rules, row, d) == \E r \in Range(rules) : rule_row_state(r.conditions, row, d) = "unevaluable"

CalledVerdict(rules, conds, row, d) ==
    RowVerdict(matches_conditions(conds, row, d), CalledFor(rules, row, d), Unread(rules, row, d))

LEMMA RowJudged ==
    ASSUME NEW rules, NEW rows, rows \in Seq(Range(rows)), NEW conds, NEW d,
           \A k \in DOMAIN rows : ~is_absent(Cell(rows[k], "id")),
           \A k, l \in DOMAIN rows : rows[k]["id"] = rows[l]["id"] => k = l,
           \A r \in DOMAIN rules : rules[r].emit \in {"count", "per_row"},
           NEW i \in DOMAIN rows
    PROVE  /\ DOMAIN evaluate_section_rows(rules, rows, conds, d).per_row = DOMAIN rows
           /\ evaluate_section_rows(rules, rows, conds, d).per_row[i].verdict
                = CalledVerdict(rules, conds, rows[i], d)
<1> DEFINE ref == [k \in DOMAIN rows |-> row_ref(rows[k], k)]
           within == [k \in DOMAIN rows |-> matches_conditions(conds, rows[k], d)]
           findings == Found(rules, rows, conds, d)
           Blank(x) == \E k \in DOMAIN rows, r \in DOMAIN rules :
                         within[k] /\ ref[k] = x /\ rule_row_state(rules[r].conditions, rows[k], d) = "unevaluable"
           per_row == evaluate_section_rows(rules, rows, conds, d).per_row
<1>1. \A k \in DOMAIN rows : ref[k] = rows[k]["id"]
  BY RowRefIsId
<1>2. /\ DOMAIN per_row = DOMAIN rows
      /\ per_row[i].verdict = RowVerdict(within[i], Carried(findings, ref[i]), Blank(ref[i]))
  <2> HIDE DEF ref, within
  <2>1. evaluate_section_rows(rules, rows, conds, d) = JudgeRows(rules, rows, ref, within, findings, d)
    BY DEF evaluate_section_rows, ref, within, Found
  <2> HIDE DEF findings
  <2>2. JudgeRows(rules, rows, ref, within, findings, d).per_row =
          [k \in DOMAIN rows |-> [row_ref |-> ref[k], in_scope |-> within[k],
                                  verdict |-> RowVerdict(within[k], Carried(findings, ref[k]), Blank(ref[k]))]]
    BY DEF JudgeRows, Carried
  <2> HIDE DEF Blank
  <2>3. per_row = [k \in DOMAIN rows |-> [row_ref |-> ref[k], in_scope |-> within[k],
                                  verdict |-> RowVerdict(within[k], Carried(findings, ref[k]), Blank(ref[k]))]]
    BY <2>1, <2>2
  <2> HIDE DEF per_row
  <2>4. QED
    BY <2>3
<1>3. within[i] = matches_conditions(conds, rows[i], d)
  OBVIOUS
<1>4. CASE ~matches_conditions(conds, rows[i], d)
  <2>1. within[i] = FALSE /\ matches_conditions(conds, rows[i], d) = FALSE
    BY <1>3, <1>4 DEF matches_conditions
  <2> HIDE DEF within, Blank, per_row, findings, ref
  <2>2. \A X, u : RowVerdict(FALSE, X, u) = "not_evaluated"
    BY DEF RowVerdict
  <2>3. per_row[i].verdict = RowVerdict(matches_conditions(conds, rows[i], d),
                                        CalledFor(rules, rows[i], d), Unread(rules, rows[i], d))
    BY <1>2, <2>1, <2>2
  <2>4. QED
    BY <1>2, <2>3 DEF per_row, CalledVerdict
<1>5. CASE matches_conditions(conds, rows[i], d)
  <2>1. Carried(findings, ref[i]) = CalledFor(rules, rows[i], d)
    BY <1>1, <1>5, RowFindings
  <2>2. \A k \in DOMAIN rows : ref[k] = ref[i] => k = i
    BY <1>1
  <2>3. Blank(ref[i]) = Unread(rules, rows[i], d)
    <3> HIDE DEF ref, within
    <3>1. Blank(ref[i]) <=> \E r \in DOMAIN rules : rule_row_state(rules[r].conditions, rows[i], d) = "unevaluable"
      BY <1>3, <1>5, <2>2
    <3>2. Unread(rules, rows[i], d) <=> \E r \in DOMAIN rules : rule_row_state(rules[r].conditions, rows[i], d) = "unevaluable"
      BY DEF Range, Unread
    <3>3. QED
      BY <3>1, <3>2 DEF Unread
  <2> HIDE DEF Blank, ref, within, per_row, findings
  <2>4. per_row[i].verdict = RowVerdict(matches_conditions(conds, rows[i], d),
                                        CalledFor(rules, rows[i], d), Unread(rules, rows[i], d))
    BY <1>2, <1>3, <2>1, <2>3
  <2>5. QED
    BY <1>2, <2>4 DEF per_row, CalledVerdict
<1>6. QED
  BY <1>4, <1>5

(* The rules loaded for the table are those bound.                         *)
LEMMA LoadedAre ==
    ASSUME NEW rules \in SUBSET RuleIds, NEW s \in DOMAIN load_subject_row_rules(rules)
    PROVE  s = Table /\ Range(load_subject_row_rules(rules)[s]) = {RowRules[r] : r \in rules}
<1>1. IsFiniteSet(rules)
  BY EvidenceAssumption, FS_Subset DEF RuleIds
<1> DEFINE f == SetToSeq(rules)
<1>2. f \in Seq(rules) /\ Range(f) = rules
  BY <1>1, Enumerated
<1>3. Len(f) = Cardinality(rules)
  <2>1. Cardinality(rules) \in Nat /\ \E g \in [1 .. Cardinality(rules) -> rules] : IsInjective(g)
    BY <1>1, FS_CardinalityType DEF ExistsBijection, Bijection, Injection
  <2>2. f \in [1 .. Cardinality(rules) -> rules]
    BY <2>1 DEF SetToSeq
  <2> HIDE DEF f
  <2>3. QED
    BY <1>2, <2>1, <2>2
<1>4. load_subject_row_rules(rules) = IF rules = {} THEN <<>>
        ELSE [t \in {Table} |-> [i \in 1 .. Cardinality(rules) |-> RowRules[f[i]]]]
  BY DEF load_subject_row_rules
<1> HIDE DEF f
<1>5. s = Table /\ load_subject_row_rules(rules)[s] = [i \in 1 .. Len(f) |-> RowRules[f[i]]]
  BY <1>3, <1>4
<1>6. DOMAIN f = 1 .. Len(f)
  BY <1>2
<1>7. Range(load_subject_row_rules(rules)[s]) = {RowRules[f[i]] : i \in 1 .. Len(f)}
  BY <1>5 DEF Range
<1>8. {RowRules[f[i]] : i \in 1 .. Len(f)} = {RowRules[r] : r \in rules}
  BY <1>2, <1>6 DEF Range
<1>9. QED
  BY <1>5, <1>7, <1>8

-----------------------------------------------------------------------------
(* Where an artifact has verdicts there is its table, rows and verdicts    *)
(* from one collection.                                                    *)
LEMMA VerdictsAreJudged ==
    ASSUME NEW d, NEW j, j.spec = Recipe, NEW rules \in SUBSET RuleIds, j.row_rules = load_subject_row_rules(rules),
           NEW a \in result_to_artifact(j, d), NEW s \in DOMAIN a.verdicts
    PROVE  /\ s = Table /\ Table \in DOMAIN j.row_rules /\ Table \in DOMAIN j.sections
           /\ Table \in DOMAIN a.sections /\ a.sections[Table].type = "table"
           /\ a.sections[Table].items = j.sections[Table]
           /\ a.verdicts[s] = evaluate_section_rows(j.row_rules[Table], j.sections[Table], ScopeOf(j, Table), d).per_row
           /\ ScopeIn(a) = ScopeOf(j, Table)
<1>1. PICK built : /\ DOMAIN built = DOMAIN j.sections
                   /\ \A t \in DOMAIN built : built[t] \in build_section(j, t)
                   /\ a = assemble_artifact(j, built, Judged(j, d), d)
  BY ArtifactParts
<1> DEFINE judged == Judged(j, d)
<1>2. DOMAIN judged = DOMAIN j.row_rules
  BY DEF Judged
<1> HIDE DEF judged
<1>3. /\ DOMAIN a.verdicts = {t \in DOMAIN judged \cap DOMAIN built : built[t].type = "table"}
      /\ a.verdicts[s] = judged[s].per_row
  BY <1>1 DEF assemble_artifact, judged
<1>4. s = Table /\ s \in DOMAIN j.row_rules /\ s \in DOMAIN j.sections
  BY <1>1, <1>2, <1>3, LoadedAre
<1>5. built[Table].type = "table" /\ built[Table].items = j.sections[Table]
  BY <1>1, <1>4, TableIsBuilt
<1>6. Table \in DOMAIN a.sections /\ a.sections[Table] = built[Table]
  BY <1>1, <1>4, ArtifactSections, EnrichKeepsTable
<1>7. judged[Table] = evaluate_section_rows(j.row_rules[Table], j.sections[Table], ScopeOf(j, Table), d)
  BY <1>4 DEF Judged, judged, RowsOf
<1>8. ScopeIn(a) = ScopeOf(j, Table)
  <2>1. a.evaluation = [t \in DOMAIN judged |->
          [scope |-> ScopeOf(j, t),
           checks |-> {[rule_id |-> r.rule_id, severity |-> r.severity] : r \in Range(j.row_rules[t])}]]
    BY <1>1 DEF assemble_artifact, judged
  <2>2. a.evaluation[Table].scope = ScopeOf(j, Table)
    BY <1>2, <1>4, <2>1
  <2>3. QED
    BY <2>2 DEF ScopeIn
<1>9. QED
  BY <1>3, <1>4, <1>5, <1>6, <1>7, <1>8

LEMMA CollectedRowsOwn ==
    ASSUME RowRulesAreValid, RowsHaveIds, NEW d, NEW j, Whole(j), NEW a \in result_to_artifact(j, d)
    PROVE  RowsOwn(a)
<1>1. PICK rules \in SUBSET RuleIds : j.row_rules = load_subject_row_rules(rules)
  BY DEF Whole
<1>2. /\ j.scope = load_subject_section_scope /\ j.spec = Recipe
      /\ \A s \in DOMAIN j.sections : j.sections[s] \in Samples[s]
  BY DEF Whole
<1>3. ChecksOf(a) = rules
  BY <1>1, <1>2, StoredIsJudged
<1> SUFFICES ASSUME NEW s \in DOMAIN a.verdicts, NEW i \in DOMAIN a.verdicts[s]
             PROVE  a.verdicts[s][i].verdict = OwnVerdict(a, a.sections[s].items[i])
  BY DEF RowsOwn
<1> DEFINE rows == j.sections[Table]
           judging == j.row_rules[Table]
           conds == ScopeOf(j, Table)
<1>0. a.imported_at = d
  BY <1>1, <1>2, StoredIsJudged
<1>4. /\ s = Table /\ Table \in DOMAIN j.row_rules /\ Table \in DOMAIN j.sections
      /\ Table \in DOMAIN a.sections /\ a.sections[s].items = rows
      /\ a.verdicts[s] = evaluate_section_rows(judging, rows, conds, d).per_row
      /\ ScopeIn(a) = conds
  BY <1>1, <1>2, VerdictsAreJudged
<1>5. Range(judging) = {RowRules[r] : r \in rules}
  BY <1>1, <1>4, LoadedAre
<1>6. RulesIn(a) = Range(judging)
  <2>1. Table \in DOMAIN a.evaluation
    <3>1. rules # {}
      BY <1>1, <1>4 DEF load_subject_row_rules
    <3>2. QED
      BY <1>3, <3>1 DEF ChecksOf
  <2> DEFINE checks == a.evaluation[Table].checks
  <2>2. rules = {c.rule_id : c \in checks}
    BY <1>3, <2>1 DEF ChecksOf
  <2>3. RulesIn(a) = {RowRules[c.rule_id] : c \in checks}
    BY DEF RulesIn
  <2> HIDE DEF checks, judging
  <2>4. QED
    BY <1>5, <2>2, <2>3
<1>7. rows \in Seq(Range(rows)) /\ rows \in Samples[Table]
  BY <1>2, <1>4, EvidenceAssumption
<1>8. /\ \A k \in DOMAIN rows : ~is_absent(Cell(rows[k], "id"))
      /\ \A k, l \in DOMAIN rows : rows[k]["id"] = rows[l]["id"] => k = l
  BY <1>7 DEF RowsHaveIds
<1>9. \A r \in DOMAIN judging : judging[r].emit \in {"count", "per_row"}
  BY <1>5 DEF Range, RowRulesAreValid
<1> HIDE DEF rows, judging, conds
<1>10. /\ DOMAIN a.verdicts[s] = DOMAIN rows
       /\ a.verdicts[s][i].verdict = RowVerdict(matches_conditions(conds, rows[i], d),
                                                CalledFor(judging, rows[i], d), Unread(judging, rows[i], d))
  <2> DEFINE per_row == evaluate_section_rows(judging, rows, conds, d).per_row
  <2>1. ASSUME NEW k \in DOMAIN rows
        PROVE  per_row[k].verdict = CalledVerdict(judging, conds, rows[k], d)
    BY <1>7, <1>8, <1>9, RowJudged
  <2>2. DOMAIN per_row = DOMAIN rows
    BY DEF evaluate_section_rows, JudgeRows
  <2> HIDE DEF per_row
  <2>3. i \in DOMAIN rows /\ a.verdicts[s] = per_row
    BY <1>4, <2>2 DEF per_row
  <2>4. QED
    BY <2>1, <2>2, <2>3 DEF CalledVerdict
<1>11. OwnVerdict(a, rows[i]) = RowVerdict(matches_conditions(conds, rows[i], d),
                                           CalledFor(judging, rows[i], d), Unread(judging, rows[i], d))
  <2> DEFINE row == rows[i]
             hits == {r \in RulesIn(a) : r.emit = "per_row" /\ matches_conditions(r.conditions, row, d)}
  <2>1. hits = HitBy(judging, row, d)
    BY <1>6 DEF HitBy
  <2>2. CalledFor(judging, row, d) = {r.severity : r \in hits} /\ (hits # {} <=> CalledFor(judging, row, d) # {})
    BY <2>1 DEF CalledFor
  <2>3. Unread(judging, row, d) <=> \E r \in RulesIn(a) : rule_row_state(r.conditions, row, d) = "unevaluable"
    BY <1>6 DEF Unread
  <2> HIDE DEF row, hits
  <2>4. OwnVerdict(a, row) = IF ~matches_conditions(conds, row, d) THEN "not_evaluated"
          ELSE IF hits # {} THEN Worst({r.severity : r \in hits})
          ELSE IF \E r \in RulesIn(a) : rule_row_state(r.conditions, row, d) = "unevaluable"
          THEN "not_evaluated" ELSE "good"
    BY <1>0, <1>4 DEF OwnVerdict, hits
  <2>5. OwnVerdict(a, row) = RowVerdict(matches_conditions(conds, row, d),
                                        CalledFor(judging, row, d), Unread(judging, row, d))
    <3> DEFINE called == {r.severity : r \in hits}
    <3>1. called = CalledFor(judging, row, d)
      BY <2>2
    <3>2. OwnVerdict(a, row) = IF ~matches_conditions(conds, row, d) THEN "not_evaluated"
          ELSE IF CalledFor(judging, row, d) # {} THEN Worst(CalledFor(judging, row, d))
          ELSE IF Unread(judging, row, d) THEN "not_evaluated" ELSE "good"
      BY <2>2, <2>3, <2>4
    <3>3. QED
      BY <3>2 DEF RowVerdict
  <2>6. QED
    BY <2>5 DEF row
<1>12. QED
  BY <1>4, <1>10, <1>11

(* Where row rules are valid and the rows of a table have ids of their     *)
(* own, every stored row carries the worst severity among its own          *)
(* findings, whatever other rows match, are out of scope or cannot be read *)
(* (evaluate_section_rows, result_to_artifact.py).                         *)
THEOREM RowsAreOwnVerdicts ==
    RowRulesAreValid /\ RowsHaveIds => (Spec => []RowsCarryOwnVerdict)
<1> SUFFICES ASSUME RowRulesAreValid /\ RowsHaveIds PROVE Spec => []RowsCarryOwnVerdict
  OBVIOUS
<1>1. StoreIsCollected => RowsCarryOwnVerdict
  BY CollectedRowsOwn DEF StoreIsCollected, CollectedIn, RowsCarryOwnVerdict, Stored
<1>2. QED
  BY <1>1, StoredIsCollected, PTL

-----------------------------------------------------------------------------
(* The clock. *)

LEMMA AgesTell ==
    ASSUME NEW p, NEW row, NEW d, NEW e,
           p.operator = "stale_days" => predicate_value(p, row, d) = predicate_value(p, row, e)
    PROVE  predicate_value(p, row, d) = predicate_value(p, row, e)
  BY DEF predicate_value

(* What rules and a scope say of rows on two days is the same if every     *)
(* condition reads the same of every row on both.                          *)
ReadsAlike(conds, row, d, e) ==
    \A k \in DOMAIN conds : predicate_value(conds[k], row, d) = predicate_value(conds[k], row, e)

LEMMA ConditionsAlike ==
    ASSUME NEW conds, NEW row, NEW d, NEW e, ReadsAlike(conds, row, d, e)
    PROVE  /\ matches_conditions(conds, row, d) <=> matches_conditions(conds, row, e)
           /\ matches_conditions(conds, row, d) = matches_conditions(conds, row, e)
           /\ rule_row_state(conds, row, d) = rule_row_state(conds, row, e)
<1>1. matches_conditions(conds, row, d) <=> matches_conditions(conds, row, e)
  BY DEF ReadsAlike, matches_conditions
<1>2. matches_conditions(conds, row, d) = matches_conditions(conds, row, e)
  BY <1>1 DEF matches_conditions
<1>3. {predicate_value(conds[k], row, d) : k \in DOMAIN conds}
        = {predicate_value(conds[k], row, e) : k \in DOMAIN conds}
  BY DEF ReadsAlike
<1>4. rule_row_state(conds, row, d) = rule_row_state(conds, row, e)
  BY <1>3 DEF rule_row_state
<1>5. QED
  BY <1>1, <1>2, <1>4

LEMMA JudgedAlike ==
    ASSUME NEW rules, NEW S, NEW rows \in Seq(S), NEW conds, NEW d, NEW e,
           \A i \in DOMAIN rows : ReadsAlike(conds, rows[i], d, e),
           \A i \in DOMAIN rows, r \in DOMAIN rules : ReadsAlike(rules[r].conditions, rows[i], d, e)
    PROVE  evaluate_section_rows(rules, rows, conds, d) = evaluate_section_rows(rules, rows, conds, e)
<1> DEFINE places(n) == {k \in DOMAIN rows : matches_conditions(conds, rows[k], n)}
           within(n) == [k \in DOMAIN rows |-> matches_conditions(conds, rows[k], n)]
           ref == [k \in DOMAIN rows |-> row_ref(rows[k], k)]
<1>1. places(d) = places(e)
  BY ConditionsAlike
<1>2. within(d) = within(e)
  BY ConditionsAlike
<1>3. Found(rules, rows, conds, d) = Found(rules, rows, conds, e)
  <2> DEFINE scoped == AtPlaces(rows, places(d))
             P == places(d)
  <2>1. Range(scoped) = {rows[k] : k \in places(d) \cap DOMAIN rows}
    <3> HIDE DEF places
    <3>1. QED
      BY AtPlacesRange
  <2>2. ASSUME NEW k \in DOMAIN scoped PROVE \E l \in DOMAIN rows : scoped[k] = rows[l]
    <3> HIDE DEF scoped, places
    <3>1. scoped[k] \in Range(scoped)
      BY DEF Range
    <3>2. QED
      BY <2>1, <3>1
  <2> HIDE DEF scoped
  <2>3. ASSUME NEW r \in DOMAIN rules
        PROVE  evaluate_row_rule(rules[r], scoped, d) = evaluate_row_rule(rules[r], scoped, e)
    <3> DEFINE hit(n) == {k \in DOMAIN scoped : matches_conditions(rules[r].conditions, scoped[k], n)}
    <3>1. hit(d) = hit(e)
      BY <2>2, ConditionsAlike
    <3>2. \A n : evaluate_row_rule(rules[r], scoped, n) =
            CASE rules[r].emit = "count" ->
                   IF CountHolds(rules[r].count_operator, 10 * Cardinality(hit(n)), rules[r].count_value)
                   THEN {Finding(rules[r], {})} ELSE {}
              [] rules[r].emit = "per_row" -> {Finding(rules[r], {row_ref(scoped[k], k)}) : k \in hit(n)}
      BY DEF evaluate_row_rule
    <3> HIDE DEF hit
    <3>3. QED
      BY <3>1, <3>2
  <2>4. /\ Found(rules, rows, conds, d) = UNION {evaluate_row_rule(rules[r], scoped, d) : r \in DOMAIN rules}
        /\ Found(rules, rows, conds, e) = UNION {evaluate_row_rule(rules[r], scoped, e) : r \in DOMAIN rules}
    BY <1>1 DEF Found, scoped
  <2>5. QED
    BY <2>3, <2>4
<1>4. \A n : evaluate_section_rows(rules, rows, conds, n) =
               JudgeRows(rules, rows, ref, within(n), Found(rules, rows, conds, n), n)
  BY DEF evaluate_section_rows, Found
<1> DEFINE findings == Found(rules, rows, conds, d)
           w == within(d)
<1>5. evaluate_section_rows(rules, rows, conds, d) = JudgeRows(rules, rows, ref, w, findings, d)
  BY <1>4
<1>6. evaluate_section_rows(rules, rows, conds, e) = JudgeRows(rules, rows, ref, w, findings, e)
  BY <1>2, <1>3, <1>4
<1> HIDE DEF findings, w, ref
<1>7. JudgeRows(rules, rows, ref, w, findings, d) = JudgeRows(rules, rows, ref, w, findings, e)
  <2> DEFINE Blank(x, n) == \E k \in DOMAIN rows, r \in DOMAIN rules :
                /\ w[k] /\ ref[k] = x
                /\ rule_row_state(rules[r].conditions, rows[k], n) = "unevaluable"
             Per(n) == [k \in DOMAIN rows |-> [row_ref |-> ref[k], in_scope |-> w[k],
                           verdict |-> RowVerdict(w[k], Carried(findings, ref[k]), Blank(ref[k], n))]]
  <2>1. \A n : JudgeRows(rules, rows, ref, w, findings, n) = [findings |-> findings, per_row |-> Per(n)]
    BY DEF JudgeRows, Carried
  <2>2. \A x : Blank(x, d) = Blank(x, e)
    BY ConditionsAlike
  <2>3. Per(d) = Per(e)
    <3> HIDE DEF Blank
    <3>1. QED
      BY <2>2
  <2> HIDE DEF Per
  <2>4. QED
    BY <2>1, <2>3
<1>8. QED
  BY <1>5, <1>6, <1>7

(* A collected table on which no rule and no scope has passed an age limit *)
(* is judged on a later day as it was when it was stored.                  *)
LEMMA PreviewAlike ==
    ASSUME NEW j, Whole(j), NEW e, NEW a \in result_to_artifact(j, e),
           NEW rules \in SUBSET RuleIds, NEW d, NoneHasAged(a, rules, d)
    PROVE  PreviewShows(a, rules, a.imported_at) => PreviewShows(a, rules, d)
<1> DEFINE loaded == load_subject_row_rules(rules)
           scopes == load_subject_section_scope
           conds == IF Table \in DOMAIN scopes THEN scopes[Table] ELSE <<>>
           rows == IF Table \in DOMAIN a.sections /\ a.sections[Table].type = "table"
                   THEN a.sections[Table].items ELSE <<>>
           at == a.imported_at
<1>1. Range(conds) \subseteq Range(scope)
  BY DEF load_subject_section_scope, Range
<1>2. \E S : rows \in Seq(S)
  <2>1. CASE Table \in DOMAIN a.sections /\ a.sections[Table].type = "table"
    <3>1. PICK built : /\ DOMAIN built = DOMAIN j.sections
                       /\ \A s \in DOMAIN built : built[s] \in build_section(j, s)
                       /\ a = assemble_artifact(j, built, Judged(j, e), e)
      BY ArtifactParts
    <3>2. Table \in DOMAIN j.sections /\ a.sections[Table] = built[Table]
      BY <2>1, <3>1, ArtifactSections, EnrichKeepsTable
    <3>3. a.sections[Table].items = j.sections[Table]
      BY <3>1, <3>2, TableIsBuilt DEF Whole
    <3>4. j.sections[Table] \in Samples[Table]
      BY <3>2 DEF Whole
    <3>5. QED
      BY <2>1, <3>3, <3>4, EvidenceAssumption
  <2>2. CASE ~(Table \in DOMAIN a.sections /\ a.sections[Table].type = "table")
    <3>1. rows = <<>> /\ <<>> \in Seq({})
      BY <2>2
    <3>2. QED
      BY <3>1
  <2>3. QED
    BY <2>1, <2>2
<1>3. \A i \in DOMAIN rows : Table \in DOMAIN a.sections /\ i \in DOMAIN a.sections[Table].items
                             /\ rows[i] = a.sections[Table].items[i]
  OBVIOUS
<1> HIDE DEF rows
<1>4. ASSUME NEW i \in DOMAIN rows, NEW c, c \in Range(scope) \cup UNION {Range(RowRules[r].conditions) : r \in rules}
      PROVE  predicate_value(c, rows[i], at) = predicate_value(c, rows[i], d)
  <2>1. c.operator = "stale_days" => c \in AgeLimits(rules)
    BY <1>4 DEF AgeLimits
  <2>2. c.operator = "stale_days" => predicate_value(c, rows[i], at) = predicate_value(c, rows[i], d)
    BY <1>3, <2>1 DEF NoneHasAged
  <2>3. QED
    BY <2>2, AgesTell
<1> HIDE DEF conds, at
<1>5. \A i \in DOMAIN rows : ReadsAlike(conds, rows[i], at, d)
  BY <1>1, <1>4 DEF ReadsAlike, Range
<1>6. ASSUME NEW s \in DOMAIN loaded, NEW i \in DOMAIN rows, NEW r \in DOMAIN loaded[s]
      PROVE  ReadsAlike(loaded[s][r].conditions, rows[i], at, d)
  <2>1. loaded[s][r] \in {RowRules[q] : q \in rules}
    BY <1>6, LoadedAre DEF Range
  <2>2. PICK q \in rules : loaded[s][r] = RowRules[q]
    BY <2>1
  <2>3. \A k \in DOMAIN RowRules[q].conditions :
          predicate_value(RowRules[q].conditions[k], rows[i], at) = predicate_value(RowRules[q].conditions[k], rows[i], d)
    BY <1>4 DEF Range
  <2>4. QED
    BY <2>2, <2>3 DEF ReadsAlike
<1>7. \A s \in DOMAIN loaded : s = Table
  BY LoadedAre
<1> HIDE DEF loaded
<1>8. \A s \in DOMAIN loaded : evaluate_section_rows(loaded[s], rows, conds, at)
                                 = evaluate_section_rows(loaded[s], rows, conds, d)
  BY <1>2, <1>5, <1>6, JudgedAlike
<1>9. \A n : evaluate_subject(a, loaded, scopes, n) =
               [s \in DOMAIN loaded |-> evaluate_section_rows(loaded[s], rows, conds, n)]
  BY <1>7 DEF evaluate_subject, rows, conds
<1>10. evaluate_subject(a, loaded, scopes, at) = evaluate_subject(a, loaded, scopes, d)
  BY <1>8, <1>9
<1>11. QED
  BY <1>10 DEF PreviewShows, loaded, at

(* As long as a table's rules are those a collection ran with, and no row  *)
(* has passed an age limit of theirs or of the scope, a dry run on any day *)
(* shows what that collection stored, however the bindings changed in      *)
(* between (subject_eval.py and result_to_artifact.py).                    *)
THEOREM PreviewsMatchStored == Spec => []PreviewMatchesStored
<1>1. EvidenceIInv /\ StoreIsCollected => PreviewMatchesStored
  <2> SUFFICES ASSUME EvidenceIInv, StoreIsCollected, NEW a \in store["default"],
                      ChecksOf(a) = bound, NoneHasAged(a, bound, now)
               PROVE  PreviewShows(a, bound, now)
    BY DEF PreviewMatchesStored
  <2>1. PICK j, e : Whole(j) /\ a \in result_to_artifact(j, e)
    BY EvidenceAssumption DEF StoreIsCollected, CollectedIn
  <2>2. PreviewShows(a, bound, a.imported_at) /\ bound \in SUBSET RuleIds
    BY EvidenceAssumption DEF EvidenceIInv, StoreIsWhole
  <2> DEFINE d == now
  <2>3. NoneHasAged(a, bound, d)
    OBVIOUS
  <2> HIDE DEF d
  <2>4. PreviewShows(a, bound, d)
    BY <2>1, <2>2, <2>3, PreviewAlike
  <2>5. QED
    BY <2>4 DEF d
<1>2. QED
  BY <1>1, EvidenceInvariant, StoredIsCollected, PTL
=============================================================================
