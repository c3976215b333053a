----------------------------- MODULE Migrations -----------------------------
(***************************************************************************)
(* The database bootstrap (db/migrations/__init__.py).  The web app and    *)
(* the MCP server each run it when they start, on one database.  A file's  *)
(* statements commit one by one, except between its own BEGIN and COMMIT,  *)
(* and the row that records the file is a transaction of its own.  A       *)
(* process may be killed anywhere and started again.                       *)
(***************************************************************************)
EXTENDS Naturals, Sequences, FiniteSets

CONSTANTS Processes,    \* the programs that open the database
          Files,        \* the migration files in order, each [len, atomic, once]:
                        \* its statements, whether BEGIN..COMMIT wraps them and
                        \* whether a statement run twice raises (ADD COLUMN)
          MaxKills      \* bounds the crashes

ASSUME MigrationsAssumption ==
  /\ Files \in Seq([len : Nat, atomic : BOOLEAN, once : BOOLEAN])
  /\ MaxKills \in Nat

VARIABLES done,         \* per file, how many of its statements have taken effect
          applied,      \* schema_migrations: the recorded files
          boot,         \* per process [pc, known, file, stmt]
          kills

migrationVars == <<done, applied, boot, kills>>

Down == [pc |-> "down", known |-> {}, file |-> 0, stmt |-> 0]

MigrationsInit ==
  /\ done = [f \in DOMAIN Files |-> 0]
  /\ applied = {}
  /\ boot = [p \in Processes |-> Down]
  /\ kills = 0

\* Which files still have to be applied is read once.
BootStart(p) ==
  /\ boot[p].pc = "down"
  /\ boot' = [boot EXCEPT ![p] = [pc |-> "applying", known |-> applied, file |-> 1, stmt |-> 0]]
  /\ UNCHANGED <<done, applied, kills>>

Skip(p) ==
  /\ boot[p].pc = "applying" /\ boot[p].file \in boot[p].known
  /\ boot' = [boot EXCEPT ![p].file = @ + 1]
  /\ UNCHANGED <<done, applied, kills>>

\* A statement of the script, or all of them when the file is one transaction.
Execute(p) ==
  LET f == boot[p].file
      last == IF Files[f].atomic THEN Files[f].len ELSE boot[p].stmt + 1
      repeated == done[f] > boot[p].stmt
  IN  /\ boot[p].pc = "applying"
      /\ f \in DOMAIN Files \ boot[p].known
      /\ boot[p].stmt < Files[f].len
      /\ IF repeated /\ Files[f].once
         THEN /\ boot' = [boot EXCEPT ![p] = Down]
              /\ UNCHANGED done
         ELSE /\ boot' = [boot EXCEPT ![p].stmt = last]
              /\ done' = [done EXCEPT ![f] = IF last > @ THEN last ELSE @]
      /\ UNCHANGED <<applied, kills>>

\* Mutant: the file is recorded before its script has run to the end.
RecordEarly(p) ==
  LET f == boot[p].file IN
  /\ boot[p].pc = "applying"
  /\ f \in DOMAIN Files \ boot[p].known
  /\ applied' = applied \cup {f}
  /\ boot' = [boot EXCEPT ![p] = IF f \in applied THEN Down ELSE [@ EXCEPT !.file = f + 1, !.stmt = 0]]
  /\ UNCHANGED <<done, kills>>

\* The insert raises when the other process has recorded the file meanwhile.
Record(p) ==
  LET f == boot[p].file IN
  /\ boot[p].pc = "applying"
  /\ f \in DOMAIN Files \ boot[p].known
  /\ boot[p].stmt = Files[f].len
  /\ applied' = applied \cup {f}
  /\ boot' = [boot EXCEPT ![p] = IF f \in applied THEN Down ELSE [@ EXCEPT !.file = f + 1, !.stmt = 0]]
  /\ UNCHANGED <<done, kills>>

\* Once all serve, the budget of kills is spent: a later boot skips every file.
BootDone(p) ==
  /\ boot[p].pc = "applying" /\ boot[p].file > Len(Files)
  /\ boot' = [boot EXCEPT ![p] = [Down EXCEPT !.pc = "up"]]
  /\ kills' = IF \A q \in Processes \ {p} : boot[q].pc = "up" THEN MaxKills ELSE kills
  /\ UNCHANGED <<done, applied>>

Kill(p) ==
  /\ boot[p].pc # "down" /\ kills < MaxKills
  /\ boot' = [boot EXCEPT ![p] = Down]
  /\ kills' = kills + 1
  /\ UNCHANGED <<done, applied>>

MigrationsNext ==
  \E p \in Processes : \/ BootStart(p) \/ Skip(p) \/ Execute(p) \/ Record(p)
                       \/ BootDone(p) \/ Kill(p)

MigrationsSpec == MigrationsInit /\ [][MigrationsNext]_migrationVars

-----------------------------------------------------------------------------
MigrationsTypeOK ==
  /\ done \in [DOMAIN Files -> Nat]
  /\ applied \subseteq DOMAIN Files
  /\ boot \in [Processes -> [pc : {"down", "applying", "up"}, known : SUBSET DOMAIN Files,
                             file : Nat, stmt : Nat]]
  /\ kills \in 0..MaxKills

\* No statement beyond a file's last takes effect, and a recorded file lacks none.
RecordedIsDone ==
  \A f \in DOMAIN Files : /\ done[f] <= Files[f].len
                          /\ f \in applied => done[f] = Files[f].len

\* A boot has behind it only recorded files, and of its current file it has run no
\* more statements than have taken effect; a file it skips it has not begun.
BootFollowsFiles ==
  \A p \in Processes : boot[p].pc = "applying" =>
    /\ boot[p].known \subseteq applied
    /\ \A f \in DOMAIN Files : f < boot[p].file => f \in applied
    /\ boot[p].file \in DOMAIN Files => boot[p].stmt <= done[boot[p].file]
    /\ boot[p].file \in boot[p].known => boot[p].stmt = 0

\* A program that serves has every file in its database, completely, however the
\* two boots interleaved and wherever they were killed: schema_migrations never
\* vouches for a file that a crash cut short (run_migrations).
ServesComplete ==
  \A p \in Processes : boot[p].pc = "up" =>
    /\ applied = DOMAIN Files
    /\ \A f \in DOMAIN Files : done[f] = Files[f].len

MigrationsIInv == MigrationsTypeOK /\ RecordedIsDone /\ BootFollowsFiles /\ ServesComplete
=============================================================================
