--------------------------- MODULE SnapshotLedger ---------------------------
(***************************************************************************)
(* What finalize and reload promise (ADR 0002), without files, rows or     *)
(* requests: a project's working state is edited freely, finalize appends  *)
(* all of it to a ledger of snapshots, reload puts the last snapshot back, *)
(* and a project that has a snapshot is never removed.                     *)
(***************************************************************************)
EXTENDS Naturals, Sequences

CONSTANTS Subjects, Contents, Absent

VARIABLES
    open,       \* whether the project exists
    working,    \* the content of each subject, or Absent
    ledger      \* the snapshots, in the order they were made

vars == <<open, working, ledger>>

Init ==
    /\ open = TRUE
    /\ working = [s \in Subjects |-> Absent]
    /\ ledger = <<>>

Edit ==
    /\ \E s \in Subjects, c \in Contents \cup {Absent} :
          working' = [working EXCEPT ![s] = c]
    /\ UNCHANGED <<open, ledger>>

Snapshot ==
    /\ open
    /\ \E s \in Subjects : working[s] # Absent
    /\ ledger' = Append(ledger, working)
    /\ UNCHANGED <<open, working>>

Reload ==
    /\ open
    /\ ledger # <<>>
    /\ working' = ledger[Len(ledger)]
    /\ UNCHANGED <<open, ledger>>

Open ==
    /\ ~open
    /\ open' = TRUE
    /\ UNCHANGED <<working, ledger>>

Close ==
    /\ open
    /\ ledger = <<>>
    /\ open' = FALSE
    /\ UNCHANGED <<working, ledger>>

Next == Edit \/ Snapshot \/ Reload \/ Open \/ Close

Spec == Init /\ [][Next]_vars
=============================================================================
