---------------------------- MODULE ReviewQueue ----------------------------
(***************************************************************************)
(* What the review of subject proposals promises (ADR 0009, ADR 0015):     *)
(* a proposal waits until a person decides it; approving it is what puts   *)
(* its subject version into the catalog, in the same step; and removing a  *)
(* subject removes its versions and its proposals together.                *)
(***************************************************************************)
CONSTANTS
    Stages,      \* the proposals
    Keys         \* the subject versions, <<subject, version>>

VARIABLES
    queue,       \* per proposal: unused, pending, approved, rejected, deleted
    topic,       \* the subject version a proposal is about
    live         \* the subject versions in the catalog

vars == <<queue, topic, live>>

Subject(key) == key[1]

Init ==
    /\ queue = [st \in Stages |-> "unused"]
    /\ topic \in [Stages -> Keys]
    /\ live \subseteq Keys

Propose(st) ==
    /\ queue[st] = "unused"
    /\ queue' = [queue EXCEPT ![st] = "pending"]
    /\ \E k \in Keys : topic' = [topic EXCEPT ![st] = k]
    /\ UNCHANGED live

Approve(st) ==
    /\ queue[st] = "pending"
    /\ queue' = [queue EXCEPT ![st] = "approved"]
    /\ live' = live \cup {topic[st]}
    /\ UNCHANGED topic

Reject(st) ==
    /\ queue[st] = "pending"
    /\ queue' = [queue EXCEPT ![st] = "rejected"]
    /\ UNCHANGED <<topic, live>>

Remove(subject) ==
    /\ \E k \in live : Subject(k) = subject
    /\ live' = {k \in live : Subject(k) # subject}
    /\ queue' = [st \in Stages |->
                    IF queue[st] # "unused" /\ Subject(topic[st]) = subject
                    THEN "deleted" ELSE queue[st]]
    /\ UNCHANGED topic

Next ==
    \/ \E st \in Stages : Propose(st) \/ Approve(st) \/ Reject(st)
    \/ \E k \in Keys : Remove(Subject(k))

Spec == Init /\ [][Next]_vars
=============================================================================
