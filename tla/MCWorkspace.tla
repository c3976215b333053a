---------------------------- MODULE MCWorkspace ----------------------------
(* The instance TLC checks: the Default customer and one more, two         *)
(* CommServes, and two project ids that can be used again.                 *)
EXTENDS Workspace, TLC

CONSTANTS d, c, p0, p1, s1, s2

MCCustomers == {d, c}
MCProjects == {p0, p1}
MCProjectsOne == {p0}
MCServers == {s1, s2}

(* What is typed: either CommServe, or the URL left empty; the csGUID left *)
(* empty, or the one the Command Center does not answer.                   *)
MCForms == [url : {s1, s2}, guid : {None}] \cup {[url |-> None, guid |-> s2]}
MCFormsTwo == {[url |-> s1, guid |-> None], [url |-> None, guid |-> s2]}

RequestSymmetry == Permutations(Requests)
=============================================================================
