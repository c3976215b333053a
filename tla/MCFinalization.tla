--------------------------- MODULE MCFinalization ---------------------------
(* Instances of Finalization for TLC. *)
EXTENDS Finalization, TLC

CONSTANTS r1, r2, r3, a, b

OneRequest == {r1}
TwoRequests == {r1, r2}
ThreeRequests == {r1, r2, r3}
TwoSubjects == {1, 2}
TwoContents == {a, b}
OneContent == {a}

(* Requests and contents are interchangeable (no run with liveness). *)
Symmetry == Permutations(Requests) \cup Permutations(Contents)
=============================================================================
